---------------------------- MODULE StencilProofs ----------------------------
(***************************************************************************)
(* Proofs about Stencil.  The first half is about any plan that meets a    *)
(* few conditions (SoundPlan, InsidePlan): whatever the interleaving of    *)
(* its threads, shared memory is used without a race, nothing outside its  *)
(* arrays and, by a program that is confined to its images, nothing        *)
(* outside these is accessed, and the picture handed back is the intended  *)
(* one.  The second half shows that the plans of the programs meet them,   *)
(* for images, blocks and tiles of every size.                             *)
(***************************************************************************)
EXTENDS Stencil, TLAPS

-----------------------------------------------------------------------------
(* What makes a plan sound. *)

Statements == {"load", "sync", "returnIfOutside", "interpolate", "prefetch", "write", "store"}

(* A barrier stands between the loads and what reads the window; sums are  *)
(* written after they are computed; every kernel writes.                   *)
SoundCode(code) ==
  /\ code \in Seq(Statements)
  /\ \A l, n \in DOMAIN code : code[l] = "load" /\ code[n] \in {"interpolate", "store"} =>
       \E s \in DOMAIN code : l < s /\ s < n /\ code[s] = "sync"
  /\ \A n \in DOMAIN code : code[n] = "write" =>
       \E i \in DOMAIN code : i < n /\ code[i] = "interpolate"
  /\ \E n \in DOMAIN code : code[n] \in {"write", "store"}

Hosts == {<<"launch", "copyBack">>, <<"memset", "launch", "copyBack">>}

(* Threads of a block load different cells, all of them of the array. *)
SoundShares(p, share) ==
  /\ \A th \in p.threads : DOMAIN share[th] \subseteq p.array
  /\ \A th, u \in p.threads : th # u /\ th[1] = u[1] =>
       DOMAIN share[th] \cap DOMAIN share[u] = {}

(* The pixel q is what thread th finds at a source: in global memory, or   *)
(* in a cell that a thread of its block loads with it.                     *)
Finds(p, th, source, q) ==
  \/ source = FromGlobal(q)
  \/ /\ \E l \in DOMAIN p.code : p.code[l] = "load"
     /\ \E u \in p.threads : u[1] = th[1] /\
          \E c \in DOMAIN p.loads[u] : source = FromWindow(c) /\ p.loads[u][c] = q

(* By its taps a thread computes the intended sum of output o. *)
SoundOutput(p, th, o) ==
  \E pixel :
    /\ p.image[o] = {<<i, pixel[i]>> : i \in DOMAIN p.taps[1][th][o]}
    /\ \A i \in DOMAIN p.taps[1][th][o] : Finds(p, th, p.taps[1][th][o][i], pixel[i])

SoundPlan(p) ==
  /\ SoundCode(p.code)
  /\ p.host \in Hosts
  /\ SoundShares(p, p.loads)
  /\ SoundShares(p, p.ahead)
  /\ p.image = [o \in DOMAIN p.image |-> p.image[o]]      \* it is a function
  /\ \A o \in DOMAIN p.image : p.image[o] # Unwritten
  /\ \A o \in DOMAIN p.image : \E th \in p.threads : o \in DOMAIN p.taps[1][th]
  /\ \A th \in p.threads : \A o \in DOMAIN p.taps[1][th] \cap DOMAIN p.image :
       SoundOutput(p, th, o)

PlansSound == \A n \in DOMAIN Plans : SoundPlan(Plans[n])

(* By a plan threads keep to the array; and by one that is confined they   *)
(* read from the input only and store to the output only.                  *)
LoadsInside(p, share) == \A th \in p.threads : \A c \in DOMAIN share[th] : share[th][c] \in p.inputs
SourceInside(p, source) ==
  \/ \E c \in p.array : source = FromWindow(c)
  \/ \E q : source = FromGlobal(q) /\ (p.confined => q \in p.inputs)
InsidePlan(p) ==
  /\ p.confined => LoadsInside(p, p.loads) /\ LoadsInside(p, p.ahead)
  /\ \A th \in p.threads : \A o \in DOMAIN p.taps[1][th] :
       /\ p.confined => o \in p.pixels
       /\ \A i \in DOMAIN p.taps[1][th][o] : SourceInside(p, p.taps[1][th][o][i])

PlansInside == \A n \in DOMAIN Plans : InsidePlan(Plans[n])

-----------------------------------------------------------------------------
(* The inductive invariant. *)

(* A thread is at a statement, or has returned there. *)
Position(th) == IF pc[th] < 0 THEN -pc[th] ELSE pc[th]
Done(th, statements) ==
  \E n \in DOMAIN plan.code : n < Position(th) /\ plan.code[n] \in statements

Typed ==
  /\ TypeOK
  /\ pc \in [Threads -> Int] /\ hostPc \in Nat
  /\ DOMAIN cur = Blocks /\ DOMAIN nxt = Blocks /\ DOMAIN results = Threads

(* No thread has passed a barrier that another one of its block is before. *)
Lockstep ==
  \A th, u \in Threads : th[1] = u[1] =>
    \A s \in DOMAIN plan.code : plan.code[s] = "sync" /\ s < Position(th) => s <= Position(u)

(* The threads run once the host has launched them; before the first       *)
(* statement of the host nothing has been written.                         *)
LaunchAt == Len(plan.host) - 1
HostInv ==
  /\ hostPc <= LaunchAt => \A th \in Threads : pc[th] = NotLaunched
  /\ hostPc > LaunchAt => \A th \in Threads : pc[th] # NotLaunched
  /\ hostPc = 1 => \A p \in DOMAIN plan.image : output[p] = Unwritten

(* Only a thread without outputs returns. *)
ReturnedIdle == \A th \in Threads : pc[th] < 0 => DOMAIN plan.taps[1][th] = {}

(* What a thread has loaded stays. *)
WindowFilled ==
  \A th \in Threads : Done(th, {"load"}) =>
    \A c \in DOMAIN plan.loads[th] : cur[th[1]][c] = plan.loads[th][c]

(* The sums in a thread's registers are the intended ones, and all of its  *)
(* sums are there once it has computed them.                               *)
ResultsRight ==
  \A th \in Threads :
    /\ \A o \in DOMAIN results[th] \cap DOMAIN plan.image : results[th][o] = plan.image[o]
    /\ Done(th, {"interpolate"}) => DOMAIN results[th] = DOMAIN plan.taps[1][th]

(* An output is never anything else than the intended one after a thread   *)
(* whose output it is has written it.                                      *)
OutputRight ==
  \A th \in Threads : Done(th, {"write", "store"}) =>
    \A o \in DOMAIN plan.taps[1][th] \cap DOMAIN plan.image : output[o] = plan.image[o]

Inv ==
  /\ Typed /\ Lockstep /\ HostInv /\ ReturnedIdle
  /\ WindowFilled /\ ResultsRight /\ OutputRight

-----------------------------------------------------------------------------
(* Facts about a call that the steps need. *)

LEMMA SameCall ==
  ASSUME UNCHANGED job
  PROVE  /\ plan' = plan /\ Threads' = Threads /\ Blocks' = Blocks /\ LaunchAt' = LaunchAt
  BY DEF plan, Plan, Threads, Blocks, LaunchAt

LEMMA OverwriteValue ==
  ASSUME NEW f, NEW g
  PROVE  /\ DOMAIN Overwrite(f, g) = DOMAIN f \cup DOMAIN g
         /\ \A x \in DOMAIN g : Overwrite(f, g)[x] = g[x]
         /\ \A x \in DOMAIN f \ DOMAIN g : Overwrite(f, g)[x] = f[x]
  BY DEF Overwrite

LEMMA CodeDomain ==
  ASSUME NEW p, SoundPlan(p)
  PROVE  Len(p.code) \in Nat /\ DOMAIN p.code = 1 .. Len(p.code)
<1>1. p.code \in Seq(Statements)
  BY DEF SoundPlan, SoundCode
<1>2. QED
  BY <1>1

(* The host's last two statements are the launch and the copy. *)
LEMMA HostFacts ==
  ASSUME NEW host \in Hosts
  PROVE  /\ Len(host) \in 2 .. 3 /\ DOMAIN host = 1 .. Len(host)
         /\ \A n \in 1 .. Len(host) :
              /\ host[n] = "launch" <=> n = Len(host) - 1
              /\ host[n] = "copyBack" <=> n = Len(host)
              /\ host[n] = "memset" => n = 1
<1>1. CASE host = <<"launch", "copyBack">>
  BY <1>1
<1>2. CASE host = <<"memset", "launch", "copyBack">>
  BY <1>2
<1>3. QED
  BY <1>1, <1>2 DEF Hosts

LEMMA PlanHost ==
  ASSUME SoundPlan(plan)
  PROVE  /\ Len(plan.host) \in 2 .. 3 /\ DOMAIN plan.host = 1 .. Len(plan.host)
         /\ \A n \in 1 .. Len(plan.host) :
              /\ plan.host[n] = "launch" <=> n = LaunchAt
              /\ plan.host[n] = "copyBack" <=> n = Len(plan.host)
              /\ plan.host[n] = "memset" => n = 1
         /\ LaunchAt = Len(plan.host) - 1 /\ LaunchAt \in 1 .. 2
<1>1. plan.host \in Hosts
  BY DEF SoundPlan
<1>2. LaunchAt = Len(plan.host) - 1 /\ Len(plan.host) \in 2 .. 3
  BY <1>1, HostFacts DEF LaunchAt
<1>3. LaunchAt \in 1 .. 2
  BY <1>2
<1>4. QED
  BY <1>1, <1>2, <1>3, HostFacts

-----------------------------------------------------------------------------
(* Control. *)

(* A statement moves its thread on, past the barriers that it may pass.    *)
LEMMA Advances ==
  ASSUME SoundPlan(plan), Inv, NEW th \in Threads, NEW statement, At(th, statement), Advance(th)
  PROVE  /\ pc[th] \in 1 .. Len(plan.code) /\ plan.code[pc[th]] = statement
         /\ pc' = [pc EXCEPT ![th] = pc[th] + 1]
         /\ pc' \in [Threads -> Int]
         /\ Position(th) = pc[th] /\ Position(th)' = pc[th] + 1
         /\ \A u \in Threads \ {th} : pc'[u] = pc[u] /\ Position(u)' = Position(u)
         /\ UNCHANGED <<job, hostPc, result>>
<1>1. pc \in [Threads -> Int] /\ DOMAIN plan.code = 1 .. Len(plan.code)
  BY CodeDomain DEF Inv, Typed
<1>2. /\ pc[th] \in 1 .. Len(plan.code) /\ plan.code[pc[th]] = statement
      /\ pc' = [pc EXCEPT ![th] = pc[th] + 1] /\ UNCHANGED <<job, hostPc, result>>
  BY <1>1 DEF At, Advance
<1>3. pc' \in [Threads -> Int] /\ pc'[th] = pc[th] + 1
  BY <1>1, <1>2
<1>4. \A u \in Threads \ {th} : pc'[u] = pc[u]
  BY <1>1, <1>2
<1>5. Position(th) = pc[th] /\ Position(th)' = pc[th] + 1
  BY <1>1, <1>2, <1>3 DEF Position
<1>6. \A u \in Threads \ {th} : Position(u)' = Position(u)
  BY <1>4 DEF Position
<1>7. QED
  BY <1>2, <1>3, <1>4, <1>5, <1>6

(* What has been done then. *)
LEMMA AdvancesDone ==
  ASSUME SoundPlan(plan), Inv, NEW th \in Threads, NEW statement, At(th, statement),
         Advance(th), NEW S
  PROVE  /\ Done(th, S)' <=> Done(th, S) \/ statement \in S
         /\ \A u \in Threads \ {th} : Done(u, S)' <=> Done(u, S)
<1>1. /\ pc[th] \in 1 .. Len(plan.code) /\ plan.code[pc[th]] = statement
      /\ Position(th) = pc[th] /\ Position(th)' = pc[th] + 1
      /\ \A u \in Threads \ {th} : Position(u)' = Position(u)
      /\ UNCHANGED job
  BY Advances
<1>2. plan' = plan /\ DOMAIN plan.code = 1 .. Len(plan.code) /\ Len(plan.code) \in Nat
  BY <1>1, SameCall, CodeDomain
<1>3. \A n \in 1 .. Len(plan.code) : n < Position(th)' <=> n < Position(th) \/ n = pc[th]
  BY <1>1, <1>2
<1>4. Done(th, S)' <=> Done(th, S) \/ statement \in S
  <2>1. Done(th, S)' <=> \E n \in DOMAIN plan.code : n < Position(th)' /\ plan.code[n] \in S
    BY <1>2 DEF Done
  <2>2. QED
    BY <1>1, <1>2, <1>3, <2>1 DEF Done
<1>5. ASSUME NEW u \in Threads \ {th}
      PROVE  Done(u, S)' <=> Done(u, S)
  BY <1>1, <1>2 DEF Done
<1>6. QED
  BY <1>4, <1>5

LEMMA AdvanceKeepsControl ==
  ASSUME SoundPlan(plan), Inv, NEW th \in Threads, NEW statement, At(th, statement), Advance(th),
         statement = "sync" => Released(th)
  PROVE  /\ Lockstep' /\ ReturnedIdle' /\ hostPc > LaunchAt
         /\ HostInv' /\ plan' = plan /\ Threads' = Threads /\ Blocks' = Blocks
         /\ \A u \in Threads : pc'[u] \in -Len(plan.code) .. Len(plan.code) + 1
<1>1. /\ pc[th] \in 1 .. Len(plan.code) /\ plan.code[pc[th]] = statement
      /\ pc' = [pc EXCEPT ![th] = pc[th] + 1]
      /\ pc' \in [Threads -> Int]
      /\ Position(th) = pc[th] /\ Position(th)' = pc[th] + 1
      /\ \A u \in Threads \ {th} : pc'[u] = pc[u] /\ Position(u)' = Position(u)
      /\ UNCHANGED <<job, hostPc, result>>
  BY Advances
<1>2. /\ plan' = plan /\ Threads' = Threads /\ Blocks' = Blocks /\ LaunchAt' = LaunchAt
      /\ DOMAIN plan.code = 1 .. Len(plan.code) /\ Len(plan.code) \in Nat
  BY <1>1, SameCall, CodeDomain
<1>3. pc \in [Threads -> Int] /\ pc'[th] = pc[th] + 1 /\ \A u \in Threads : Position(u) \in Int
  BY <1>1 DEF Inv, Typed, Position
<1>4. Lockstep'
  <2>1. SUFFICES ASSUME NEW v \in Threads, NEW u \in Threads, v[1] = u[1],
                        NEW s \in 1 .. Len(plan.code), plan.code[s] = "sync", s < Position(v)'
                 PROVE  s <= Position(u)'
    BY <1>2 DEF Lockstep
  <2>2. Position(u)' >= Position(u)
    BY <1>1, <1>3
  <2>3. CASE s < Position(v)
    <3>1. s <= Position(u)
      BY <1>2, <2>1, <2>3 DEF Inv, Lockstep
    <3>2. QED
      BY <2>2, <3>1, <1>1, <1>3
  <2>4. CASE ~(s < Position(v))
    <3>1. v = th /\ s = pc[th]
      BY <1>1, <1>3, <2>1, <2>4
    <3>2. Position(u) >= pc[th]
      BY <1>1, <2>1, <3>1 DEF Released, Position
    <3>3. QED
      BY <2>2, <3>1, <3>2, <1>1, <1>3
  <2>5. QED
    BY <2>3, <2>4
<1>5. ReturnedIdle'
  BY <1>1, <1>2, <1>3 DEF ReturnedIdle, Inv
<1>6. hostPc > LaunchAt /\ LaunchAt \in 1 .. 2 /\ hostPc \in Nat
  <2>1. LaunchAt \in 1 .. 2
    BY PlanHost
  <2>2. hostPc \in Nat /\ pc[th] # 0
    BY <1>1 DEF Inv, Typed
  <2>3. QED
    BY <2>1, <2>2 DEF Inv, HostInv, NotLaunched
<1>7. HostInv'
  <2>1. \A u \in Threads : pc'[u] # NotLaunched
    BY <1>1, <1>3, <1>6 DEF Inv, HostInv, NotLaunched
  <2>2. QED
    BY <1>1, <1>2, <1>6, <2>1 DEF HostInv
<1>8. \A u \in Threads : pc'[u] \in -Len(plan.code) .. Len(plan.code) + 1
  BY <1>1, <1>2, <1>3 DEF Inv, Typed, TypeOK
<1>9. QED
  BY <1>2, <1>4, <1>5, <1>6, <1>7, <1>8

-----------------------------------------------------------------------------
(* What threads find and compute. *)

(* When a thread reads the window, its whole block has loaded it. *)
LEMMA WindowComplete ==
  ASSUME SoundPlan(plan), Inv, NEW th \in Threads, NEW statement \in {"interpolate", "store"},
         At(th, statement), NEW u \in Threads, u[1] = th[1],
         NEW l \in DOMAIN plan.code, plan.code[l] = "load"
  PROVE  Done(u, {"load"}) /\ l < Position(u)
<1>1. pc[th] \in DOMAIN plan.code /\ plan.code[pc[th]] = statement /\ DOMAIN plan.code = 1 .. Len(plan.code)
  BY CodeDomain DEF At
<1>2. PICK s \in DOMAIN plan.code : l < s /\ s < pc[th] /\ plan.code[s] = "sync"
  <2>1. SoundCode(plan.code)
    BY DEF SoundPlan
  <2>2. QED
    BY <1>1, <2>1 DEF SoundCode
<1>3. Position(th) = pc[th]
  BY <1>1 DEF Position
<1>4. s <= Position(u)
  BY <1>2, <1>3 DEF Inv, Lockstep
<1>5. Position(u) \in Int
  BY DEF Inv, Typed, Position
<1>6. l < Position(u)
  BY <1>1, <1>2, <1>4, <1>5
<1>7. QED
  BY <1>6 DEF Done

(* The sum of an output is the intended one. *)
LEMMA SumsAreRight ==
  ASSUME SoundPlan(plan), Inv, NEW th \in Threads, NEW statement \in {"interpolate", "store"},
         At(th, statement), NEW o \in DOMAIN plan.taps[1][th] \cap DOMAIN plan.image
  PROVE  Sums(plan.taps[1][th], cur[th[1]])[o] = plan.image[o]
<1> DEFINE taps == plan.taps[1][th][o]
           a == cur[th[1]]
<1>1. PICK pixel :
         /\ plan.image[o] = {<<i, pixel[i]>> : i \in DOMAIN taps}
         /\ \A i \in DOMAIN taps : Finds(plan, th, taps[i], pixel[i])
  <2>1. SoundOutput(plan, th, o)
    BY DEF SoundPlan, Threads
  <2>2. QED
    BY <2>1 DEF SoundOutput
<1>2. ASSUME NEW i \in DOMAIN taps
      PROVE  Value(taps[i], a) = pixel[i]
  <2>1. Finds(plan, th, taps[i], pixel[i])
    BY <1>1
  <2>2. CASE taps[i] = FromGlobal(pixel[i])
    BY <2>2 DEF Value, FromGlobal
  <2>3. CASE taps[i] # FromGlobal(pixel[i])
    <3>1. PICK u \in Threads : u[1] = th[1] /\ \E c \in DOMAIN plan.loads[u] :
             taps[i] = FromWindow(c) /\ plan.loads[u][c] = pixel[i]
      BY <2>1, <2>3 DEF Finds, Threads
    <3> PICK c \in DOMAIN plan.loads[u] : taps[i] = FromWindow(c) /\ plan.loads[u][c] = pixel[i]
      BY <3>1
    <3> PICK l \in DOMAIN plan.code : plan.code[l] = "load"
      BY <2>1, <2>3 DEF Finds
    <3>2. Done(u, {"load"})
      BY <3>1, WindowComplete
    <3>3. cur[u[1]][c] = plan.loads[u][c]
      BY <3>2 DEF Inv, WindowFilled
    <3>4. QED
      BY <3>1, <3>3 DEF Value, FromWindow
  <2>4. QED
    BY <2>2, <2>3
<1>3. Sums(plan.taps[1][th], a)[o] = {<<i, Value(taps[i], a)>> : i \in DOMAIN taps}
  BY DEF Sums
<1>4. QED
  BY <1>1, <1>2, <1>3

LEMMA SumsDomain ==
  ASSUME NEW taps, NEW a
  PROVE  DOMAIN Sums(taps, a) = DOMAIN taps
  BY DEF Sums

(* No load meets a read or another load of its array. *)
LEMMA InvNoRace ==
  ASSUME SoundPlan(plan), Inv
  PROVE  NoRace
<1>1. SUFFICES ASSUME NEW th \in Threads, NEW u \in Threads, th # u, th[1] = u[1],
                      NEW x \in WritesNext(th), x \in ReadsNext(u) \cup WritesNext(u)
               PROVE  FALSE
  BY DEF NoRace
<1>2. ~At(u, "storeNext")
  <2>1. plan.code \in Seq(Statements)
    BY DEF SoundPlan, SoundCode
  <2>2. \A n \in DOMAIN plan.code : plan.code[n] \in Statements
    BY <2>1
  <2>3. QED
    BY <2>2 DEF At, Statements
<1>3. CASE x \in WritesNext(u)
  <2>1. \/ x \in {"cur"} \X DOMAIN plan.loads[th] /\ x \in {"cur"} \X DOMAIN plan.loads[u]
        \/ x \in {"nxt"} \X DOMAIN plan.ahead[th] /\ x \in {"nxt"} \X DOMAIN plan.ahead[u]
    BY <1>1, <1>3 DEF WritesNext
  <2>2. x[2] \in DOMAIN plan.loads[th] \cap DOMAIN plan.loads[u] \/
        x[2] \in DOMAIN plan.ahead[th] \cap DOMAIN plan.ahead[u]
    BY <2>1
  <2>3. SoundShares(plan, plan.loads) /\ SoundShares(plan, plan.ahead)
    BY DEF SoundPlan
  <2>4. QED
    BY <1>1, <2>2, <2>3 DEF SoundShares, Threads
<1>4. CASE x \in ReadsNext(u)
  <2>1. x[1] = "cur" /\ \E statement \in {"interpolate", "store"} : At(u, statement)
    BY <1>2, <1>4 DEF ReadsNext
  <2>2. At(th, "load")
    BY <1>1, <2>1 DEF WritesNext
  <2>3. pc[th] \in DOMAIN plan.code /\ plan.code[pc[th]] = "load"
    BY <2>2 DEF At
  <2>4. pc[th] < Position(th)
    BY <1>1, <2>1, <2>3, WindowComplete
  <2>5. pc[th] \in 1 .. Len(plan.code)
    BY <2>3, CodeDomain
  <2>6. QED
    BY <2>4, <2>5 DEF Position
<1>5. QED
  BY <1>1, <1>3, <1>4

LEMMA DataTypes ==
  ASSUME Inv
  PROVE  /\ DOMAIN cur = Blocks /\ DOMAIN nxt = Blocks /\ DOMAIN results = Threads
         /\ \A b \in Blocks : DOMAIN cur[b] = plan.array /\ DOMAIN nxt[b] = plan.array
         /\ \A u \in Threads : DOMAIN results[u] \subseteq DOMAIN plan.taps[1][u]
         /\ plan.pixels \subseteq DOMAIN output
         /\ \A u \in Threads : u[1] \in Blocks
<1>1. \A a \in {cur, nxt} : DOMAIN a = Blocks /\ \A b \in Blocks : DOMAIN a[b] = plan.array
  BY DEF Inv, Typed, TypeOK
<1>2. QED
  BY <1>1 DEF Inv, Typed, TypeOK, Blocks

(* What threads read and store next lies in the arrays and the images. *)
LEMMA InvInBounds ==
  ASSUME SoundPlan(plan), InsidePlan(plan), Inv
  PROVE  CellsInBounds /\ (plan.confined => ReadsInBounds /\ StoresInBounds)
<1>1. SUFFICES ASSUME NEW th \in Threads
               PROVE  /\ WritesNext(th) \cup ReadsNext(th) \subseteq {"cur", "nxt"} \X plan.array
                      /\ plan.confined => /\ InputsNext(th) \subseteq plan.inputs
                                          /\ OutputsNext(th) \subseteq plan.pixels
  BY DEF ReadsInBounds, StoresInBounds, CellsInBounds
<1>2. ~At(th, "storeNext")
  <2>1. plan.code \in Seq(Statements)
    BY DEF SoundPlan, SoundCode
  <2>2. \A n \in DOMAIN plan.code : plan.code[n] \in Statements
    BY <2>1
  <2>3. QED
    BY <2>2 DEF At, Statements
<1> DEFINE taps == plan.taps[1][th]
<1>3. /\ plan.confined =>
           /\ \A c \in DOMAIN plan.loads[th] : plan.loads[th][c] \in plan.inputs
           /\ \A c \in DOMAIN plan.ahead[th] : plan.ahead[th][c] \in plan.inputs
           /\ \A o \in DOMAIN taps : o \in plan.pixels
      /\ \A o \in DOMAIN taps : \A i \in DOMAIN taps[o] : SourceInside(plan, taps[o][i])
  BY DEF InsidePlan, LoadsInside, Threads
<1>4. DOMAIN plan.loads[th] \subseteq plan.array /\ DOMAIN plan.ahead[th] \subseteq plan.array
  BY DEF SoundPlan, SoundShares, Threads
<1>5. DOMAIN results[th] \subseteq DOMAIN taps
  BY DataTypes
<1> HIDE DEF taps
<1>6. /\ plan.confined => SourcesIn(taps, "global") \subseteq plan.inputs
      /\ SourcesIn(taps, "window") \subseteq plan.array
  BY <1>3 DEF SourcesIn, SourceInside, FromWindow, FromGlobal
<1>7. plan.confined => InputsNext(th) \subseteq plan.inputs
  BY <1>2, <1>3, <1>6 DEF InputsNext, taps
<1>8. plan.confined => OutputsNext(th) \subseteq plan.pixels
  BY <1>2, <1>3, <1>5 DEF OutputsNext, taps
<1>9. WritesNext(th) \cup ReadsNext(th) \subseteq {"cur", "nxt"} \X plan.array
  BY <1>2, <1>4, <1>6 DEF WritesNext, ReadsNext, taps
<1>10. QED
  BY <1>7, <1>8, <1>9

-----------------------------------------------------------------------------
(* The invariant, action by action. *)

LEMMA KeepsTypes ==
  ASSUME SoundPlan(plan), Inv, NEW th \in Threads, NEW statement, At(th, statement), Advance(th),
         statement = "sync" => Released(th),
         DOMAIN cur' = Blocks, DOMAIN nxt' = Blocks, DOMAIN results' = Threads,
         \A b \in Blocks : DOMAIN cur'[b] = plan.array /\ DOMAIN nxt'[b] = plan.array,
         \A u \in Threads : DOMAIN results'[u] \subseteq DOMAIN plan.taps[1][u],
         plan.pixels \subseteq DOMAIN output'
  PROVE  Typed'
<1>1. /\ plan' = plan /\ Threads' = Threads /\ Blocks' = Blocks
      /\ \A u \in Threads : pc'[u] \in -Len(plan.code) .. Len(plan.code) + 1
  BY AdvanceKeepsControl
<1>2. pc' \in [Threads -> Int] /\ UNCHANGED <<job, hostPc, result>>
  BY Advances
<1>3. /\ job \in DOMAIN Plan /\ DOMAIN result = plan.pixels /\ hostPc \in Nat
      /\ hostPc \in 1 .. Len(plan.host) + 1
  BY DEF Inv, Typed, TypeOK
<1>4. \A a \in {cur', nxt'} : DOMAIN a = Blocks /\ \A b \in Blocks : DOMAIN a[b] = plan.array
  OBVIOUS
<1>5. TypeOK'
  BY <1>1, <1>2, <1>3, <1>4 DEF TypeOK, Plan
<1>6. QED
  BY <1>1, <1>2, <1>3, <1>5 DEF Typed

LEMMA KeepsWindow ==
  ASSUME SoundPlan(plan), Inv, NEW th \in Threads, NEW statement, At(th, statement), Advance(th),
         UNCHANGED cur, statement # "load"
  PROVE  WindowFilled'
<1>1. \A u \in Threads : Done(u, {"load"})' <=> Done(u, {"load"})
  BY AdvancesDone
<1>2. plan' = plan /\ Threads' = Threads
  BY Advances, SameCall
<1>3. QED
  BY <1>1, <1>2 DEF WindowFilled, Inv

LEMMA KeepsResults ==
  ASSUME SoundPlan(plan), Inv, NEW th \in Threads, NEW statement, At(th, statement), Advance(th),
         UNCHANGED results, statement # "interpolate"
  PROVE  ResultsRight'
<1>1. \A u \in Threads : Done(u, {"interpolate"})' <=> Done(u, {"interpolate"})
  BY AdvancesDone
<1>2. plan' = plan /\ Threads' = Threads
  BY Advances, SameCall
<1>3. QED
  BY <1>1, <1>2 DEF ResultsRight, Inv

LEMMA KeepsOutput ==
  ASSUME SoundPlan(plan), Inv, NEW th \in Threads, NEW statement, At(th, statement), Advance(th),
         UNCHANGED output, statement \notin {"write", "store"}
  PROVE  OutputRight'
<1>1. \A u \in Threads : Done(u, {"write", "store"})' <=> Done(u, {"write", "store"})
  BY AdvancesDone
<1>2. plan' = plan /\ Threads' = Threads
  BY Advances, SameCall
<1>3. QED
  BY <1>1, <1>2 DEF OutputRight, Inv

LEMMA LoadKeeps ==
  ASSUME SoundPlan(plan), Inv, NEW th \in Threads, Load(th)
  PROVE  Inv'
<1>1. /\ At(th, "load") /\ Advance(th) /\ UNCHANGED <<nxt, results, output>>
      /\ cur' = [cur EXCEPT ![th[1]] = Overwrite(cur[th[1]], plan.loads[th])]
  BY DEF Load
<1>2. /\ Lockstep' /\ HostInv' /\ ReturnedIdle'
      /\ plan' = plan /\ Threads' = Threads /\ Blocks' = Blocks
  BY <1>1, AdvanceKeepsControl
<1>3. /\ DOMAIN cur' = Blocks
      /\ DOMAIN cur'[th[1]] = plan.array \cup DOMAIN plan.loads[th]
      /\ \A c \in DOMAIN plan.loads[th] : cur'[th[1]][c] = plan.loads[th][c]
      /\ \A c \in plan.array \ DOMAIN plan.loads[th] : cur'[th[1]][c] = cur[th[1]][c]
      /\ \A b \in Blocks : b # th[1] => cur'[b] = cur[b]
  <2> DEFINE old == cur[th[1]]
             share == plan.loads[th]
             new == Overwrite(old, share)
  <2>1. DOMAIN cur' = Blocks /\ cur'[th[1]] = new
        /\ \A b \in Blocks : b # th[1] => cur'[b] = cur[b]
    BY <1>1, DataTypes
  <2>2. /\ DOMAIN new = DOMAIN old \cup DOMAIN share
        /\ \A c \in DOMAIN share : new[c] = share[c]
        /\ \A c \in DOMAIN old \ DOMAIN share : new[c] = old[c]
    BY OverwriteValue
  <2>3. DOMAIN old = plan.array
    BY DataTypes
  <2> HIDE DEF new
  <2>4. QED
    BY <2>1, <2>2, <2>3
<1>4. SoundShares(plan, plan.loads)
  BY DEF SoundPlan
<1>5. \A b \in Blocks : DOMAIN cur'[b] = plan.array
  <2>1. DOMAIN plan.loads[th] \subseteq plan.array
    BY <1>4 DEF SoundShares, Threads
  <2>2. DOMAIN cur'[th[1]] = plan.array
    BY <1>3, <2>1
  <2>3. QED
    BY <1>3, <2>2, DataTypes
<1>6. Typed'
  BY <1>1, <1>3, <1>5, DataTypes, KeepsTypes
<1>7. WindowFilled'
  <2>1. SUFFICES ASSUME NEW u \in Threads, Done(u, {"load"})', NEW c \in DOMAIN plan.loads[u]
                 PROVE  cur'[u[1]][c] = plan.loads[u][c]
    BY <1>2 DEF WindowFilled
  <2>2. CASE u = th
    BY <1>3, <2>2
  <2>3. CASE u # th
    <3>1. Done(u, {"load"})
      BY <1>1, <2>1, <2>3, AdvancesDone
    <3>2. cur[u[1]][c] = plan.loads[u][c]
      BY <3>1 DEF Inv, WindowFilled
    <3>3. CASE u[1] # th[1]
      BY <1>3, <3>2, <3>3, DataTypes
    <3>4. CASE u[1] = th[1]
      <4>1. c \notin DOMAIN plan.loads[th] /\ c \in plan.array
        BY <1>4, <2>3, <3>4 DEF SoundShares, Threads
      <4>2. QED
        BY <1>3, <3>2, <3>4, <4>1
    <3>5. QED
      BY <3>3, <3>4
  <2>4. QED
    BY <2>2, <2>3
<1>8. ResultsRight' /\ OutputRight'
  BY <1>1, KeepsResults, KeepsOutput
<1>9. QED
  BY <1>2, <1>6, <1>7, <1>8 DEF Inv

LEMMA PrefetchKeeps ==
  ASSUME SoundPlan(plan), Inv, NEW th \in Threads, Prefetch(th)
  PROVE  Inv'
<1>1. /\ At(th, "prefetch") /\ Advance(th) /\ UNCHANGED <<cur, results, output>>
      /\ nxt' = [nxt EXCEPT ![th[1]] = Overwrite(nxt[th[1]], plan.ahead[th])]
  BY DEF Prefetch
<1>2. Lockstep' /\ HostInv' /\ ReturnedIdle' /\ plan' = plan /\ Threads' = Threads
  BY <1>1, AdvanceKeepsControl
<1>3. /\ DOMAIN nxt' = Blocks
      /\ DOMAIN nxt'[th[1]] = plan.array \cup DOMAIN plan.ahead[th]
      /\ \A c \in DOMAIN plan.ahead[th] : nxt'[th[1]][c] = plan.ahead[th][c]
      /\ \A c \in plan.array \ DOMAIN plan.ahead[th] : nxt'[th[1]][c] = nxt[th[1]][c]
      /\ \A b \in Blocks : b # th[1] => nxt'[b] = nxt[b]
  <2> DEFINE old == nxt[th[1]]
             share == plan.ahead[th]
             new == Overwrite(old, share)
  <2>1. DOMAIN nxt' = Blocks /\ nxt'[th[1]] = new
        /\ \A b \in Blocks : b # th[1] => nxt'[b] = nxt[b]
    BY <1>1, DataTypes
  <2>2. /\ DOMAIN new = DOMAIN old \cup DOMAIN share
        /\ \A c \in DOMAIN share : new[c] = share[c]
        /\ \A c \in DOMAIN old \ DOMAIN share : new[c] = old[c]
    BY OverwriteValue
  <2>3. DOMAIN old = plan.array
    BY DataTypes
  <2> HIDE DEF new
  <2>4. QED
    BY <2>1, <2>2, <2>3
<1>4. \A b \in Blocks : DOMAIN nxt'[b] = plan.array
  <2>1. DOMAIN plan.ahead[th] \subseteq plan.array
    BY DEF SoundPlan, SoundShares, Threads
  <2>2. DOMAIN nxt'[th[1]] = plan.array
    BY <1>3, <2>1
  <2>3. QED
    BY <1>3, <2>2, DataTypes
<1>5. Typed'
  BY <1>1, <1>3, <1>4, DataTypes, KeepsTypes
<1>6. WindowFilled' /\ ResultsRight' /\ OutputRight'
  BY <1>1, KeepsWindow, KeepsResults, KeepsOutput
<1>7. QED
  BY <1>2, <1>5, <1>6 DEF Inv

LEMMA SyncKeeps ==
  ASSUME SoundPlan(plan), Inv, NEW th \in Threads, Sync(th)
  PROVE  Inv'
<1>1. At(th, "sync") /\ Released(th) /\ Advance(th) /\ UNCHANGED <<cur, nxt, results, output>>
  BY DEF Sync
<1>2. Lockstep' /\ HostInv' /\ ReturnedIdle'
  BY <1>1, AdvanceKeepsControl
<1>3. Typed'
  BY <1>1, DataTypes, KeepsTypes
<1>4. WindowFilled' /\ ResultsRight' /\ OutputRight'
  BY <1>1, KeepsWindow, KeepsResults, KeepsOutput
<1>5. QED
  BY <1>2, <1>3, <1>4 DEF Inv

LEMMA InterpolateKeeps ==
  ASSUME SoundPlan(plan), Inv, NEW th \in Threads, Interpolate(th)
  PROVE  Inv'
<1> DEFINE sums == Sums(plan.taps[1][th], cur[th[1]])
<1>1. /\ At(th, "interpolate") /\ Advance(th) /\ UNCHANGED <<cur, nxt, output>>
      /\ results' = [results EXCEPT ![th] = sums]
  BY DEF Interpolate
<1>2. Lockstep' /\ HostInv' /\ ReturnedIdle' /\ plan' = plan /\ Threads' = Threads
  BY <1>1, AdvanceKeepsControl
<1>3. DOMAIN sums = DOMAIN plan.taps[1][th]
  BY SumsDomain
<1>4. \A o \in DOMAIN sums \cap DOMAIN plan.image : sums[o] = plan.image[o]
  BY <1>1, <1>3, SumsAreRight
<1> HIDE DEF sums
<1>5. /\ DOMAIN results' = Threads /\ results'[th] = sums
      /\ \A u \in Threads \ {th} : results'[u] = results[u]
  BY <1>1, DataTypes
<1>6. \A u \in Threads : DOMAIN results'[u] \subseteq DOMAIN plan.taps[1][u]
  BY <1>3, <1>5, DataTypes
<1>7. Typed'
  BY <1>1, <1>5, <1>6, DataTypes, KeepsTypes
<1>8. ResultsRight'
  <2>1. SUFFICES ASSUME NEW u \in Threads
                 PROVE  /\ \A o \in DOMAIN results'[u] \cap DOMAIN plan.image : results'[u][o] = plan.image[o]
                        /\ Done(u, {"interpolate"})' => DOMAIN results'[u] = DOMAIN plan.taps[1][u]
    BY <1>2 DEF ResultsRight
  <2>2. CASE u = th
    BY <1>3, <1>4, <1>5, <2>2
  <2>3. CASE u # th
    <3>1. Done(u, {"interpolate"})' <=> Done(u, {"interpolate"})
      BY <1>1, <2>3, AdvancesDone
    <3>2. QED
      BY <1>5, <2>3, <3>1 DEF Inv, ResultsRight
  <2>4. QED
    BY <2>2, <2>3
<1>9. WindowFilled' /\ OutputRight'
  BY <1>1, KeepsWindow, KeepsOutput
<1>10. QED
  BY <1>2, <1>7, <1>8, <1>9 DEF Inv

(* A thread has the intended sums of all its outputs when it writes them.  *)
LEMMA WritesSums ==
  ASSUME SoundPlan(plan), Inv, NEW th \in Threads, Write(th) \/ Store(th)
  PROVE  \E sums :
           /\ output' = Overwrite(output, sums)
           /\ DOMAIN sums = DOMAIN plan.taps[1][th]
           /\ \A o \in DOMAIN sums \cap DOMAIN plan.image : sums[o] = plan.image[o]
           /\ \E statement \in {"write", "store"} : At(th, statement) /\ Advance(th)
           /\ UNCHANGED <<cur, nxt, results>>
<1>1. CASE Write(th)
  <2>1. /\ At(th, "write") /\ Advance(th) /\ UNCHANGED <<cur, nxt, results>>
        /\ output' = Overwrite(output, results[th])
    BY <1>1 DEF Write
  <2>2. Position(th) = pc[th] /\ pc[th] \in DOMAIN plan.code /\ plan.code[pc[th]] = "write"
    BY <2>1, Advances, CodeDomain
  <2>3. Done(th, {"interpolate"})
    <3>1. SoundCode(plan.code)
      BY DEF SoundPlan
    <3>2. PICK i \in DOMAIN plan.code : i < pc[th] /\ plan.code[i] = "interpolate"
      BY <2>2, <3>1 DEF SoundCode
    <3>3. QED
      BY <2>2, <3>2 DEF Done
  <2>4. /\ DOMAIN results[th] = DOMAIN plan.taps[1][th]
        /\ \A o \in DOMAIN results[th] \cap DOMAIN plan.image : results[th][o] = plan.image[o]
    BY <2>3 DEF Inv, ResultsRight
  <2>5. QED
    BY <2>1, <2>4
<1>2. CASE Store(th)
  <2> DEFINE sums == Sums(plan.taps[1][th], cur[th[1]])
  <2>1. plan.code \in Seq(Statements)
    BY DEF SoundPlan, SoundCode
  <2>2. \A n \in DOMAIN plan.code : plan.code[n] \in Statements
    BY <2>1
  <2>3. ~At(th, "storeNext")
    BY <2>2 DEF At, Statements
  <2>4. /\ At(th, "store") /\ Advance(th) /\ UNCHANGED <<cur, nxt, results>>
        /\ output' = Overwrite(output, sums)
    BY <1>2, <2>3 DEF Store
  <2>5. DOMAIN sums = DOMAIN plan.taps[1][th]
    BY SumsDomain
  <2>6. \A o \in DOMAIN sums \cap DOMAIN plan.image : sums[o] = plan.image[o]
    BY <2>4, <2>5, SumsAreRight
  <2> HIDE DEF sums
  <2>7. QED
    BY <2>4, <2>5, <2>6
<1>3. QED
  BY <1>1, <1>2

LEMMA WriteOrStoreKeeps ==
  ASSUME SoundPlan(plan), Inv, NEW th \in Threads, Write(th) \/ Store(th)
  PROVE  /\ Inv' /\ UNCHANGED <<hostPc, result>> /\ plan' = plan
         /\ \A o \in DOMAIN plan.image : output'[o] \in {output[o], plan.image[o]}
<1>1. PICK sums :
         /\ output' = Overwrite(output, sums)
         /\ DOMAIN sums = DOMAIN plan.taps[1][th]
         /\ \A o \in DOMAIN sums \cap DOMAIN plan.image : sums[o] = plan.image[o]
         /\ \E statement \in {"write", "store"} : At(th, statement) /\ Advance(th)
         /\ UNCHANGED <<cur, nxt, results>>
  BY WritesSums
<1>2. PICK statement \in {"write", "store"} : At(th, statement) /\ Advance(th)
  BY <1>1
<1>3. /\ Lockstep' /\ HostInv' /\ ReturnedIdle'
      /\ plan' = plan /\ Threads' = Threads /\ UNCHANGED <<job, hostPc, result>>
  BY <1>2, AdvanceKeepsControl, Advances
<1>4. /\ DOMAIN output' = DOMAIN output \cup DOMAIN sums
      /\ \A x \in DOMAIN sums : output'[x] = sums[x]
      /\ \A x \in DOMAIN output \ DOMAIN sums : output'[x] = output[x]
  <2> DEFINE new == Overwrite(output, sums)
  <2>1. /\ DOMAIN new = DOMAIN output \cup DOMAIN sums
        /\ \A x \in DOMAIN sums : new[x] = sums[x]
        /\ \A x \in DOMAIN output \ DOMAIN sums : new[x] = output[x]
    BY OverwriteValue
  <2>2. output' = new
    BY <1>1
  <2> HIDE DEF new
  <2>3. QED
    BY <2>1, <2>2
<1>5. plan.pixels \subseteq DOMAIN output /\ plan.pixels \subseteq DOMAIN output'
  BY <1>4, DataTypes
<1>6. Typed'
  BY <1>1, <1>2, <1>5, DataTypes, KeepsTypes
<1>7. ASSUME NEW o \in DOMAIN plan.image
      PROVE  output'[o] = IF o \in DOMAIN sums THEN plan.image[o] ELSE output[o]
  <2>1. o \in plan.pixels
    BY StencilAssumption, DataTypes DEF plan, Plan, Inv, Typed, TypeOK
  <2>2. QED
    BY <1>1, <1>4, <1>5, <2>1
<1>8. OutputRight'
  <2>1. SUFFICES ASSUME NEW u \in Threads, Done(u, {"write", "store"})',
                        NEW o \in DOMAIN plan.taps[1][u] \cap DOMAIN plan.image
                 PROVE  output'[o] = plan.image[o]
    BY <1>3 DEF OutputRight
  <2>2. CASE u = th
    BY <1>1, <1>7, <2>2
  <2>3. CASE u # th
    <3>1. Done(u, {"write", "store"})
      BY <1>2, <2>1, <2>3, AdvancesDone
    <3>2. output[o] = plan.image[o]
      BY <3>1 DEF Inv, OutputRight
    <3>3. QED
      BY <1>7, <3>2
  <2>4. QED
    BY <2>2, <2>3
<1>9. WindowFilled' /\ ResultsRight'
  BY <1>1, <1>2, KeepsWindow, KeepsResults
<1>10. QED
  BY <1>3, <1>5, <1>6, <1>7, <1>8, <1>9 DEF Inv

(* A thread that returns stays where it is. *)
LEMMA ReturnKeeps ==
  ASSUME SoundPlan(plan), Inv, NEW th \in Threads, ReturnIfOutside(th)
  PROVE  Inv'
<1>1. At(th, "returnIfOutside") /\ UNCHANGED <<cur, nxt, results, output>>
  BY DEF ReturnIfOutside
<1>2. CASE Advance(th)
  <2>1. Lockstep' /\ HostInv' /\ ReturnedIdle'
    BY <1>1, <1>2, AdvanceKeepsControl
  <2>2. Typed'
    BY <1>1, <1>2, DataTypes, KeepsTypes
  <2>3. WindowFilled' /\ ResultsRight' /\ OutputRight'
    BY <1>1, <1>2, KeepsWindow, KeepsResults, KeepsOutput
  <2>4. QED
    BY <2>1, <2>2, <2>3 DEF Inv
<1>3. CASE ~Advance(th)
  <2>1. /\ DOMAIN plan.taps[1][th] = {} /\ pc' = [pc EXCEPT ![th] = -pc[th]]
        /\ UNCHANGED <<job, hostPc, result>>
    BY <1>3 DEF ReturnIfOutside
  <2>2. /\ plan' = plan /\ Threads' = Threads /\ Blocks' = Blocks /\ LaunchAt' = LaunchAt
        /\ Len(plan.code) \in Nat /\ DOMAIN plan.code = 1 .. Len(plan.code)
        /\ pc \in [Threads -> Int] /\ pc[th] \in DOMAIN plan.code
    BY <1>1, <2>1, SameCall, CodeDomain DEF Inv, Typed, At
  <2>3. /\ pc' \in [Threads -> Int] /\ pc'[th] = -pc[th]
        /\ \A u \in Threads \ {th} : pc'[u] = pc[u]
    BY <2>1, <2>2
  <2>4. \A u \in Threads : Position(u)' = Position(u)
    BY <2>2, <2>3 DEF Position
  <2>5. \A u \in Threads : \A S : Done(u, S)' <=> Done(u, S)
    BY <2>2, <2>4 DEF Done
  <2>6. Lockstep'
    BY <2>2, <2>4 DEF Inv, Lockstep
  <2>7. ReturnedIdle'
    BY <2>1, <2>2, <2>3 DEF Inv, ReturnedIdle
  <2>8. HostInv'
    <3>1. hostPc \in Nat /\ LaunchAt \in 1 .. 2
      BY PlanHost DEF Inv, Typed
    <3>2. hostPc > LaunchAt
      BY <2>2, <3>1 DEF Inv, HostInv, NotLaunched
    <3>3. \A u \in Threads : pc'[u] # NotLaunched
      BY <2>2, <2>3, <3>2 DEF Inv, HostInv, NotLaunched
    <3>4. ~(hostPc' <= LaunchAt') /\ ~(hostPc' = 1)
      BY <2>1, <2>2, <3>1, <3>2
    <3>5. QED
      BY <2>2, <3>3, <3>4 DEF HostInv
  <2>9. Typed'
    <3>1. \A u \in Threads : pc'[u] \in -Len(plan.code) .. Len(plan.code) + 1
      <4>1. \A u \in Threads : pc[u] \in -Len(plan.code) .. Len(plan.code) + 1
        BY DEF Inv, Typed, TypeOK
      <4>2. pc[th] \in 1 .. Len(plan.code)
        BY <2>2
      <4>3. pc'[th] \in -Len(plan.code) .. Len(plan.code) + 1
        BY <2>2, <2>3, <4>2
      <4>4. QED
        BY <2>3, <4>1, <4>3
    <3>2. TypeOK'
      BY <1>1, <2>1, <2>2, <2>3, <3>1 DEF Inv, Typed, TypeOK, Plan
    <3>3. QED
      BY <1>1, <2>1, <2>2, <2>3, <3>2 DEF Inv, Typed
  <2>10. WindowFilled'
    BY <1>1, <2>2, <2>5 DEF Inv, WindowFilled
  <2>11. ResultsRight'
    BY <1>1, <2>2, <2>5 DEF Inv, ResultsRight
  <2>12. OutputRight'
    BY <1>1, <2>2, <2>5 DEF Inv, OutputRight
  <2>13. QED
    BY <2>6, <2>7, <2>8, <2>9, <2>10, <2>11, <2>12 DEF Inv
<1>4. QED
  BY <1>2, <1>3

-----------------------------------------------------------------------------
(* The host. *)

(* What the host's steps leave alone. *)
LEMMA HostMoves ==
  ASSUME SoundPlan(plan), Inv, NEW statement, HostAt(statement)
  PROVE  /\ plan' = plan /\ Threads' = Threads /\ Blocks' = Blocks /\ LaunchAt' = LaunchAt
         /\ UNCHANGED <<job, cur, nxt, results>>
         /\ hostPc \in 1 .. Len(plan.host) /\ hostPc' = hostPc + 1
         /\ hostPc' \in 1 .. Len(plan.host) + 1
         /\ plan.host[hostPc] = statement
<1>1. /\ hostPc \in DOMAIN plan.host /\ plan.host[hostPc] = statement
      /\ hostPc' = hostPc + 1 /\ UNCHANGED <<job, cur, nxt, results>>
  BY DEF HostAt
<1>2. hostPc \in 1 .. Len(plan.host) /\ Len(plan.host) \in Nat
  BY <1>1, PlanHost
<1>3. hostPc' \in 1 .. Len(plan.host) + 1
  BY <1>1, <1>2
<1>4. QED
  BY <1>1, <1>2, <1>3, SameCall

(* Nothing has been done before the launch. *)
LEMMA NothingDone ==
  ASSUME SoundPlan(plan), NEW th, pc[th] \in {0, 1}, NEW S
  PROVE  ~Done(th, S)
<1>1. DOMAIN plan.code = 1 .. Len(plan.code) /\ Position(th) \in {0, 1}
  BY CodeDomain DEF Position
<1>2. QED
  BY <1>1 DEF Done

LEMMA MemsetKeeps ==
  ASSUME SoundPlan(plan), Inv, Memset
  PROVE  /\ Inv' /\ UNCHANGED result /\ plan' = plan
         /\ \A o \in DOMAIN plan.image : output[o] # plan.image[o]
         /\ \A o \in DOMAIN plan.image : output'[o] = Blank
         /\ ~Returned /\ ~Returned'
<1>1. HostAt("memset") /\ output' = [p \in plan.pixels |-> Blank] /\ UNCHANGED <<pc, result>>
  BY DEF Memset
<1>2. /\ plan' = plan /\ Threads' = Threads /\ Blocks' = Blocks /\ LaunchAt' = LaunchAt
      /\ UNCHANGED <<job, cur, nxt, results>> /\ hostPc' = hostPc + 1
      /\ hostPc \in 1 .. Len(plan.host) /\ plan.host[hostPc] = "memset"
      /\ hostPc' \in 1 .. Len(plan.host) + 1
  BY <1>1, HostMoves
<1>3. hostPc = 1 /\ LaunchAt = 2 /\ hostPc' = 2 /\ Len(plan.host) = 3
  <2>1. hostPc = 1
    BY <1>2, PlanHost
  <2>2. LaunchAt \in 1 .. 2 /\ LaunchAt # 1 /\ LaunchAt = Len(plan.host) - 1
    BY <1>2, <2>1, PlanHost
  <2>3. Len(plan.host) \in 2 .. 3
    BY PlanHost
  <2>4. QED
    BY <1>2, <2>1, <2>2, <2>3
<1>4. \A th \in Threads : pc[th] = 0
  BY <1>3 DEF Inv, HostInv, NotLaunched
<1>5. HostInv'
  BY <1>1, <1>2, <1>3, <1>4 DEF HostInv, NotLaunched
<1>6. \A th \in Threads : Position(th)' = Position(th) /\ \A S : Done(th, S)' <=> Done(th, S)
  BY <1>1, <1>2 DEF Position, Done
<1>7. Lockstep' /\ ReturnedIdle' /\ WindowFilled' /\ ResultsRight'
  BY <1>1, <1>2, <1>6 DEF Inv, Lockstep, ReturnedIdle, WindowFilled, ResultsRight
<1>8. OutputRight'
  <2>1. \A th \in Threads : ~Done(th, {"write", "store"})
    BY <1>4, NothingDone
  <2>2. QED
    BY <1>2, <1>6, <2>1 DEF OutputRight
<1>9. Typed'
  <2>1. TypeOK'
    BY <1>1, <1>2 DEF Inv, Typed, TypeOK, Plan
  <2>2. QED
    BY <1>1, <1>2, <1>3, <2>1 DEF Inv, Typed
<1>10. \A o \in DOMAIN plan.image : output[o] # plan.image[o]
  BY <1>3 DEF SoundPlan, Inv, HostInv
<1>11. \A o \in DOMAIN plan.image : output'[o] = Blank
  BY <1>1, StencilAssumption DEF plan, Plan, Inv, Typed, TypeOK
<1>12. ~Returned /\ ~Returned'
  BY <1>2, <1>3 DEF Returned
<1>13. QED
  BY <1>1, <1>2, <1>5, <1>7, <1>8, <1>9, <1>10, <1>11, <1>12 DEF Inv

LEMMA LaunchKeeps ==
  ASSUME SoundPlan(plan), Inv, Launch
  PROVE  Inv' /\ UNCHANGED <<output, result>> /\ plan' = plan /\ ~Returned /\ ~Returned'
<1>1. HostAt("launch") /\ pc' = [th \in Threads |-> 1] /\ UNCHANGED <<output, result>>
  BY DEF Launch
<1>2. /\ plan' = plan /\ Threads' = Threads /\ Blocks' = Blocks /\ LaunchAt' = LaunchAt
      /\ UNCHANGED <<job, cur, nxt, results>> /\ hostPc' = hostPc + 1
      /\ hostPc \in 1 .. Len(plan.host) /\ plan.host[hostPc] = "launch"
      /\ hostPc' \in 1 .. Len(plan.host) + 1
  BY <1>1, HostMoves
<1>3. hostPc = LaunchAt /\ LaunchAt = Len(plan.host) - 1 /\ LaunchAt \in 1 .. 2
  BY <1>2, PlanHost
<1>4. HostInv'
  <2> DEFINE l == LaunchAt
  <2>1. ~(hostPc' <= LaunchAt') /\ hostPc' # 1
    <3>1. hostPc' = l + 1 /\ LaunchAt' = l /\ l \in 1 .. 2
      BY <1>2, <1>3
    <3> HIDE DEF l
    <3>2. QED
      BY <3>1
  <2>2. \A th \in Threads : pc'[th] # NotLaunched
    BY <1>1 DEF NotLaunched
  <2>3. QED
    BY <1>2, <2>1, <2>2 DEF HostInv
<1>5. \A th \in Threads : pc'[th] = 1 /\ Position(th)' = 1
  BY <1>1 DEF Position
<1>6. DOMAIN plan.code = 1 .. Len(plan.code) /\ Len(plan.code) \in Nat
  BY CodeDomain
<1>7. \A th \in Threads : \A S : ~Done(th, S)'
  BY <1>2, <1>5, <1>6 DEF Done
<1>8. Lockstep'
  BY <1>2, <1>5, <1>6 DEF Lockstep
<1>9. ReturnedIdle'
  BY <1>2, <1>5 DEF ReturnedIdle
<1>10. WindowFilled' /\ OutputRight'
  BY <1>2, <1>7 DEF WindowFilled, OutputRight
<1>11. ResultsRight'
  BY <1>2, <1>7 DEF Inv, ResultsRight
<1>12. Typed'
  <2>1. TypeOK'
    BY <1>1, <1>2, <1>5, <1>6 DEF Inv, Typed, TypeOK, Plan
  <2>2. hostPc' \in Nat
    BY <1>2, <1>3
  <2>3. QED
    BY <1>1, <1>2, <2>1, <2>2 DEF Inv, Typed
<1>13. ~Returned /\ ~Returned'
  BY <1>2, <1>3 DEF Returned
<1>14. QED
  BY <1>1, <1>2, <1>4, <1>8, <1>9, <1>10, <1>11, <1>12, <1>13 DEF Inv

(* When all threads have ended, every output is the intended one. *)
LEMMA AllWritten ==
  ASSUME SoundPlan(plan), Inv, \A th \in Threads : Ended(th), NEW o \in DOMAIN plan.image
  PROVE  output[o] = plan.image[o]
<1>1. PICK th \in Threads : o \in DOMAIN plan.taps[1][th]
  BY DEF SoundPlan, Threads
<1>2. pc[th] > Len(plan.code)
  BY <1>1 DEF Ended, Inv, ReturnedIdle
<1>3. PICK n \in DOMAIN plan.code : plan.code[n] \in {"write", "store"}
  BY DEF SoundPlan, SoundCode
<1>4. n \in 1 .. Len(plan.code) /\ Len(plan.code) \in Nat /\ pc[th] \in Int
  BY <1>1, CodeDomain DEF Inv, Typed
<1>5. n < Position(th)
  BY <1>2, <1>4 DEF Position
<1>6. Done(th, {"write", "store"})
  BY <1>3, <1>5 DEF Done
<1>7. QED
  BY <1>1, <1>6 DEF Inv, OutputRight

LEMMA CopyBackKeeps ==
  ASSUME SoundPlan(plan), Inv, CopyBack
  PROVE  /\ Inv' /\ UNCHANGED output /\ result' = [p \in plan.pixels |-> output[p]] /\ plan' = plan
         /\ \A o \in DOMAIN plan.image : output[o] = plan.image[o]
         /\ ~Returned /\ Returned'
<1>1. /\ HostAt("copyBack") /\ \A th \in Threads : Ended(th)
      /\ result' = [p \in plan.pixels |-> output[p]] /\ UNCHANGED <<pc, output>>
  BY DEF CopyBack
<1>2. /\ plan' = plan /\ Threads' = Threads /\ Blocks' = Blocks /\ LaunchAt' = LaunchAt
      /\ UNCHANGED <<job, cur, nxt, results>> /\ hostPc' = hostPc + 1
      /\ hostPc \in 1 .. Len(plan.host) /\ plan.host[hostPc] = "copyBack"
      /\ hostPc' \in 1 .. Len(plan.host) + 1
  BY <1>1, HostMoves
<1>3. hostPc = LaunchAt + 1 /\ LaunchAt = Len(plan.host) - 1 /\ LaunchAt \in 1 .. 2
  BY <1>2, PlanHost
<1>4. HostInv'
  BY <1>1, <1>2, <1>3 DEF Inv, HostInv
<1>5. \A th \in Threads : Position(th)' = Position(th) /\ \A S : Done(th, S)' <=> Done(th, S)
  BY <1>1, <1>2 DEF Position, Done
<1>6. Lockstep' /\ ReturnedIdle' /\ WindowFilled' /\ ResultsRight' /\ OutputRight'
  BY <1>1, <1>2, <1>5 DEF Inv, Lockstep, ReturnedIdle, WindowFilled, ResultsRight, OutputRight
<1>7. Typed'
  <2>1. TypeOK'
    BY <1>1, <1>2 DEF Inv, Typed, TypeOK, Plan
  <2>2. hostPc' \in Nat
    BY <1>2, <1>3
  <2>3. QED
    BY <1>1, <1>2, <2>1, <2>2 DEF Inv, Typed
<1>8. ~Returned /\ Returned'
  BY <1>2, <1>3 DEF Returned
<1>9. QED
  BY <1>1, <1>2, <1>4, <1>6, <1>7, <1>8, AllWritten DEF Inv

-----------------------------------------------------------------------------
(* The invariant holds. *)

LEMMA InvInit == PlansSound /\ Init => Inv
<1> SUFFICES ASSUME PlansSound, Init
             PROVE  Inv
  OBVIOUS
<1>1. job \in DOMAIN Plan /\ SoundPlan(plan)
  BY DEF Init, PlansSound, plan, Plan
<1>2. /\ pc = [th \in Threads |-> 0] /\ hostPc = 1 /\ result = output
      /\ cur = [b \in Blocks |-> [c \in plan.array |-> Garbage]] /\ nxt = cur
      /\ results = [th \in Threads |-> <<>>]
      /\ output = [p \in plan.pixels |-> Unwritten]
  BY DEF Init, NotLaunched
<1>3. Len(plan.host) \in 2 .. 3 /\ Len(plan.code) \in Nat /\ LaunchAt \in 1 .. 2
  BY <1>1, PlanHost, CodeDomain
<1>4. DOMAIN <<>> = {}
  OBVIOUS
<1>5. Typed
  <2>1. \A th \in Threads : pc[th] \in -Len(plan.code) .. Len(plan.code) + 1
    BY <1>2, <1>3
  <2>2. \A a \in {cur, nxt} : DOMAIN a = Blocks /\ \A b \in Blocks : DOMAIN a[b] = plan.array
    BY <1>2
  <2>3. \A th \in Threads : DOMAIN results[th] \subseteq DOMAIN plan.taps[1][th]
    BY <1>2, <1>4
  <2>4. hostPc \in 1 .. Len(plan.host) + 1
    BY <1>2, <1>3
  <2>5. TypeOK
    BY <1>1, <1>2, <2>1, <2>2, <2>3, <2>4 DEF TypeOK
  <2>6. QED
    BY <1>2, <2>5 DEF Typed
<1>6. \A th \in Threads : \A S : ~Done(th, S)
  BY <1>1, <1>2, NothingDone
<1>7. Lockstep
  <2>1. DOMAIN plan.code = 1 .. Len(plan.code) /\ \A th \in Threads : Position(th) = 0
    BY <1>1, <1>2, CodeDomain DEF Position
  <2>2. QED
    BY <2>1 DEF Lockstep
<1>8. HostInv
  <2>1. \A p \in DOMAIN plan.image : output[p] = Unwritten
    BY <1>1, <1>2, StencilAssumption DEF plan, Plan
  <2>2. ~(hostPc > LaunchAt)
    BY <1>2, <1>3
  <2>3. \A th \in Threads : pc[th] = NotLaunched
    BY <1>2 DEF NotLaunched
  <2>4. QED
    BY <2>1, <2>2, <2>3 DEF HostInv
<1>9. ReturnedIdle
  BY <1>2 DEF ReturnedIdle
<1>10. WindowFilled /\ OutputRight
  BY <1>6 DEF WindowFilled, OutputRight
<1>11. ResultsRight
  BY <1>2, <1>4, <1>6 DEF ResultsRight
<1>12. QED
  BY <1>5, <1>7, <1>8, <1>9, <1>10, <1>11 DEF Inv

LEMMA StutterKeeps == Inv /\ UNCHANGED vars => Inv' /\ plan' = plan
<1> SUFFICES ASSUME Inv, UNCHANGED vars
             PROVE  Inv' /\ plan' = plan
  OBVIOUS
<1>1. UNCHANGED <<job, pc, cur, nxt, results, output, hostPc, result>>
  BY DEF vars, device
<1>2. plan' = plan /\ Threads' = Threads /\ Blocks' = Blocks /\ LaunchAt' = LaunchAt
  BY <1>1, SameCall
<1>3. \A th : Position(th)' = Position(th)
  BY <1>1 DEF Position
<1>4. \A th : \A S : Done(th, S)' <=> Done(th, S)
  BY <1>1, <1>2, <1>3 DEF Done
<1>5. TypeOK'
  BY <1>1, <1>2 DEF Inv, Typed, TypeOK, Plan
<1>6. Typed'
  BY <1>1, <1>2, <1>5 DEF Inv, Typed
<1>7. Lockstep' /\ HostInv' /\ ReturnedIdle'
  BY <1>1, <1>2, <1>3 DEF Inv, Lockstep, HostInv, ReturnedIdle
<1>8. WindowFilled' /\ ResultsRight' /\ OutputRight'
  BY <1>1, <1>2, <1>4 DEF Inv, WindowFilled, ResultsRight, OutputRight
<1>9. QED
  BY <1>2, <1>6, <1>7, <1>8 DEF Inv

(* What a thread's step does to the output. *)
LEMMA ThreadStep ==
  ASSUME SoundPlan(plan), Inv, NEW th \in Threads, Step(th)
  PROVE  /\ Inv' /\ UNCHANGED <<hostPc, result>> /\ plan' = plan
         /\ \A o \in DOMAIN plan.image : output'[o] \in {output[o], plan.image[o]}
<1>1. CASE Write(th) \/ Store(th)
  BY <1>1, WriteOrStoreKeeps
<1>2. CASE ~(Write(th) \/ Store(th))
  <2>1. /\ Load(th) \/ Sync(th) \/ ReturnIfOutside(th) \/ Interpolate(th) \/ Prefetch(th)
        /\ UNCHANGED <<output, job, hostPc, result>>
    BY <1>2 DEF Step, Load, Sync, ReturnIfOutside, Interpolate, Prefetch, Advance
  <2>2. Inv'
    BY <2>1, LoadKeeps, SyncKeeps, ReturnKeeps, InterpolateKeeps, PrefetchKeeps
  <2>3. QED
    BY <2>1, <2>2, SameCall
<1>3. QED
  BY <1>1, <1>2

LEMMA InvStep ==
  ASSUME SoundPlan(plan), Inv, [Next]_vars
  PROVE  Inv' /\ plan' = plan
<1>1. CASE UNCHANGED vars
  BY <1>1, StutterKeeps
<1>2. CASE HostStep
  BY <1>2, MemsetKeeps, LaunchKeeps, CopyBackKeeps DEF HostStep
<1>3. CASE \E th \in Threads : Step(th)
  BY <1>3, ThreadStep
<1>4. QED
  BY <1>1, <1>2, <1>3 DEF Next

LEMMA PlanIsSound == PlansSound /\ Inv => SoundPlan(plan)
  BY DEF PlansSound, Inv, Typed, TypeOK, plan, Plan

LEMMA InvHolds ==
  ASSUME PlansSound
  PROVE  Spec => []Inv
<1>1. Init => Inv
  BY InvInit
<1>2. Inv /\ [Next]_vars => Inv'
  BY InvStep, PlanIsSound
<1>3. QED
  BY <1>1, <1>2, PTL DEF Spec

LEMMA PlanIsInside == PlansInside /\ Inv => InsidePlan(plan)
  BY DEF PlansInside, Inv, Typed, TypeOK, plan, Plan

LEMMA SoundPlansAreSafe ==
  ASSUME PlansSound, PlansInside
  PROVE  Spec => []MemorySafe
<1>1. Inv => MemorySafe
  BY PlanIsSound, PlanIsInside, InvNoRace, InvInBounds DEF MemorySafe, Inv, Typed
<1>2. QED
  BY <1>1, InvHolds, PTL

LEMMA SoundPlansAreRight ==
  ASSUME PlansSound
  PROVE  Spec => ImplementsFilter
<1>1. Init => Filter!KInit
  <2> SUFFICES ASSUME Init
               PROVE  Filter!KInit
    OBVIOUS
  <2>1. Inv /\ SoundPlan(plan)
    BY InvInit, PlanIsSound
  <2>2. hostPc = 1 /\ Len(plan.host) \in 2 .. 3
    BY <2>1, PlanHost DEF Init
  <2>3. ~Returned
    BY <2>2 DEF Returned
  <2>4. QED
    BY <2>3 DEF Filter!KInit, Returned
<1>2. Inv /\ [Next]_vars => [Filter!KNext]_<<plan.image, Cropped(output), Cropped(result), Returned>>
  <2> SUFFICES ASSUME Inv, [Next]_vars
               PROVE  Filter!KNext \/ UNCHANGED <<plan.image, Cropped(output), Cropped(result), Returned>>
    OBVIOUS
  <2>1. SoundPlan(plan) /\ Inv' /\ plan' = plan
    BY PlanIsSound, InvStep
  <2>2. plan.image' = plan.image
    BY <2>1
  <2>3. /\ DOMAIN Cropped(output) = DOMAIN plan.image
        /\ Cropped(output)' = [p \in DOMAIN plan.image |-> output'[p]]
        /\ Cropped(result)' = [p \in DOMAIN plan.image |-> result'[p]]
    BY <2>1 DEF Cropped
  <2>4. CASE UNCHANGED vars
    BY <2>1, <2>4 DEF Cropped, Returned, vars, device
  <2>5. CASE Memset
    <3>1. /\ UNCHANGED result /\ \A o \in DOMAIN plan.image : output[o] # plan.image[o]
          /\ \A o \in DOMAIN plan.image : output'[o] = Blank
          /\ ~Returned /\ ~Returned'
      BY <2>1, <2>5, MemsetKeeps
    <3>2. UNCHANGED Returned
      <4>1. ~Returned /\ ~Returned'
        BY <3>1
      <4>2. QED
        BY ONLY <4>1 DEF Returned
    <3>3. Cropped(output)' = [p \in DOMAIN plan.image |-> Blank]
      BY <2>3, <3>1
    <3>4. \A p \in DOMAIN plan.image : Cropped(output)[p] # plan.image[p]
      BY <3>1 DEF Cropped
    <3>5. UNCHANGED Cropped(result)
      BY <2>1, <3>1 DEF Cropped
    <3>6. Filter!Clear
      BY <2>2, <3>2, <3>3, <3>4, <3>5 DEF Filter!Clear
    <3>7. QED
      BY <3>6 DEF Filter!KNext
  <2>6. CASE Launch
    <3>1. UNCHANGED <<output, result>> /\ ~Returned /\ ~Returned'
      BY <2>1, <2>6, LaunchKeeps
    <3>2. UNCHANGED Returned
      <4>1. ~Returned /\ ~Returned'
        BY <3>1
      <4>2. QED
        BY ONLY <4>1 DEF Returned
    <3>3. UNCHANGED <<plan.image, Cropped(output), Cropped(result)>>
      BY <2>1, <3>1 DEF Cropped
    <3>4. QED
      BY <3>2, <3>3
  <2>7. CASE CopyBack
    <3>1. /\ UNCHANGED output /\ result' = [p \in plan.pixels |-> output[p]]
          /\ \A o \in DOMAIN plan.image : output[o] = plan.image[o] /\ o \in plan.pixels
          /\ ~Returned /\ Returned'
      BY <2>1, <2>7, CopyBackKeeps, StencilAssumption DEF plan, Plan, Inv, Typed, TypeOK
    <3>2. Cropped(output) = plan.image /\ Cropped(result)' = plan.image
      <4>1. plan.image = [o \in DOMAIN plan.image |-> plan.image[o]]
        BY <2>1 DEF SoundPlan
      <4>2. QED
        BY <2>3, <3>1, <4>1 DEF Cropped
    <3>3. Returned' = TRUE
      BY <3>1, Zenon
    <3>4. UNCHANGED Cropped(output)
      BY <2>1, <3>1 DEF Cropped
    <3>5. Filter!Return
      BY <2>2, <3>1, <3>2, <3>3, <3>4 DEF Filter!Return
    <3>6. QED
      BY <3>5 DEF Filter!KNext
  <2>8. CASE \E th \in Threads : Step(th)
    <3>1. /\ UNCHANGED <<hostPc, result>>
          /\ \A o \in DOMAIN plan.image : output'[o] \in {output[o], plan.image[o]}
      BY <2>1, <2>8, ThreadStep
    <3>2. Filter!Produce
      BY <2>1, <3>1 DEF Filter!Produce, Cropped, Returned
    <3>3. QED
      BY <3>2 DEF Filter!KNext
  <2>9. QED
    BY <2>4, <2>5, <2>6, <2>7, <2>8 DEF Next, HostStep
<1>3. QED
  BY <1>1, <1>2, InvHolds, PTL DEF Spec, ImplementsFilter, Filter!KSpec

-----------------------------------------------------------------------------
(* Arithmetic. *)

LEMMA DivMod ==
  ASSUME NEW k \in Nat \ {0}, NEW a \in Nat
  PROVE  a \div k \in Nat /\ a % k \in 0 .. k - 1 /\ a = (a \div k) * k + (a % k)
<1> DEFINE q == a \div k
           r == a % k
<1>1. a = k * q + r /\ r \in 0 .. k - 1 /\ q \in Int
  OBVIOUS
<1> HIDE DEF q, r
<1>2. a < k * q + k /\ k * q + k = k * (q + 1)
  BY <1>1
<1>3. ASSUME q < 0
      PROVE  FALSE
  <2> DEFINE z == -(q + 1)
  <2>1. z \in Nat /\ q + 1 = -z
    BY <1>1, <1>3
  <2> HIDE DEF z
  <2>2. k * z >= 0 /\ k * (-z) = -(k * z)
    BY <2>1
  <2>3. QED
    BY <1>1, <1>2, <2>1, <2>2
<1>4. q \in Nat
  BY <1>1, <1>3
<1>5. q * k = k * q
  BY <1>4
<1>6. q \in Nat /\ r \in 0 .. k - 1 /\ a = q * k + r
  BY <1>1, <1>4, <1>5
<1>7. QED
  BY <1>6 DEF q, r

(* A pair of a quotient and a remainder makes one number. *)
LEMMA PairUnique ==
  ASSUME NEW k \in Nat \ {0}, NEW p \in Nat, NEW q \in Nat,
         NEW r \in 0 .. k - 1, NEW z \in 0 .. k - 1,
         p * k + r = q * k + z
  PROVE  p = q /\ r = z
<1>1. CASE p < q
  <2>1. (p + 1) * k <= q * k
    BY <1>1
  <2>2. (p + 1) * k = p * k + k
    OBVIOUS
  <2>3. QED
    BY <2>1, <2>2
<1>2. CASE q < p
  <2>1. (q + 1) * k <= p * k
    BY <1>2
  <2>2. (q + 1) * k = q * k + k
    OBVIOUS
  <2>3. QED
    BY <2>1, <2>2
<1>3. QED
  BY <1>1, <1>2

-----------------------------------------------------------------------------
(* The bicubic forward passes. *)

Bicubic == INSTANCE BicubicForward

LEMMA FloorType ==
  ASSUME NEW x \in Int, NEW in \in Nat \ {0}, NEW out \in Nat \ {0}
  PROVE  Bicubic!Floor(x, in, out) \in Int
<1>1. ((2 * x + 1) * in - out) \in Int /\ 2 * out \in Nat \ {0}
  OBVIOUS
<1>2. QED
  BY <1>1 DEF Bicubic!Floor

LEMMA ClampType ==
  ASSUME NEW i \in Int, NEW in \in Nat \ {0}
  PROVE  Bicubic!Clamp(i, in) \in 0 .. in - 1
  BY DEF Bicubic!Clamp, Bicubic!Least, Bicubic!Greatest

(* What is read lies in the input. *)
LEMMA InputPixels ==
  \A x, n \in Int : \A in, out \in Nat \ {0} :
    /\ Bicubic!WindowStart(x, in, out) \in Int
    /\ Bicubic!WindowPixel(x, n, in, out) \in 0 .. in - 1
    /\ Bicubic!TapPixel(x, n, in, out) \in 0 .. in - 1
<1>1. SUFFICES ASSUME NEW x \in Int, NEW n \in Int, NEW in \in Nat \ {0}, NEW out \in Nat \ {0}
               PROVE  /\ Bicubic!WindowStart(x, in, out) \in Int
                      /\ Bicubic!WindowPixel(x, n, in, out) \in 0 .. in - 1
                      /\ Bicubic!TapPixel(x, n, in, out) \in 0 .. in - 1
  OBVIOUS
<1> DEFINE floor == Bicubic!Floor(x, in, out)
           source == Bicubic!Clamp(floor, in)
<1>2. floor \in Int
  BY FloorType
<1> HIDE DEF floor
<1>3. source \in 0 .. in - 1
  BY <1>2, ClampType
<1> HIDE DEF source
<1> DEFINE a == floor - 1 + n
           b == source + n - 1
<1>4. a \in Int /\ b \in Int
  BY <1>2, <1>3
<1> HIDE DEF a, b
<1>5. Bicubic!Clamp(a, in) \in 0 .. in - 1 /\ Bicubic!Clamp(b, in) \in 0 .. in - 1
  BY <1>4, ClampType
<1>6. Bicubic!WindowPixel(x, n, in, out) = Bicubic!Clamp(a, in)
      /\ Bicubic!TapPixel(x, n, in, out) = Bicubic!Clamp(b, in)
  BY DEF Bicubic!WindowPixel, Bicubic!TapPixel, Bicubic!WindowStart, Bicubic!Source, a, b, source, floor
<1>7. Bicubic!WindowStart(x, in, out) \in Int
  BY <1>2 DEF Bicubic!WindowStart, floor
<1>8. QED
  BY <1>5, <1>6, <1>7

(* The pixel of a tap's place in the window is the pixel of the tap. *)
LEMMA SamePixel ==
  ASSUME NEW x \in Int, NEW x0 \in Int, NEW in \in Nat \ {0}, NEW out \in Nat \ {0},
         NEW k \in Int
  PROVE  /\ Bicubic!WindowIndex(x, x0, k, in, out) \in Int
         /\ Bicubic!WindowPixel(x0, Bicubic!WindowIndex(x, x0, k, in, out), in, out)
              = Bicubic!TapPixel(x, k, in, out)
<1> DEFINE s == Bicubic!Source(x, in, out)
           w == Bicubic!WindowStart(x0, in, out)
<1>1. s \in Int /\ w \in Int
  BY FloorType, ClampType DEF Bicubic!Source, Bicubic!WindowStart
<1> HIDE DEF s, w
<1>2. w + (s - w + k - 1) = s + k - 1 /\ s - w + k - 1 \in Int
  BY <1>1
<1>3. QED
  BY <1>2 DEF Bicubic!WindowPixel, Bicubic!WindowIndex, Bicubic!TapPixel, s, w

LEMMA DirectSound == SoundCode(Bicubic!Direct)
<1>1. /\ Bicubic!Direct \in Seq(Statements) /\ DOMAIN Bicubic!Direct = 1 .. 2
      /\ Bicubic!Direct[1] = "returnIfOutside" /\ Bicubic!Direct[2] = "store"
  BY DEF Bicubic!Direct, Statements
<1>2. QED
  BY <1>1 DEF SoundCode

LEMMA ReturnAfterSyncSound == SoundCode(Bicubic!ReturnAfterSync)
<1> DEFINE code == Bicubic!ReturnAfterSync
<1>1. /\ code \in Seq(Statements) /\ DOMAIN code = 1 .. 4
      /\ code[1] = "load" /\ code[2] = "sync" /\ code[3] = "returnIfOutside" /\ code[4] = "store"
  BY DEF Bicubic!ReturnAfterSync, Statements
<1> HIDE DEF code
<1>2. SoundCode(code)
  BY <1>1 DEF SoundCode
<1>3. QED
  BY <1>2 DEF code

LEMMA SingleWindowSound == SoundCode(Bicubic!SingleWindow)
<1> DEFINE code == Bicubic!SingleWindow
<1>1. /\ code \in Seq(Statements) /\ DOMAIN code = 1 .. 3
      /\ code[1] = "load" /\ code[2] = "sync" /\ code[3] = "store"
  BY DEF Bicubic!SingleWindow, Statements
<1> HIDE DEF code
<1>2. SoundCode(code)
  BY <1>1 DEF SoundCode
<1>3. QED
  BY <1>2 DEF code

LEMMA WriteThenPrefetchSound == SoundCode(Bicubic!WriteThenPrefetch)
<1> DEFINE code == Bicubic!WriteThenPrefetch
<1>1. /\ code \in Seq(Statements) /\ DOMAIN code = 1 .. 4
      /\ code[1] = "load" /\ code[2] = "sync" /\ code[3] = "store" /\ code[4] = "prefetch"
  BY DEF Bicubic!WriteThenPrefetch, Statements
<1> HIDE DEF code
<1>2. SoundCode(code)
  BY <1>1 DEF SoundCode
<1>3. QED
  BY <1>2 DEF code

LEMMA PrefetchThenWriteSound == SoundCode(Bicubic!PrefetchThenWrite)
<1> DEFINE code == Bicubic!PrefetchThenWrite
<1>1. /\ code \in Seq(Statements) /\ DOMAIN code = 1 .. 5
      /\ code[1] = "load" /\ code[2] = "sync" /\ code[3] = "interpolate"
      /\ code[4] = "prefetch" /\ code[5] = "write"
  BY DEF Bicubic!PrefetchThenWrite, Statements
<1> HIDE DEF code
<1>2. SoundCode(code)
  BY <1>1 DEF SoundCode
<1>3. QED
  BY <1>2 DEF code

LEMMA BicubicKernels ==
  ASSUME NEW j, Bicubic!Admissible(j)
  PROVE  /\ SoundCode(j.kernel.code) /\ j.host.code \in Hosts
         /\ j.kernel.per \in {1, 2} /\ j.host.covers = j.kernel.per
         /\ j.kernel.shift = 0 /\ j.kernel.bound = "window" /\ j.kernel.maxScale \in Nat
         /\ j.kernel.maxScale # 0 =>
              \E l \in DOMAIN j.kernel.code : j.kernel.code[l] = "load"
<1> DEFINE Fine(kernel, host, per) ==
             /\ kernel.code \in {Bicubic!Direct, Bicubic!ReturnAfterSync, Bicubic!SingleWindow,
                                 Bicubic!WriteThenPrefetch, Bicubic!PrefetchThenWrite}
             /\ kernel.maxScale # 0 => kernel.code # Bicubic!Direct
             /\ host.code \in Hosts /\ kernel.per = per /\ host.covers = per
             /\ kernel.shift = 0 /\ kernel.bound = "window" /\ kernel.maxScale \in Nat
<1>1. Fine(j.kernel, j.host, 1) \/ Fine(j.kernel, j.host, 2)
  <2>1. \A k, h : <<j.kernel, j.host>> = <<k, h>> => j.kernel = k /\ j.host = h
    OBVIOUS
  <2>2. Bicubic!Direct # Bicubic!ReturnAfterSync /\ Bicubic!Direct # Bicubic!SingleWindow
        /\ Bicubic!Direct # Bicubic!WriteThenPrefetch /\ Bicubic!Direct # Bicubic!PrefetchThenWrite
    BY DEF Bicubic!Direct, Bicubic!ReturnAfterSync, Bicubic!SingleWindow,
           Bicubic!WriteThenPrefetch, Bicubic!PrefetchThenWrite
  <2>3. /\ Fine(Bicubic!naive, Bicubic!naiveHost, 1) /\ Fine(Bicubic!v1, Bicubic!v1Host, 1)
        /\ Fine(Bicubic!v2, Bicubic!v2Host, 1) /\ Fine(Bicubic!v3, Bicubic!v3Host, 1)
    BY <2>2 DEF Bicubic!naive, Bicubic!naiveHost, Bicubic!v1, Bicubic!v1Host, Bicubic!v2,
           Bicubic!v2Host, Bicubic!v3, Bicubic!v3Host, Bicubic!Host, Bicubic!Windowed, Hosts
  <2>4. /\ Fine(Bicubic!v4, Bicubic!v4Host, 2) /\ Fine(Bicubic!v5, Bicubic!v5Host, 2)
        /\ Fine(Bicubic!v6_fixed, Bicubic!v6_fixedHost, 2)
        /\ Fine(Bicubic!v6_warp_reduce, Bicubic!v6_warp_reduceHost, 2)
    BY <2>2 DEF Bicubic!v4, Bicubic!v4Host, Bicubic!v5, Bicubic!v5Host, Bicubic!v6_fixed,
           Bicubic!v6_fixedHost, Bicubic!v6_warp_reduce, Bicubic!v6_warp_reduceHost,
           Bicubic!Host, Bicubic!Windowed, Hosts
  <2>5. /\ Fine(Bicubic!v7, Bicubic!v7Host, 2) /\ Fine(Bicubic!v8, Bicubic!v8Host, 2)
        /\ Fine(Bicubic!optimized, Bicubic!optimizedHost, 2)
        /\ Fine(Bicubic!optimized_atomic, Bicubic!optimized_atomicHost, 2)
    BY <2>2 DEF Bicubic!v7, Bicubic!v7Host, Bicubic!v8, Bicubic!v8Host, Bicubic!optimized,
           Bicubic!optimizedHost, Bicubic!optimized_atomic, Bicubic!optimized_atomicHost,
           Bicubic!Host, Bicubic!Windowed, Hosts
  <2> HIDE DEF Fine
  <2>6. QED
    BY <2>1, <2>3, <2>4, <2>5 DEF Bicubic!Admissible, Bicubic!Versions
<1>2. SoundCode(j.kernel.code)
  BY <1>1, DirectSound, ReturnAfterSyncSound, SingleWindowSound, WriteThenPrefetchSound,
     PrefetchThenWriteSound
<1>3. j.kernel.code # Bicubic!Direct => \E l \in DOMAIN j.kernel.code : j.kernel.code[l] = "load"
  <2>1. /\ Bicubic!ReturnAfterSync[1] = "load" /\ 1 \in DOMAIN Bicubic!ReturnAfterSync
        /\ Bicubic!SingleWindow[1] = "load" /\ 1 \in DOMAIN Bicubic!SingleWindow
        /\ Bicubic!WriteThenPrefetch[1] = "load" /\ 1 \in DOMAIN Bicubic!WriteThenPrefetch
        /\ Bicubic!PrefetchThenWrite[1] = "load" /\ 1 \in DOMAIN Bicubic!PrefetchThenWrite
    BY DEF Bicubic!ReturnAfterSync, Bicubic!SingleWindow, Bicubic!WriteThenPrefetch,
           Bicubic!PrefetchThenWrite
  <2>2. QED
    BY <1>1, <2>1
<1>4. QED
  BY <1>1, <1>2, <1>3
LEMMA BicubicTable == \A f : Bicubic!Table(f) = f
  BY DEF Bicubic!Table

LEMMA BicubicPlan ==
  ASSUME NEW j
  PROVE  LET p == Bicubic!Plan(j) IN
         /\ p.code = j.kernel.code /\ p.host = j.host.code
         /\ p.threads = Bicubic!Threads(j) /\ p.array = Bicubic!Array(j)
         /\ p.pixels = Bicubic!OutPixels(j)
         /\ p.inputs = (0 .. j.inH - 1) \X (0 .. j.inW - 1)
         /\ p.image = [o \in Bicubic!OutPixels(j) |->
              {<<i, Bicubic!TapPixelOf(j, o, i)>> : i \in Bicubic!Taps}]
         /\ \A th \in Bicubic!Threads(j) :
              /\ p.loads[th] = Bicubic!Loads(j, th, 0)
              /\ p.ahead[th] = Bicubic!Loads(j, th, Bicubic!NextWindow(j))
              /\ p.taps[1][th] = Bicubic!Sources(j, th)
<1>1. /\ Bicubic!Plan(j).code = j.kernel.code /\ Bicubic!Plan(j).host = j.host.code
      /\ Bicubic!Plan(j).threads = Bicubic!Threads(j) /\ Bicubic!Plan(j).array = Bicubic!Array(j)
      /\ Bicubic!Plan(j).pixels = Bicubic!OutPixels(j)
      /\ Bicubic!Plan(j).inputs = (0 .. j.inH - 1) \X (0 .. j.inW - 1)
  BY DEF Bicubic!Plan
<1>2. Bicubic!Plan(j).loads = [th \in Bicubic!Threads(j) |-> Bicubic!Loads(j, th, 0)]
  BY BicubicTable DEF Bicubic!Plan
<1>3. Bicubic!Plan(j).ahead =
        [th \in Bicubic!Threads(j) |-> Bicubic!Loads(j, th, Bicubic!NextWindow(j))]
  BY BicubicTable DEF Bicubic!Plan
<1>4. Bicubic!Plan(j).taps[1] = [th \in Bicubic!Threads(j) |-> Bicubic!Sources(j, th)]
  BY BicubicTable DEF Bicubic!Plan
<1>5. Bicubic!Plan(j).image = [o \in Bicubic!OutPixels(j) |->
              {<<i, Bicubic!TapPixelOf(j, o, i)>> : i \in Bicubic!Taps}]
  BY BicubicTable DEF Bicubic!Plan
<1>6. QED
  BY <1>1, <1>2, <1>3, <1>4, <1>5

(* The sizes of a call. *)
LEMMA BicubicSizes ==
  ASSUME NEW j, Bicubic!Admissible(j)
  PROVE  /\ j.TILE \in Nat \ {0} /\ Bicubic!Side(j) \in Nat \ {0}
         /\ j.inW \in Nat \ {0} /\ j.inH \in Nat \ {0}
         /\ j.outW \in Nat \ {0} /\ j.outH \in Nat \ {0}
         /\ j.TILE * j.host.covers = Bicubic!Side(j)
         /\ Bicubic!smem_w(j) \in Int /\ Bicubic!smem_h(j) \in Int
         /\ Bicubic!Array(j) = Bicubic!Window(j)
         /\ Bicubic!Window(j) # {} =>
              \E l \in DOMAIN j.kernel.code : j.kernel.code[l] = "load"
<1>1. /\ j.TILE \in Nat \ {0} /\ j.inW \in Nat \ {0} /\ j.inH \in Nat \ {0}
      /\ j.outW \in Nat \ {0} /\ j.outH \in Nat \ {0}
  BY DEF Bicubic!Admissible
<1>2. Bicubic!Side(j) \in Nat \ {0} /\ j.TILE * j.host.covers = Bicubic!Side(j)
  BY <1>1, BicubicKernels DEF Bicubic!Side
<1>3. Bicubic!SMEM(j) \in Int /\ (j.kernel.maxScale = 0 => Bicubic!SMEM(j) = 0)
  <2>1. Bicubic!Side(j) * j.kernel.maxScale \in Int
    BY <1>2, BicubicKernels
  <2>2. QED
    BY <2>1 DEF Bicubic!SMEM
<1>4. ASSUME NEW in \in Nat \ {0}, NEW out \in Nat \ {0}, NEW side \in Nat \ {0}, NEW cap \in Int
      PROVE  Bicubic!WindowSize(side, cap, in, out) \in Int
             /\ Bicubic!WindowSize(side, cap, in, out) <= cap
  <2>1. side * in + out - 1 \in Int
    OBVIOUS
  <2>2. (side * in + out - 1) \div out \in Int
    BY <2>1
  <2> DEFINE d == (side * in + out - 1) \div out
  <2> HIDE DEF d
  <2>3. d + 4 \in Int
    BY <2>2 DEF d
  <2>4. Bicubic!Least(d + 4, cap) \in Int /\ Bicubic!Least(d + 4, cap) <= cap
    BY <2>3 DEF Bicubic!Least
  <2>5. QED
    BY <2>4 DEF Bicubic!WindowSize, d
<1>5. /\ Bicubic!smem_w(j) \in Int /\ Bicubic!smem_h(j) \in Int
      /\ Bicubic!smem_w(j) <= Bicubic!SMEM(j)
  BY <1>1, <1>2, <1>3, <1>4 DEF Bicubic!smem_w, Bicubic!smem_h
<1>6. j.kernel.maxScale = 0 => Bicubic!Window(j) = {}
  BY <1>3, <1>5 DEF Bicubic!Window
<1>7. QED
  BY <1>1, <1>2, <1>5, <1>6, BicubicKernels DEF Bicubic!Array

(* Every cell of the window is loaded by one thread. *)
LEMMA CellHasThread ==
  ASSUME NEW j, Bicubic!Admissible(j), NEW c \in Bicubic!Window(j)
  PROVE  \E tid \in 0 .. j.TILE * j.TILE - 1 : c \in Bicubic!MyCells(j, tid)
<1>1. c[1] * Bicubic!smem_w(j) + c[2] \in Int /\ j.TILE * j.TILE \in Nat \ {0}
  <2>1. c[1] \in Int /\ c[2] \in Int /\ Bicubic!smem_w(j) \in Int /\ j.TILE \in Nat \ {0}
    BY BicubicSizes DEF Bicubic!Window
  <2>2. QED
    BY <2>1
<1> DEFINE n == j.TILE * j.TILE
           a == c[1] * Bicubic!smem_w(j) + c[2]
<1> HIDE DEF n, a
<1>2. a % n \in 0 .. n - 1
  BY <1>1 DEF n, a
<1>3. QED
  BY <1>2 DEF Bicubic!MyCells, n, a

LEMMA BicubicShares ==
  ASSUME NEW j, Bicubic!Admissible(j), NEW share, NEW ahead,
         \A th \in Bicubic!Threads(j) : share[th] = Bicubic!Loads(j, th, ahead)
  PROVE  SoundShares(Bicubic!Plan(j), share)
<1>1. ASSUME NEW th \in Bicubic!Threads(j)
      PROVE  DOMAIN share[th] = Bicubic!MyCells(j, th[2])
  <2>1. share[th] = [c \in Bicubic!MyCells(j, th[2]) |-> Bicubic!CellPixel(j, th[1], c, ahead)]
    BY BicubicTable DEF Bicubic!Loads
  <2>2. QED
    BY <2>1
<1>2. \A th \in Bicubic!Threads(j) : DOMAIN share[th] \subseteq Bicubic!Array(j)
  BY <1>1, BicubicSizes DEF Bicubic!MyCells
<1>3. ASSUME NEW th \in Bicubic!Threads(j), NEW u \in Bicubic!Threads(j), th # u, th[1] = u[1]
      PROVE  DOMAIN share[th] \cap DOMAIN share[u] = {}
  <2>1. th[2] # u[2]
    BY <1>3 DEF Bicubic!Threads
  <2>2. Bicubic!MyCells(j, th[2]) \cap Bicubic!MyCells(j, u[2]) = {}
    BY <2>1 DEF Bicubic!MyCells
  <2>3. QED
    BY <1>1, <2>2
<1>4. QED
  BY ZenonT(60), <1>2, <1>3, BicubicPlan DEF SoundShares

(* A coordinate lies in a block, at a place that some thread covers. *)
LEMMA AxisPlace ==
  ASSUME NEW T \in Nat \ {0}, NEW per \in Nat \ {0}, NEW out \in Nat \ {0}, NEW o \in 0 .. out - 1
  PROVE  \E b \in 0 .. Bicubic!CeilDiv(out, T * per) - 1, t \in 0 .. T - 1 :
           LET y == b * (T * per) + t * per IN y \in Int /\ o \in y .. y + per - 1
<1> DEFINE S == T * per
           b == o \div S
           r == o % S
           t == r \div per
           c == (out + S - 1) \div S
<1>1. S \in Nat \ {0}
  OBVIOUS
<1>2. b \in Nat /\ r \in 0 .. S - 1 /\ o = b * S + r
  <2> HIDE DEF S
  <2>1. o \in Nat
    OBVIOUS
  <2>2. QED
    BY ONLY <1>1, <2>1, DivMod
<1>3. t \in Nat /\ r \in t * per .. t * per + per - 1
  <2>1. r \in Nat /\ per \in Nat \ {0}
    BY <1>2
  <2> HIDE DEF r
  <2>2. t \in Nat /\ r % per \in 0 .. per - 1 /\ r = t * per + (r % per)
    BY <2>1, DivMod
  <2> HIDE DEF t
  <2>3. QED
    BY <2>1, <2>2
<1>4. t \in 0 .. T - 1
  <2> HIDE DEF t, r
  <2>1. t * per <= T * per - 1
    BY <1>2, <1>3
  <2>2. CASE t >= T
    <3>1. t * per >= T * per
      BY <1>3, <2>2
    <3>2. t * per \in Int /\ T * per \in Int
      BY <1>3
    <3>3. QED
      BY <2>1, <3>1, <3>2
  <2>3. QED
    BY <1>3, <2>2
<1>5. b \in 0 .. c - 1
  <2> HIDE DEF S, b, r
  <2>1. c \in Nat /\ (out + S - 1) % S \in 0 .. S - 1 /\ out + S - 1 = c * S + ((out + S - 1) % S)
    <3>1. out + S - 1 \in Nat
      BY <1>1
    <3> DEFINE a == out + S - 1
    <3> HIDE DEF a
    <3>2. a \div S \in Nat /\ a % S \in 0 .. S - 1 /\ a = (a \div S) * S + (a % S)
      BY <1>1, <3>1, DivMod DEF a
    <3>3. QED
      BY <3>2 DEF a
  <2> HIDE DEF c
  <2>2. c * S >= out /\ b * S <= o
    BY <1>1, <1>2, <2>1
  <2>3. b * S < c * S
    BY <1>1, <1>2, <2>1, <2>2
  <2>4. CASE c <= b
    <3>1. c * S <= b * S
      BY <1>1, <1>2, <2>1, <2>4
    <3>2. QED
      BY <1>1, <1>2, <2>1, <2>3, <3>1
  <2>5. QED
    BY <1>2, <2>1, <2>4
<1>6. b * S + t * per \in Int /\ o \in b * S + t * per .. b * S + t * per + per - 1
  <2>1. b * S \in Int /\ t * per \in Int
    BY <1>1, <1>2, <1>3
  <2> HIDE DEF S, b, r, t
  <2>2. QED
    BY <1>2, <1>3, <2>1
<1>7. QED
  BY <1>4, <1>5, <1>6 DEF Bicubic!CeilDiv

(* Every output is some thread's. *)
LEMMA OutputHasThread ==
  ASSUME NEW j, Bicubic!Admissible(j), NEW o \in Bicubic!OutPixels(j)
  PROVE  \E th \in Bicubic!Threads(j) : o \in Bicubic!Outputs(j, th)
<1> DEFINE T == j.TILE
           per == j.kernel.per
           S == Bicubic!Side(j)
<1>1. /\ T \in Nat \ {0} /\ per \in {1, 2} /\ S = T * per /\ S = j.TILE * j.host.covers
      /\ j.outW \in Nat \ {0} /\ j.outH \in Nat \ {0}
      /\ o = <<o[1], o[2]>> /\ o[1] \in 0 .. j.outH - 1 /\ o[2] \in 0 .. j.outW - 1
  BY BicubicSizes, BicubicKernels DEF Bicubic!OutPixels, Bicubic!Side
<1>2. PICK by \in 0 .. Bicubic!CeilDiv(j.outH, S) - 1, ty \in 0 .. T - 1 :
        by * S + ty * per \in Int /\ o[1] \in by * S + ty * per .. by * S + ty * per + per - 1
  <2> DEFINE out == j.outH
             k == o[1]
  <2>1. /\ T \in Nat \ {0} /\ per \in Nat \ {0} /\ S = T * per
        /\ out \in Nat \ {0} /\ k \in 0 .. out - 1
    BY <1>1
  <2> HIDE DEF T, per, S, out, k
  <2>2. \E by \in 0 .. Bicubic!CeilDiv(out, S) - 1, ty \in 0 .. T - 1 :
          by * S + ty * per \in Int /\ k \in by * S + ty * per .. by * S + ty * per + per - 1
    BY ONLY <2>1, AxisPlace
  <2>3. QED
    BY <2>2 DEF out, k
<1>3. PICK bx \in 0 .. Bicubic!CeilDiv(j.outW, S) - 1, tx \in 0 .. T - 1 :
        bx * S + tx * per \in Int /\ o[2] \in bx * S + tx * per .. bx * S + tx * per + per - 1
  <2> DEFINE out == j.outW
             k == o[2]
  <2>1. /\ T \in Nat \ {0} /\ per \in Nat \ {0} /\ S = T * per
        /\ out \in Nat \ {0} /\ k \in 0 .. out - 1
    BY <1>1
  <2> HIDE DEF T, per, S, out, k
  <2>2. \E bx \in 0 .. Bicubic!CeilDiv(out, S) - 1, tx \in 0 .. T - 1 :
          bx * S + tx * per \in Int /\ k \in bx * S + tx * per .. bx * S + tx * per + per - 1
    BY ONLY <2>1, AxisPlace
  <2>3. QED
    BY <2>2 DEF out, k
<1> DEFINE t == ty * T + tx
           th == <<<<by, bx>>, t>>
<1>4. t \in 0 .. T * T - 1
  <2> HIDE DEF T
  <2>1. ty * T <= (T - 1) * T
    BY <1>1, <1>2
  <2>2. (T - 1) * T = T * T - T /\ ty * T \in Nat /\ T * T \in Nat
    BY <1>1, <1>2
  <2>3. QED
    BY <1>1, <1>3, <2>1, <2>2
<1>5. t \div T = ty /\ t % T = tx
  <2> HIDE DEF T
  <2>1. t \in Nat /\ T * T \in Nat
    BY <1>1, <1>4
  <2>2. t \div T \in Nat /\ t % T \in 0 .. T - 1 /\ t = (t \div T) * T + (t % T)
    <3> HIDE DEF t
    <3>1. QED
      BY <1>1, <2>1, DivMod
  <2>3. QED
    BY <1>1, <1>2, <1>3, <2>2, PairUnique
<1>6. <<by, bx>> \in Bicubic!Blocks(j)
  BY <1>1, <1>2, <1>3 DEF Bicubic!Blocks
<1>7. th \in Bicubic!Threads(j)
  BY <1>4, <1>6 DEF Bicubic!Threads
<1>8. o \in Bicubic!Outputs(j, th)
  <2>1. th[1][1] = by /\ th[1][2] = bx /\ th[2] \div j.TILE = ty /\ th[2] % j.TILE = tx
    BY <1>5
  <2> HIDE DEF th
  <2>2. QED
    BY <1>1, <1>2, <1>3, <2>1 DEF Bicubic!Outputs
<1>9. QED
  BY <1>7, <1>8

(* The window has the pixel of a tap at the tap's place in it. *)
LEMMA PlaceHasPixel ==
  ASSUME NEW j, Bicubic!Admissible(j), NEW b \in Bicubic!Blocks(j),
         NEW o \in Bicubic!OutPixels(j), NEW i \in Bicubic!Taps
  PROVE  Bicubic!CellPixel(j, b, Bicubic!TapCell(j, b, o, i), 0) = Bicubic!TapPixelOf(j, o, i)
<1> DEFINE c == Bicubic!TapCell(j, b, o, i)
           top == b[1] * Bicubic!Side(j)
           left == b[2] * Bicubic!Side(j)
<1>1. /\ j.inW \in Nat \ {0} /\ j.inH \in Nat \ {0} /\ Bicubic!Side(j) \in Nat \ {0}
      /\ j.outW \in Nat \ {0} /\ j.outH \in Nat \ {0}
  BY BicubicSizes
<1>2. /\ o[1] \in Int /\ o[2] \in Int /\ i[1] \in Int /\ i[2] \in Int
      /\ top \in Int /\ left \in Int
  <2>1. b[1] \in Int /\ b[2] \in Int
    BY DEF Bicubic!Blocks
  <2>2. QED
    BY <1>1, <2>1 DEF Bicubic!OutPixels, Bicubic!Taps
<1>3. /\ c[1] = Bicubic!WindowIndex(o[1], top, i[1], j.inH, j.outH) + 0
      /\ c[2] = Bicubic!WindowIndex(o[2], left, i[2], j.inW, j.outW) + 0
  BY BicubicKernels DEF Bicubic!TapCell
<1>4. Bicubic!CellPixel(j, b, c, 0) =
        <<Bicubic!WindowPixel(top, c[1], j.inH, j.outH),
          Bicubic!Clamp(Bicubic!WindowStart(left, j.inW, j.outW) + 0 + c[2], j.inW)>>
  BY DEF Bicubic!CellPixel
<1> HIDE DEF c, top, left
<1>5. Bicubic!WindowPixel(top, c[1], j.inH, j.outH) = Bicubic!TapPixel(o[1], i[1], j.inH, j.outH)
  <2>1. /\ o[1] \in Int /\ top \in Int /\ i[1] \in Int
        /\ j.inH \in Nat \ {0} /\ j.outH \in Nat \ {0}
    BY <1>1, <1>2
  <2> DEFINE w == Bicubic!WindowIndex(o[1], top, i[1], j.inH, j.outH)
  <2>2. w \in Int /\ Bicubic!WindowPixel(top, w, j.inH, j.outH)
                       = Bicubic!TapPixel(o[1], i[1], j.inH, j.outH)
    BY ONLY ZenonT(60), <2>1, SamePixel
  <2>3. QED
    BY <1>3, <2>2
<1>6. Bicubic!WindowPixel(left, c[2], j.inW, j.outW) = Bicubic!TapPixel(o[2], i[2], j.inW, j.outW)
  <2>1. /\ o[2] \in Int /\ left \in Int /\ i[2] \in Int
        /\ j.inW \in Nat \ {0} /\ j.outW \in Nat \ {0}
    BY <1>1, <1>2
  <2> DEFINE w == Bicubic!WindowIndex(o[2], left, i[2], j.inW, j.outW)
  <2>2. w \in Int /\ Bicubic!WindowPixel(left, w, j.inW, j.outW)
                       = Bicubic!TapPixel(o[2], i[2], j.inW, j.outW)
    BY ONLY ZenonT(60), <2>1, SamePixel
  <2>3. QED
    BY <1>3, <2>2
<1>7. Bicubic!WindowStart(left, j.inW, j.outW) + 0 = Bicubic!WindowStart(left, j.inW, j.outW)
  <2>1. Bicubic!Floor(left, j.inW, j.outW) \in Int
    BY <1>1, <1>2, FloorType
  <2>2. Bicubic!WindowStart(left, j.inW, j.outW) \in Int
    BY <2>1 DEF Bicubic!WindowStart
  <2>3. QED
    BY <2>2
<1>8. QED
  BY <1>4, <1>5, <1>6, <1>7 DEF Bicubic!TapPixelOf, Bicubic!WindowPixel, c

(* What a thread finds for an output of its own is the pixel of the tap.   *)
LEMMA BicubicFinds ==
  ASSUME NEW j, Bicubic!Admissible(j), NEW th \in Bicubic!Threads(j),
         NEW o \in Bicubic!OutPixels(j), NEW i \in Bicubic!Taps
  PROVE  Finds(Bicubic!Plan(j), th, Bicubic!SourceOf(j, th[1], o, i), Bicubic!TapPixelOf(j, o, i))
<1> DEFINE c == Bicubic!TapCell(j, th[1], o, i)
           q == Bicubic!TapPixelOf(j, o, i)
<1>1. CASE c \notin Bicubic!Array(j)
  BY <1>1 DEF Bicubic!SourceOf, Finds, FromGlobal
<1>2. CASE c \in Bicubic!Array(j)
  <2>1. /\ c \in Bicubic!Window(j)
        /\ \E l \in DOMAIN j.kernel.code : j.kernel.code[l] = "load"
    BY <1>2, BicubicSizes
  <2>2. PICK tid \in 0 .. j.TILE * j.TILE - 1 : c \in Bicubic!MyCells(j, tid)
    BY <2>1, CellHasThread
  <2> DEFINE u == <<th[1], tid>>
             b == th[1]
             S == Bicubic!Side(j)
  <2>3. u \in Bicubic!Threads(j) /\ u[1] = th[1]
    BY DEF Bicubic!Threads
  <2>4. Bicubic!CellPixel(j, b, c, 0) = q
    <3>1. b \in Bicubic!Blocks(j)
      BY DEF Bicubic!Threads
    <3>2. QED
      BY <3>1, PlaceHasPixel
  <2>5. Bicubic!Plan(j).loads[u] =
          [d \in Bicubic!MyCells(j, tid) |-> Bicubic!CellPixel(j, b, d, 0)]
    <3>1. Bicubic!Plan(j).loads[u] = Bicubic!Loads(j, u, 0)
      BY <2>3, BicubicPlan
    <3>2. QED
      BY <3>1, BicubicTable DEF Bicubic!Loads
  <2>6. Bicubic!SourceOf(j, th[1], o, i) = FromWindow(c)
    BY <1>2 DEF Bicubic!SourceOf, FromWindow
  <2> HIDE DEF c, q, u
  <2>7. c \in DOMAIN Bicubic!Plan(j).loads[u] /\ Bicubic!Plan(j).loads[u][c] = q
    BY <2>2, <2>4, <2>5
  <2>8. Bicubic!Plan(j).threads = Bicubic!Threads(j) /\ Bicubic!Plan(j).code = j.kernel.code
    BY BicubicPlan
  <2>9. QED
    BY <2>1, <2>3, <2>6, <2>7, <2>8 DEF Finds, q
<1>3. QED
  BY <1>1, <1>2
LEMMA BicubicOutput ==
  ASSUME NEW j, Bicubic!Admissible(j), NEW th \in Bicubic!Threads(j),
         NEW o \in Bicubic!Outputs(j, th)
  PROVE  SoundOutput(Bicubic!Plan(j), th, o)
<1> DEFINE p == Bicubic!Plan(j)
           pixel == [i \in Bicubic!Taps |-> Bicubic!TapPixelOf(j, o, i)]
<1>1. o \in Bicubic!OutPixels(j)
  BY DEF Bicubic!Outputs
<1>2. p.taps[1][th][o] = [i \in Bicubic!Taps |-> Bicubic!SourceOf(j, th[1], o, i)]
  <2>1. p.taps[1][th] = Bicubic!Sources(j, th)
    BY BicubicPlan
  <2>2. QED
    BY <2>1, BicubicTable DEF Bicubic!Sources
<1>3. p.image[o] = {<<i, Bicubic!TapPixelOf(j, o, i)>> : i \in Bicubic!Taps}
  <2>1. p.image = [x \in Bicubic!OutPixels(j) |->
                     {<<i, Bicubic!TapPixelOf(j, x, i)>> : i \in Bicubic!Taps}]
    BY BicubicPlan
  <2> HIDE DEF p
  <2>2. QED
    BY <1>1, <2>1
<1> HIDE DEF p
<1>4. DOMAIN p.taps[1][th][o] = Bicubic!Taps
  BY <1>2
<1>5. p.image[o] = {<<i, pixel[i]>> : i \in Bicubic!Taps}
  BY <1>3
<1>6. \A i \in Bicubic!Taps : Finds(p, th, p.taps[1][th][o][i], pixel[i])
  <2> TAKE i \in Bicubic!Taps
  <2>1. p.taps[1][th][o][i] = Bicubic!SourceOf(j, th[1], o, i)
        /\ pixel[i] = Bicubic!TapPixelOf(j, o, i)
    BY <1>2
  <2>2. Finds(p, th, Bicubic!SourceOf(j, th[1], o, i), Bicubic!TapPixelOf(j, o, i))
    BY <1>1, BicubicFinds DEF p
  <2>3. QED
    BY <2>1, <2>2
<1> HIDE DEF pixel
<1>7. SoundOutput(p, th, o)
  BY <1>4, <1>5, <1>6 DEF SoundOutput
<1>8. QED
  BY <1>7 DEF p

(* For images, blocks and windows of every size, enlarged or reduced: the  *)
(* threads of a block load different cells of the shared array, every      *)
(* output in the image is some thread's, and each of its 16 taps is found  *)
(* where the kernel looks for it, in the window or in global memory.       *)
THEOREM BicubicPlansSound ==
  ASSUME NEW j, Bicubic!Admissible(j)
  PROVE  SoundPlan(Bicubic!Plan(j))
<1> DEFINE p == Bicubic!Plan(j)
<1>1. /\ p.code = j.kernel.code /\ p.host = j.host.code
      /\ p.threads = Bicubic!Threads(j) /\ p.pixels = Bicubic!OutPixels(j)
      /\ p.image = [o \in Bicubic!OutPixels(j) |->
           {<<i, Bicubic!TapPixelOf(j, o, i)>> : i \in Bicubic!Taps}]
      /\ \A th \in Bicubic!Threads(j) :
           /\ p.loads[th] = Bicubic!Loads(j, th, 0)
           /\ p.ahead[th] = Bicubic!Loads(j, th, Bicubic!NextWindow(j))
           /\ p.taps[1][th] = Bicubic!Sources(j, th)
  BY BicubicPlan
<1>2. SoundCode(p.code) /\ p.host \in Hosts
  BY <1>1, BicubicKernels
<1>3. SoundShares(p, p.loads)
  BY <1>1, BicubicShares
<1>4. SoundShares(p, p.ahead)
  BY <1>1, BicubicShares
<1>5. \A th \in Bicubic!Threads(j) : \A o \in Bicubic!Outputs(j, th) : SoundOutput(p, th, o)
  BY BicubicOutput
<1> HIDE DEF p
<1>6. ASSUME NEW th \in Bicubic!Threads(j)
      PROVE  DOMAIN p.taps[1][th] = Bicubic!Outputs(j, th)
  <2>1. p.taps[1][th] = [o \in Bicubic!Outputs(j, th) |->
          Bicubic!Table([i \in Bicubic!Taps |-> Bicubic!SourceOf(j, th[1], o, i)])]
    BY <1>1, BicubicTable DEF Bicubic!Sources
  <2>2. QED
    BY <2>1
<1>7. DOMAIN p.image = Bicubic!OutPixels(j) /\ p.image = [o \in DOMAIN p.image |-> p.image[o]]
  BY <1>1
<1>8. \A o \in DOMAIN p.image : p.image[o] # Unwritten
  <2> TAKE o \in DOMAIN p.image
  <2>1. p.image[o] = {<<i, Bicubic!TapPixelOf(j, o, i)>> : i \in Bicubic!Taps}
    BY <1>1, <1>7
  <2>2. <<0, 0>> \in Bicubic!Taps
    BY DEF Bicubic!Taps
  <2>3. <<<<0, 0>>, Bicubic!TapPixelOf(j, o, <<0, 0>>)>> \in p.image[o]
    BY <2>1, <2>2
  <2>4. <<0, 0>> # Garbage
    BY DEF Garbage
  <2>5. QED
    BY <2>3, <2>4 DEF Unwritten
<1>9. \A o \in DOMAIN p.image : \E th \in p.threads : o \in DOMAIN p.taps[1][th]
  BY <1>1, <1>6, <1>7, OutputHasThread
<1>10. \A th \in p.threads : \A o \in DOMAIN p.taps[1][th] \cap DOMAIN p.image :
         SoundOutput(p, th, o)
  BY <1>1, <1>5, <1>6
<1>11. SoundPlan(p)
  BY <1>2, <1>3, <1>4, <1>7, <1>8, <1>9, <1>10 DEF SoundPlan
<1>12. QED
  BY <1>11 DEF p

(* Windows and taps are clamped to the image, so that nothing outside it   *)
(* is read; outputs are tested, so that nothing outside it is stored.      *)
LEMMA BicubicInside ==
  ASSUME NEW j, Bicubic!Admissible(j)
  PROVE  InsidePlan(Bicubic!Plan(j))
<1> DEFINE p == Bicubic!Plan(j)
<1>1. /\ p.threads = Bicubic!Threads(j) /\ p.array = Bicubic!Array(j)
      /\ p.pixels = Bicubic!OutPixels(j) /\ p.inputs = (0 .. j.inH - 1) \X (0 .. j.inW - 1)
      /\ \A th \in Bicubic!Threads(j) :
           /\ p.loads[th] = Bicubic!Loads(j, th, 0)
           /\ p.ahead[th] = Bicubic!Loads(j, th, Bicubic!NextWindow(j))
           /\ p.taps[1][th] = Bicubic!Sources(j, th)
  BY BicubicPlan
<1>2. /\ j.inW \in Nat \ {0} /\ j.inH \in Nat \ {0} /\ Bicubic!Side(j) \in Nat \ {0}
      /\ j.outW \in Nat \ {0} /\ j.outH \in Nat \ {0}
      /\ Bicubic!smem_w(j) \in Int /\ Bicubic!smem_h(j) \in Int
  BY BicubicSizes
<1> HIDE DEF p
<1>3. ASSUME NEW th \in Bicubic!Threads(j), NEW ahead \in Int
      PROVE  \A c \in DOMAIN Bicubic!Loads(j, th, ahead) : Bicubic!Loads(j, th, ahead)[c] \in p.inputs
  <2>1. Bicubic!Loads(j, th, ahead) =
          [c \in Bicubic!MyCells(j, th[2]) |-> Bicubic!CellPixel(j, th[1], c, ahead)]
    BY BicubicTable DEF Bicubic!Loads
  <2>2. SUFFICES ASSUME NEW c \in Bicubic!MyCells(j, th[2])
                 PROVE  Bicubic!CellPixel(j, th[1], c, ahead) \in p.inputs
    BY <2>1
  <2> DEFINE top == th[1][1] * Bicubic!Side(j)
             left == th[1][2] * Bicubic!Side(j)
  <2>3. top \in Int /\ left \in Int /\ c[1] \in Int /\ c[2] \in Int
    <3>1. th[1] \in Bicubic!Blocks(j)
      BY DEF Bicubic!Threads
    <3>2. th[1][1] \in Int /\ th[1][2] \in Int
      BY <3>1 DEF Bicubic!Blocks
    <3>3. c[1] \in Int /\ c[2] \in Int
      BY <1>2 DEF Bicubic!MyCells, Bicubic!Window
    <3>4. QED
      BY <1>2, <3>2, <3>3
  <2> HIDE DEF top, left
  <2>4. Bicubic!WindowPixel(top, c[1], j.inH, j.outH) \in 0 .. j.inH - 1
    BY <1>2, <2>3, InputPixels
  <2> DEFINE a == Bicubic!WindowStart(left, j.inW, j.outW)
             x == a + ahead + c[2]
  <2>5. a \in Int
    BY <1>2, <2>3, InputPixels
  <2>6. Bicubic!Clamp(x, j.inW) \in 0 .. j.inW - 1
    <3> HIDE DEF a
    <3>1. x \in Int
      BY <2>3, <2>5
    <3> DEFINE in == j.inW
    <3>2. in \in Nat \ {0}
      BY <1>2
    <3> HIDE DEF x, in
    <3>3. Bicubic!Clamp(x, in) \in 0 .. in - 1
      BY <3>1, <3>2, ClampType
    <3>4. QED
      BY <3>3 DEF in
  <2>7. QED
    BY <1>1, <2>4, <2>6 DEF Bicubic!CellPixel, top, left
<1>4. Bicubic!NextWindow(j) \in Int
  <2> DEFINE a == Bicubic!Side(j) * j.inW + j.outW - 1
  <2>1. a \in Int
    BY <1>2
  <2> HIDE DEF a
  <2>2. a \div j.outW \in Int
    BY <1>2, <2>1
  <2>3. QED
    BY <2>2 DEF Bicubic!NextWindow, Bicubic!CeilDiv, a
<1>5. LoadsInside(p, p.loads) /\ LoadsInside(p, p.ahead)
  BY <1>1, <1>3, <1>4 DEF LoadsInside
<1>6. ASSUME NEW th \in Bicubic!Threads(j), NEW o \in DOMAIN p.taps[1][th]
      PROVE  /\ o \in p.pixels
             /\ \A i \in DOMAIN p.taps[1][th][o] : SourceInside(p, p.taps[1][th][o][i])
  <2>1. p.taps[1][th] = [x \in Bicubic!Outputs(j, th) |->
          [i \in Bicubic!Taps |-> Bicubic!SourceOf(j, th[1], x, i)]]
    BY <1>1, BicubicTable DEF Bicubic!Sources
  <2>2. o \in Bicubic!OutPixels(j)
    BY <1>6, <2>1 DEF Bicubic!Outputs
  <2>3. DOMAIN p.taps[1][th][o] = Bicubic!Taps
        /\ \A i \in Bicubic!Taps : p.taps[1][th][o][i] = Bicubic!SourceOf(j, th[1], o, i)
    BY <1>6, <2>1
  <2>4. ASSUME NEW i \in Bicubic!Taps
        PROVE  Bicubic!TapPixelOf(j, o, i) \in p.inputs
    <3>1. i[1] \in Int /\ i[2] \in Int /\ o[1] \in Int /\ o[2] \in Int
      BY <2>2 DEF Bicubic!Taps, Bicubic!OutPixels
    <3>2. /\ Bicubic!TapPixel(o[1], i[1], j.inH, j.outH) \in 0 .. j.inH - 1
          /\ Bicubic!TapPixel(o[2], i[2], j.inW, j.outW) \in 0 .. j.inW - 1
      BY <1>2, <3>1, InputPixels
    <3>3. QED
      BY <1>1, <3>2 DEF Bicubic!TapPixelOf
  <2>5. ASSUME NEW i \in Bicubic!Taps
        PROVE  SourceInside(p, Bicubic!SourceOf(j, th[1], o, i))
    <3> DEFINE c == Bicubic!TapCell(j, th[1], o, i)
    <3>1. CASE c \in Bicubic!Array(j)
      BY <1>1, <3>1 DEF Bicubic!SourceOf, SourceInside, FromWindow
    <3>2. CASE c \notin Bicubic!Array(j)
      BY <2>4, <3>2 DEF Bicubic!SourceOf, SourceInside, FromGlobal
    <3>3. QED
      BY <3>1, <3>2
  <2>6. QED
    BY <1>1, <2>2, <2>3, <2>5
<1>7. InsidePlan(p)
  BY <1>1, <1>5, <1>6 DEF InsidePlan
<1>8. QED
  BY <1>7 DEF p
-----------------------------------------------------------------------------
(* The convolutions. *)

Conv == INSTANCE Convolution

LEMMA ConvTable == \A f : Conv!Table(f) = f
  BY DEF Conv!Table

LEMMA StoreSound == SoundCode(<<"store">>)
<1>1. <<"store">> \in Seq(Statements)
  BY DEF Statements
<1>2. QED
  BY <1>1 DEF SoundCode

LEMMA LoadAndStoreSound == SoundCode(<<"load", "sync", "store">>)
<1> DEFINE code == <<"load", "sync", "store">>
<1>1. /\ code \in Seq(Statements) /\ DOMAIN code = 1 .. 3
      /\ code[1] = "load" /\ code[2] = "sync" /\ code[3] = "store"
  BY DEF Statements
<1> HIDE DEF code
<1>2. SoundCode(code)
  BY <1>1 DEF SoundCode
<1>3. QED
  BY <1>2 DEF code

LEMMA StoreAfterPrefetchSound == SoundCode(<<"load", "sync", "prefetch", "store", "sync">>)
<1> DEFINE code == <<"load", "sync", "prefetch", "store", "sync">>
<1>1. /\ code \in Seq(Statements) /\ DOMAIN code = 1 .. 5
      /\ code[1] = "load" /\ code[2] = "sync" /\ code[3] = "prefetch"
      /\ code[4] = "store" /\ code[5] = "sync"
  BY DEF Statements
<1> HIDE DEF code
<1>2. SoundCode(code)
  BY <1>1 DEF SoundCode
<1>3. QED
  BY <1>2 DEF code

LEMMA ConvKernels ==
  ASSUME NEW j, Conv!Admissible(j)
  PROVE  /\ SoundCode(j.kernel.code) /\ j.host \in Hosts
         /\ j.kernel.halo \in {"cooperative", "ownRow"} /\ j.kernel.spare = 0
         /\ IF j.kernel.guarded THEN j.kernel.pad \in {0, 1} ELSE j.kernel.pad = 1
         /\ \/ (1 \in DOMAIN j.kernel.code /\ j.kernel.code[1] = "load")
            \/ (j.kernel.code[1] # "load" /\ j.WPT = 1)
<1> DEFINE Fine(kernel, host) ==
             /\ \/ kernel.code = <<"load", "sync", "store">>
                \/ kernel.code = <<"load", "sync", "prefetch", "store", "sync">>
             /\ host \in Hosts
             /\ kernel.halo \in {"cooperative", "ownRow"} /\ kernel.spare = 0
             /\ IF kernel.guarded THEN kernel.pad \in {0, 1} ELSE kernel.pad = 1
<1>1. (j.kernel = Conv!naive /\ j.host = Conv!naiveHost) \/ Fine(j.kernel, j.host)
  <2>1. \A k, h : <<j.kernel, j.host>> = <<k, h>> => j.kernel = k /\ j.host = h
    OBVIOUS
  <2>2. /\ Fine(Conv!kernel1, Conv!kernel1Host) /\ Fine(Conv!kernel2, Conv!kernel2Host)
        /\ Fine(Conv!kernel3, Conv!kernel3Host) /\ Fine(Conv!kernel4, Conv!kernel4Host)
    BY DEF Conv!kernel1, Conv!kernel1Host, Conv!kernel2, Conv!kernel2Host, Conv!kernel3,
           Conv!kernel3Host, Conv!kernel4, Conv!kernel4Host, Conv!Tiled, Conv!LoadAndStore,
           Conv!RADIUS, Hosts
  <2> HIDE DEF Fine
  <2>3. QED
    BY <2>1, <2>2 DEF Conv!Admissible, Conv!Versions
<1>2. CASE Fine(j.kernel, j.host)
  <2>1. SoundCode(j.kernel.code)
    BY <1>2, LoadAndStoreSound, StoreAfterPrefetchSound
  <2>2. 1 \in DOMAIN j.kernel.code /\ j.kernel.code[1] = "load"
    BY <1>2
  <2>3. QED
    BY <1>2, <2>1, <2>2
<1>3. CASE j.kernel = Conv!naive /\ j.host = Conv!naiveHost
  <2>1. /\ j.kernel.code = <<"store">> /\ j.kernel.halo = "cooperative" /\ j.kernel.spare = 0
        /\ j.kernel.guarded /\ j.kernel.pad = 0 /\ j.host \in Hosts
    BY <1>3 DEF Conv!naive, Conv!naiveHost, Conv!Tiled, Hosts
  <2>2. j.kernel.code[1] # "load" /\ j.WPT = 1
    BY <1>3, <2>1 DEF Conv!Admissible
  <2>3. QED
    BY <2>1, <2>2, StoreSound
<1>4. QED
  BY <1>1, <1>2, <1>3

LEMMA ConvSizes ==
  ASSUME NEW j, Conv!Admissible(j)
  PROVE  /\ j.TILE \in Nat \ {0} /\ j.WPT \in Nat \ {0} /\ j.rows \in Nat \ {0}
         /\ j.cols \in Nat \ {0} /\ j.kernel.pad \in Nat
         /\ Conv!blockDimX(j) \in Nat \ {0} /\ j.TILE = Conv!blockDimX(j) * j.WPT
         /\ Conv!width(j) = j.cols + 2 * j.kernel.pad /\ Conv!width(j) \in Nat \ {0}
         /\ Conv!height(j) = j.rows + 2 * j.kernel.pad /\ Conv!height(j) \in Nat \ {0}
         /\ Conv!Side(j) = j.TILE + 2 /\ Conv!RowLength(j) = Conv!Side(j)
<1>1. /\ j.TILE \in Nat \ {0} /\ j.WPT \in Nat \ {0} /\ j.rows \in Nat \ {0}
      /\ j.cols \in Nat \ {0} /\ j.TILE % j.WPT = 0
  BY DEF Conv!Admissible
<1>2. j.kernel.pad \in {0, 1} /\ j.kernel.spare = 0
  BY ConvKernels
<1>3. /\ Conv!Side(j) = j.TILE + 2 /\ Conv!RowLength(j) = Conv!Side(j)
  BY <1>1, <1>2 DEF Conv!Side, Conv!RowLength, Conv!RADIUS
<1>4. Conv!blockDimX(j) \in Nat \ {0} /\ j.TILE = Conv!blockDimX(j) * j.WPT
  <2> DEFINE T == j.TILE
             k == j.WPT
  <2>1. T \in Nat \ {0} /\ k \in Nat \ {0} /\ T % k = 0
    BY <1>1
  <2> HIDE DEF T, k
  <2>2. T \div k \in Nat /\ T = (T \div k) * k + (T % k)
    BY <2>1, DivMod
  <2> DEFINE d == T \div k
  <2>3. d \in Nat /\ T = d * k
    BY <2>1, <2>2
  <2> HIDE DEF d
  <2>4. d # 0
    BY <2>1, <2>3
  <2>5. QED
    BY <2>3, <2>4 DEF Conv!blockDimX, d, T, k
<1>5. /\ Conv!width(j) = j.cols + 2 * j.kernel.pad /\ Conv!width(j) \in Nat \ {0}
      /\ Conv!height(j) = j.rows + 2 * j.kernel.pad /\ Conv!height(j) \in Nat \ {0}
  BY <1>1, <1>2 DEF Conv!width, Conv!height
<1>6. QED
  BY <1>1, <1>2, <1>3, <1>4, <1>5

LEMMA ConvPlan ==
  ASSUME NEW j, Conv!Admissible(j)
  PROVE  LET p == Conv!Plan(j) IN
         /\ p.code = j.kernel.code /\ p.host = j.host
         /\ p.threads = Conv!Threads(j) /\ p.array = Conv!Array(j)
         /\ p.pixels = Conv!Places(j) /\ p.confined = j.kernel.guarded
         /\ p.inputs = ((0 .. j.rows - 1) \X (0 .. j.cols - 1)) \cup {Conv!Zero}
         /\ p.image =
              [q \in {q \in Conv!Places(j) :
                 Conv!GrayPixel(j, <<q[1] - j.kernel.pad, q[2] - j.kernel.pad>>) # Conv!Zero} |->
                 {<<i, Conv!GrayPixel(j, <<q[1] - j.kernel.pad + i[1] - 1,
                                           q[2] - j.kernel.pad + i[2] - 1>>)>> : i \in Conv!Taps}]
         /\ \A th \in Conv!Threads(j) :
              /\ p.loads[th] = Conv!LoadsFrom(j, th, Conv!FirstRow(j, th))
              /\ p.ahead[th] = Conv!LoadsFrom(j, th, Conv!FirstRow(j, th) + j.TILE)
              /\ p.taps[1][th] = Conv!Computed(j, th, Conv!FirstRow(j, th))
<1>1. /\ Conv!Plan(j).code = j.kernel.code /\ Conv!Plan(j).host = j.host
      /\ Conv!Plan(j).threads = Conv!Threads(j) /\ Conv!Plan(j).array = Conv!Array(j)
      /\ Conv!Plan(j).pixels = Conv!Places(j) /\ Conv!Plan(j).confined = j.kernel.guarded
      /\ Conv!Plan(j).inputs = ((0 .. j.rows - 1) \X (0 .. j.cols - 1)) \cup {Conv!Zero}
  BY DEF Conv!Plan
<1>2. Conv!Plan(j).loads = [th \in Conv!Threads(j) |-> Conv!LoadsFrom(j, th, Conv!FirstRow(j, th))]
  BY ConvTable DEF Conv!Plan
<1>3. Conv!Plan(j).ahead =
        [th \in Conv!Threads(j) |-> Conv!LoadsFrom(j, th, Conv!FirstRow(j, th) + j.TILE)]
  BY ConvTable, ConvKernels DEF Conv!Plan
<1>4. Conv!Plan(j).taps[1] = [th \in Conv!Threads(j) |-> Conv!Computed(j, th, Conv!FirstRow(j, th))]
  BY ConvTable DEF Conv!Plan
<1>5. Conv!Plan(j).image =
        [q \in {q \in Conv!Places(j) :
           Conv!GrayPixel(j, <<q[1] - j.kernel.pad, q[2] - j.kernel.pad>>) # Conv!Zero} |->
           {<<i, Conv!GrayPixel(j, <<q[1] - j.kernel.pad + i[1] - 1,
                                     q[2] - j.kernel.pad + i[2] - 1>>)>> : i \in Conv!Taps}]
  BY ConvTable DEF Conv!Plan, Conv!RADIUS
<1>6. QED
  BY <1>1, <1>2, <1>3, <1>4, <1>5
(* The tile: every row and every column of it is loaded by one thread. *)
LEMMA RowsOfTile ==
  ASSUME NEW j, Conv!Admissible(j)
  PROVE  /\ \A ty \in 0 .. j.TILE - 1 : Conv!MyRows(j, ty) \subseteq 0 .. Conv!Side(j) - 1
         /\ \A ty, uy \in 0 .. j.TILE - 1 :
              ty # uy => Conv!MyRows(j, ty) \cap Conv!MyRows(j, uy) = {}
         /\ \A i \in 0 .. Conv!Side(j) - 1 : \E ty \in 0 .. j.TILE - 1 : i \in Conv!MyRows(j, ty)
<1> DEFINE T == j.TILE
<1>1. T \in Nat \ {0} /\ Conv!Side(j) = T + 2
  BY ConvSizes
<1>2. CASE j.kernel.halo = "ownRow"
  <2>1. \A ty \in 0 .. T - 1 :
          Conv!MyRows(j, ty) = {ty + 1} \cup (IF ty < 1 THEN {ty, ty + T + 1} ELSE {})
    BY <1>2 DEF Conv!MyRows, Conv!RADIUS
  <2> HIDE DEF T
  <2>2. \A ty \in 0 .. T - 1 : Conv!MyRows(j, ty) \subseteq 0 .. T + 1
    BY <1>1, <2>1
  <2>3. \A ty, uy \in 0 .. T - 1 : ty # uy => Conv!MyRows(j, ty) \cap Conv!MyRows(j, uy) = {}
    BY <1>1, <2>1
  <2>4. ASSUME NEW i \in 0 .. T + 1
        PROVE  \E ty \in 0 .. T - 1 : i \in Conv!MyRows(j, ty)
    <3>1. CASE i = 0 \/ i = T + 1
      BY <1>1, <2>1, <3>1
    <3>2. CASE i \in 1 .. T
      <4>1. i - 1 \in 0 .. T - 1 /\ i = (i - 1) + 1
        BY <1>1, <3>2
      <4>2. i \in Conv!MyRows(j, i - 1)
        BY <2>1, <4>1
      <4>3. QED
        BY <4>1, <4>2
    <3>3. QED
      BY <1>1, <3>1, <3>2
  <2>5. QED
    BY <1>1, <2>2, <2>3, <2>4 DEF T
<1>3. CASE j.kernel.halo # "ownRow"
  <2>1. \A ty : Conv!MyRows(j, ty) = {i \in 0 .. Conv!Side(j) - 1 : i % T = ty}
    BY <1>3 DEF Conv!MyRows
  <2> HIDE DEF T
  <2>2. \A i \in Int : i % T \in 0 .. T - 1
    BY <1>1
  <2>3. QED
    BY <2>1, <2>2 DEF T
<1>4. QED
  BY <1>2, <1>3

LEMMA ColumnsOfTile ==
  ASSUME NEW j, Conv!Admissible(j)
  PROVE  /\ \A tx : Conv!MyColumns(j, tx) \subseteq 0 .. Conv!Side(j) - 1
         /\ \A tx, ux : tx # ux => Conv!MyColumns(j, tx) \cap Conv!MyColumns(j, ux) = {}
         /\ \A k \in 0 .. Conv!Side(j) - 1 :
              \E tx \in 0 .. Conv!blockDimX(j) - 1 : k \in Conv!MyColumns(j, tx)
<1> DEFINE X == Conv!blockDimX(j)
<1>1. \A tx : Conv!MyColumns(j, tx) = {k \in 0 .. Conv!Side(j) - 1 : k % X = tx}
  BY ConvKernels DEF Conv!MyColumns
<1>2. X \in Nat \ {0}
  BY ConvSizes
<1> HIDE DEF X
<1>3. \A k \in Int : k % X \in 0 .. X - 1
  BY <1>2
<1>4. QED
  BY <1>1, <1>3 DEF X

(* Different cells have different indices. *)
LEMMA CellIndex ==
  ASSUME NEW j, Conv!Admissible(j), NEW i \in 0 .. Conv!Side(j) - 1, NEW k \in 0 .. Conv!Side(j) - 1
  PROVE  /\ Conv!Cell(j, i, k) \in Conv!Array(j)
         /\ \A r, l \in 0 .. Conv!Side(j) - 1 :
              Conv!Cell(j, i, k) = Conv!Cell(j, r, l) => i = r /\ k = l
<1> DEFINE S == Conv!Side(j)
<1>1. S \in Nat \ {0} /\ Conv!RowLength(j) = S
  BY ConvSizes
<1>2. \A r, l : Conv!Cell(j, r, l) = r * S + l
  BY <1>1 DEF Conv!Cell
<1>3. Conv!Array(j) = 0 .. S * S - 1
  BY <1>1 DEF Conv!Array
<1> HIDE DEF S
<1>4. i \in 0 .. S - 1 /\ k \in 0 .. S - 1
  BY DEF S
<1>5. i * S + k \in 0 .. S * S - 1
  <2>1. i * S <= (S - 1) * S
    BY <1>1, <1>4
  <2>2. (S - 1) * S = S * S - S /\ i * S \in Nat /\ S * S \in Nat
    BY <1>1, <1>4
  <2>3. QED
    BY <1>1, <1>4, <2>1, <2>2
<1>6. ASSUME NEW r \in 0 .. S - 1, NEW l \in 0 .. S - 1, i * S + k = r * S + l
      PROVE  i = r /\ k = l
  <2>1. S \in Nat \ {0} /\ i \in Nat /\ r \in Nat
    BY <1>1, <1>4
  <2>2. QED
    BY ONLY <1>4, <1>6, <2>1, PairUnique
<1>7. QED
  BY <1>2, <1>3, <1>5, <1>6 DEF S

(* What a thread loads into the cells of its rows and columns. *)
LEMMA LoadedCell ==
  ASSUME NEW j, Conv!Admissible(j), NEW th \in Conv!Threads(j), NEW top,
         NEW i \in Conv!MyRows(j, th[2][1]), NEW k \in Conv!MyColumns(j, th[2][2])
  PROVE  /\ Conv!Cell(j, i, k) \in DOMAIN Conv!LoadsFrom(j, th, top)
         /\ Conv!LoadsFrom(j, th, top)[Conv!Cell(j, i, k)] =
              Conv!Read(j, top + i - 1, th[1][2] * j.TILE + k - 1)
<1> DEFINE mine == Conv!MyRows(j, th[2][1]) \X Conv!MyColumns(j, th[2][2])
           c == Conv!Cell(j, i, k)
           q == CHOOSE r \in mine : Conv!Cell(j, r[1], r[2]) = c
<1>1. th[2][1] \in 0 .. j.TILE - 1
  BY DEF Conv!Threads
<1>2. \A r \in mine : r[1] \in 0 .. Conv!Side(j) - 1 /\ r[2] \in 0 .. Conv!Side(j) - 1
  BY <1>1, RowsOfTile, ColumnsOfTile
<1>3. <<i, k>> \in mine /\ Conv!Cell(j, <<i, k>>[1], <<i, k>>[2]) = c
  OBVIOUS
<1>4. i \in 0 .. Conv!Side(j) - 1 /\ k \in 0 .. Conv!Side(j) - 1
  BY <1>1, RowsOfTile, ColumnsOfTile
<1>5. c \in {Conv!Cell(j, r[1], r[2]) : r \in mine}
  BY <1>3
<1>6. q \in mine /\ Conv!Cell(j, q[1], q[2]) = c
  BY <1>3
<1> HIDE DEF q
<1>7. q[1] = i /\ q[2] = k
  <2>1. q[1] \in 0 .. Conv!Side(j) - 1 /\ q[2] \in 0 .. Conv!Side(j) - 1
    BY <1>2, <1>6
  <2>2. Conv!Cell(j, i, k) = Conv!Cell(j, q[1], q[2])
    BY <1>6
  <2>3. QED
    BY <1>4, <2>1, <2>2, CellIndex
<1>8. Conv!LoadsFrom(j, th, top) =
        [d \in {Conv!Cell(j, r[1], r[2]) : r \in mine} |->
          LET e == CHOOSE r \in mine : Conv!Cell(j, r[1], r[2]) = d
          IN  Conv!Read(j, top + e[1] - 1, th[1][2] * j.TILE + e[2] - 1)]
  BY DEF Conv!LoadsFrom, Conv!RADIUS
<1> HIDE DEF mine, c
<1>9. Conv!LoadsFrom(j, th, top)[c] = Conv!Read(j, top + q[1] - 1, th[1][2] * j.TILE + q[2] - 1)
  BY <1>5, <1>8 DEF q
<1>10. QED
  BY <1>5, <1>7, <1>8, <1>9 DEF c

LEMMA ConvShares ==
  ASSUME NEW j, Conv!Admissible(j), NEW share,
         \A th \in Conv!Threads(j) : \E top : share[th] = Conv!LoadsFrom(j, th, top)
  PROVE  SoundShares(Conv!Plan(j), share)
<1> DEFINE mine(th) == Conv!MyRows(j, th[2][1]) \X Conv!MyColumns(j, th[2][2])
<1>1. ASSUME NEW th \in Conv!Threads(j)
      PROVE  DOMAIN share[th] = {Conv!Cell(j, q[1], q[2]) : q \in mine(th)}
  BY DEF Conv!LoadsFrom
<1>2. ASSUME NEW th \in Conv!Threads(j)
      PROVE  DOMAIN share[th] \subseteq Conv!Array(j)
  <2>1. th[2][1] \in 0 .. j.TILE - 1
    BY DEF Conv!Threads
  <2>2. \A q \in mine(th) : q[1] \in 0 .. Conv!Side(j) - 1 /\ q[2] \in 0 .. Conv!Side(j) - 1
    BY <2>1, RowsOfTile, ColumnsOfTile
  <2>3. \A q \in mine(th) : Conv!Cell(j, q[1], q[2]) \in Conv!Array(j)
    BY <2>2, CellIndex
  <2>4. QED
    BY <1>1, <2>3
<1>3. ASSUME NEW th \in Conv!Threads(j), NEW u \in Conv!Threads(j), th # u, th[1] = u[1],
             NEW c \in DOMAIN share[th] \cap DOMAIN share[u]
      PROVE  FALSE
  <2>1. PICK q \in mine(th) : c = Conv!Cell(j, q[1], q[2])
    BY <1>1
  <2>2. PICK r \in mine(u) : c = Conv!Cell(j, r[1], r[2])
    BY <1>1
  <2>3. th[2][1] \in 0 .. j.TILE - 1 /\ u[2][1] \in 0 .. j.TILE - 1
    BY DEF Conv!Threads
  <2>4. /\ q[1] \in 0 .. Conv!Side(j) - 1 /\ q[2] \in 0 .. Conv!Side(j) - 1
        /\ r[1] \in 0 .. Conv!Side(j) - 1 /\ r[2] \in 0 .. Conv!Side(j) - 1
    BY <2>3, RowsOfTile, ColumnsOfTile
  <2>5. q[1] = r[1] /\ q[2] = r[2]
    <3>1. Conv!Cell(j, q[1], q[2]) = Conv!Cell(j, r[1], r[2])
      BY <2>1, <2>2
    <3> HIDE DEF mine
    <3>2. QED
      BY <2>4, <3>1, CellIndex
  <2>6. th[2][1] = u[2][1] /\ th[2][2] = u[2][2]
    BY <2>3, <2>5, RowsOfTile, ColumnsOfTile
  <2>7. th = u
    BY <1>3, <2>6 DEF Conv!Threads
  <2>8. QED
    BY <1>3, <2>7
<1>4. QED
  BY <1>2, <1>3, ConvPlan DEF SoundShares
(* The place a thread writes to that computes the pixel at y, x; and what  *)
(* convolution2D reads for tap i of the pixel at place p.                  *)
PlaceAt(j, y, x) ==
  IF j.kernel.guarded THEN <<y, x>> ELSE Conv!PlaceOf(j, y * Conv!width(j) + x)
GrayTap(j, p, i) ==
  Conv!GrayPixel(j, <<p[1] - j.kernel.pad + i[1] - 1, p[2] - j.kernel.pad + i[2] - 1>>)

LEMMA ImageOfConv ==
  ASSUME NEW j, Conv!Admissible(j)
  PROVE  /\ DOMAIN Conv!Plan(j).image = {p \in Conv!Places(j) :
              p[1] - j.kernel.pad \in 0 .. j.rows - 1 /\ p[2] - j.kernel.pad \in 0 .. j.cols - 1}
         /\ Conv!Plan(j).image = [p \in DOMAIN Conv!Plan(j).image |->
                                    {<<i, GrayTap(j, p, i)>> : i \in Conv!Taps}]
<1> DEFINE D == {q \in Conv!Places(j) :
              Conv!GrayPixel(j, <<q[1] - j.kernel.pad, q[2] - j.kernel.pad>>) # Conv!Zero}
<1>1. ASSUME NEW q \in Conv!Places(j)
      PROVE  Conv!GrayPixel(j, <<q[1] - j.kernel.pad, q[2] - j.kernel.pad>>) # Conv!Zero
             <=> /\ q[1] - j.kernel.pad \in 0 .. j.rows - 1
                 /\ q[2] - j.kernel.pad \in 0 .. j.cols - 1
  <2> DEFINE a == q[1] - j.kernel.pad
             b == q[2] - j.kernel.pad
  <2> HIDE DEF a, b
  <2>1. Conv!GrayPixel(j, <<a, b>>) # Conv!Zero <=> a \in 0 .. j.rows - 1 /\ b \in 0 .. j.cols - 1
    <3>1. CASE a \in 0 .. j.rows - 1 /\ b \in 0 .. j.cols - 1
      <4>1. <<a, b>> # <<-4, -4>>
        BY <3>1, ConvSizes
      <4>2. QED
        BY <3>1, <4>1 DEF Conv!GrayPixel, Conv!Zero
    <3>2. CASE ~(a \in 0 .. j.rows - 1 /\ b \in 0 .. j.cols - 1)
      BY <3>2 DEF Conv!GrayPixel
    <3>3. QED
      BY <3>1, <3>2
  <2>2. QED
    BY <2>1 DEF a, b
<1>2. D = {p \in Conv!Places(j) :
              p[1] - j.kernel.pad \in 0 .. j.rows - 1 /\ p[2] - j.kernel.pad \in 0 .. j.cols - 1}
  BY <1>1
<1>3. Conv!Plan(j).image = [q \in D |-> {<<i, GrayTap(j, q, i)>> : i \in Conv!Taps}]
  BY ConvPlan DEF GrayTap
<1> HIDE DEF D
<1>4. DOMAIN Conv!Plan(j).image = D
  BY <1>3
<1>5. QED
  BY <1>2, <1>3, <1>4

(* Outside the image everything is black. *)
LEMMA GuardedRead ==
  ASSUME NEW j, Conv!Admissible(j), j.kernel.guarded, NEW y \in Int, NEW x \in Int
  PROVE  Conv!Read(j, y, x) = Conv!GrayPixel(j, <<y - j.kernel.pad, x - j.kernel.pad>>)
<1> DEFINE a == y - j.kernel.pad
           b == x - j.kernel.pad
<1>1. <<y, x>> \notin Conv!Places(j) =>
        <<a, b>> \notin (0 .. j.rows - 1) \X (0 .. j.cols - 1)
  BY ConvSizes DEF Conv!Places
<1> HIDE DEF a, b
<1>2. <<y, x>> \notin Conv!Places(j) => Conv!GrayPixel(j, <<a, b>>) = Conv!Zero
  BY <1>1 DEF Conv!GrayPixel
<1>3. Conv!InputAt(j, y, x) = Conv!GrayPixel(j, <<a, b>>)
  BY DEF Conv!InputAt, a, b
<1>4. Conv!Read(j, y, x) = Conv!GrayPixel(j, <<a, b>>)
  BY <1>2, <1>3 DEF Conv!Read
<1>5. QED
  BY <1>4 DEF a, b

(* Without a test what is read is the pixel with the same number; around a *)
(* pixel of the image that is the right one, wherever the thread takes it  *)
(* to be.                                                                  *)
LEMMA FlatRead ==
  ASSUME NEW j, Conv!Admissible(j), ~j.kernel.guarded, NEW y \in Nat, NEW x \in Nat,
         NEW p, p = Conv!PlaceOf(j, y * Conv!width(j) + x),
         p[1] - j.kernel.pad \in 0 .. j.rows - 1, p[2] - j.kernel.pad \in 0 .. j.cols - 1,
         NEW i \in Conv!Taps
  PROVE  Conv!Read(j, y + i[1] - 1, x + i[2] - 1) = GrayTap(j, p, i)
<1> DEFINE W == Conv!width(j)
           H == Conv!height(j)
           n == y * W + x
           r == p[1] + i[1] - 1
           c == p[2] + i[2] - 1
<1>1. /\ j.kernel.pad = 1 /\ W = j.cols + 2 /\ H = j.rows + 2
      /\ j.rows \in Nat \ {0} /\ j.cols \in Nat \ {0} /\ W \in Nat \ {0} /\ H \in Nat \ {0}
  BY ConvKernels, ConvSizes
<1>2. p[1] = n \div W /\ p[2] = n % W
  BY DEF Conv!PlaceOf
<1>3. i[1] \in 0 .. 2 /\ i[2] \in 0 .. 2
  BY DEF Conv!Taps
<1> HIDE DEF W, H
<1>4. n \in Nat
  BY <1>1
<1>5. n \div W \in Nat /\ n % W \in 0 .. W - 1 /\ n = (n \div W) * W + (n % W)
  <2> HIDE DEF n
  <2>1. QED
    BY <1>1, <1>4, DivMod
<1>6. p[1] \in Nat /\ p[2] \in 0 .. W - 1 /\ y * W + x = p[1] * W + p[2]
  <2>1. n = p[1] * W + p[2] /\ p[1] \in Nat /\ p[2] \in 0 .. W - 1
    <3> HIDE DEF n
    <3>1. QED
      BY <1>2, <1>5
  <2>2. QED
    BY <2>1
<1>7. p[1] \in 1 .. H - 2 /\ p[2] \in 1 .. W - 2
  BY <1>1, <1>6
<1>8. r \in 0 .. H - 1 /\ c \in 0 .. W - 1
  BY <1>1, <1>3, <1>7
<1> DEFINE m == (y + i[1] - 1) * W + (x + i[2] - 1)
<1>9. m = r * W + c
  <2>1. m = y * W + x + (i[1] - 1) * W + (i[2] - 1)
    BY <1>1, <1>3
  <2>2. r * W + c = p[1] * W + p[2] + (i[1] - 1) * W + (i[2] - 1)
    <3>1. \A a, b \in Int : (a + b) * W = a * W + b * W
      BY <1>1
    <3>2. p[1] \in Int /\ i[1] - 1 \in Int /\ r = p[1] + (i[1] - 1)
      BY <1>3, <1>6
    <3> HIDE DEF r
    <3>3. r * W = p[1] * W + (i[1] - 1) * W
      BY <3>1, <3>2
    <3>4. p[1] * W \in Int /\ (i[1] - 1) * W \in Int
      BY <1>1, <3>2
    <3>5. QED
      BY <1>3, <1>6, <3>3, <3>4
  <2>3. QED
    BY <1>6, <2>1, <2>2
<1> HIDE DEF r, c
<1>10. m \in Nat
  <2>1. r * W + c \in Nat
    BY <1>1, <1>8
  <2>2. QED
    BY <1>9, <2>1
<1> HIDE DEF m
<1>11. m \div W = r /\ m % W = c
  <2>1. m \div W \in Nat /\ m % W \in 0 .. W - 1 /\ m = (m \div W) * W + (m % W)
    BY <1>1, <1>10, DivMod
  <2>2. r \in Nat /\ (m \div W) * W + (m % W) = r * W + c
    BY <1>8, <1>9, <2>1
  <2>3. W \in Nat \ {0} /\ m \div W \in Nat /\ m % W \in 0 .. W - 1 /\ c \in 0 .. W - 1
    BY <1>1, <1>8, <2>1
  <2>4. QED
    BY ONLY <2>2, <2>3, PairUnique
<1>12. Conv!PlaceOf(j, m) = <<r, c>>
  BY <1>11 DEF Conv!PlaceOf, W
<1>13. <<r, c>> \in Conv!Places(j)
  BY <1>8 DEF Conv!Places, W, H
<1>14. Conv!Read(j, y + i[1] - 1, x + i[2] - 1) = Conv!InputAt(j, r, c)
  BY <1>12, <1>13 DEF Conv!Read, Conv!Flat, m, W
<1>15. r - j.kernel.pad = p[1] - j.kernel.pad + i[1] - 1 /\ c - j.kernel.pad = p[2] - j.kernel.pad + i[2] - 1
  BY <1>1, <1>3, <1>6 DEF r, c
<1>16. QED
  BY <1>14, <1>15 DEF Conv!InputAt, GrayTap

LEMMA TapRead ==
  ASSUME NEW j, Conv!Admissible(j), NEW y \in Nat, NEW x \in Nat,
         NEW p \in DOMAIN Conv!Plan(j).image, p = PlaceAt(j, y, x), NEW i \in Conv!Taps
  PROVE  Conv!Read(j, y + i[1] - 1, x + i[2] - 1) = GrayTap(j, p, i)
<1>1. p[1] - j.kernel.pad \in 0 .. j.rows - 1 /\ p[2] - j.kernel.pad \in 0 .. j.cols - 1
  BY ImageOfConv
<1>2. CASE ~j.kernel.guarded
  <2>1. p = Conv!PlaceOf(j, y * Conv!width(j) + x)
    BY <1>2 DEF PlaceAt
  <2>2. QED
    BY <1>1, <1>2, <2>1, FlatRead
<1>3. CASE j.kernel.guarded
  <2>1. /\ p[1] = y /\ p[2] = x
    BY <1>3 DEF PlaceAt
  <2>2. /\ i[1] \in Int /\ i[2] \in Int /\ j.kernel.pad \in Int
    BY ConvSizes DEF Conv!Taps
  <2>3. /\ y + i[1] - 1 \in Int /\ x + i[2] - 1 \in Int
        /\ (y + i[1] - 1) - j.kernel.pad = p[1] - j.kernel.pad + i[1] - 1
        /\ (x + i[2] - 1) - j.kernel.pad = p[2] - j.kernel.pad + i[2] - 1
    BY <2>1, <2>2
  <2>4. Conv!Read(j, y + i[1] - 1, x + i[2] - 1) =
          Conv!GrayPixel(j, <<(y + i[1] - 1) - j.kernel.pad, (x + i[2] - 1) - j.kernel.pad>>)
    <3> DEFINE a == y + i[1] - 1
               b == x + i[2] - 1
    <3>1. a \in Int /\ b \in Int
      BY <2>3
    <3> HIDE DEF a, b
    <3>2. Conv!Read(j, a, b) = Conv!GrayPixel(j, <<a - j.kernel.pad, b - j.kernel.pad>>)
      BY <1>3, <3>1, GuardedRead
    <3>3. QED
      BY <3>2 DEF a, b
  <2>5. QED
    BY <2>3, <2>4 DEF GrayTap
<1>4. QED
  BY <1>2, <1>3
(* Where a thread stands, and where it reads tap i of its w-th pixel. *)
RowOf(j, th) == Conv!FirstRow(j, th) + th[2][1]
ColumnOf(j, th) == th[1][2] * j.TILE + th[2][2] * j.WPT
TapSource(j, th, w, i) ==
  IF j.kernel.code[1] = "load"
    THEN <<"window", Conv!Cell(j, th[2][1] + i[1], th[2][2] * j.WPT + w + i[2])>>
    ELSE <<"global", Conv!Read(j, RowOf(j, th) + i[1] - 1, ColumnOf(j, th) + i[2] - 1)>>

LEMMA ConvThread ==
  ASSUME NEW j, Conv!Admissible(j), NEW th \in Conv!Threads(j)
  PROVE  /\ th[1][1] \in Nat /\ th[1][2] \in Nat /\ th = <<th[1], th[2]>>
         /\ th[2][1] \in 0 .. j.TILE - 1 /\ th[2][2] \in 0 .. Conv!blockDimX(j) - 1
         /\ Conv!FirstRow(j, th) \in Nat /\ Conv!FirstRow(j, th) = th[1][1] * j.TILE
         /\ RowOf(j, th) \in Nat /\ ColumnOf(j, th) \in Nat /\ th[1][2] * j.TILE \in Nat
         /\ th[2][2] * j.WPT \in Nat
<1>1. /\ th = <<th[1], th[2]>> /\ th[1] \in Conv!Blocks(j)
      /\ th[2][1] \in 0 .. j.TILE - 1 /\ th[2][2] \in 0 .. Conv!blockDimX(j) - 1
  BY DEF Conv!Threads
<1>2. th[1][1] \in Nat /\ th[1][2] \in Nat
  BY <1>1 DEF Conv!Blocks
<1>3. j.TILE \in Nat \ {0} /\ j.WPT \in Nat \ {0} /\ th[2][1] \in Nat /\ th[2][2] \in Nat
  BY <1>1, ConvSizes
<1>4. th[1][1] * j.TILE \in Nat /\ th[1][2] * j.TILE \in Nat /\ th[2][2] * j.WPT \in Nat
  BY <1>2, <1>3
<1>5. QED
  BY <1>1, <1>2, <1>3, <1>4 DEF Conv!FirstRow, RowOf, ColumnOf

LEMMA ComputedPixels ==
  ASSUME NEW j, Conv!Admissible(j), NEW th \in Conv!Threads(j)
  PROVE  LET computed == Conv!Computed(j, th, Conv!FirstRow(j, th))
             PlaceOf(w) == PlaceAt(j, RowOf(j, th), ColumnOf(j, th) + w)
         IN  /\ DOMAIN computed = {PlaceOf(w) : w \in {v \in 0 .. j.WPT - 1 :
                                     j.kernel.guarded => PlaceOf(v) \in Conv!Places(j)}}
             /\ \A o \in DOMAIN computed : \E w \in 0 .. j.WPT - 1 :
                  /\ o = PlaceOf(w) /\ (j.kernel.guarded => o \in Conv!Places(j))
                  /\ computed[o] = [i \in Conv!Taps |-> TapSource(j, th, w, i)]
<1> DEFINE y == RowOf(j, th)
           x == ColumnOf(j, th)
           Place(w) == IF j.kernel.guarded THEN <<y, x + w>>
                       ELSE Conv!PlaceOf(j, y * Conv!width(j) + x + w)
           W == {w \in 0 .. j.WPT - 1 : j.kernel.guarded => Place(w) \in Conv!Places(j)}
           computed == Conv!Computed(j, th, Conv!FirstRow(j, th))
<1>1. computed =
        [p \in {Place(w) : w \in W} |->
          LET w == CHOOSE v \in W : Place(v) = p
          IN  [i \in Conv!Taps |-> TapSource(j, th, w, i)]]
  BY ConvTable DEF Conv!Computed, TapSource, RowOf, ColumnOf, Conv!RADIUS
<1>2. \A w \in 0 .. j.WPT - 1 : Place(w) = PlaceAt(j, y, x + w)
  <2>1. y \in Int /\ x \in Int /\ Conv!width(j) \in Int /\ j.WPT \in Int
    BY ConvThread, ConvSizes
  <2> HIDE DEF y, x
  <2>2. y * Conv!width(j) \in Int
    BY <2>1
  <2>3. \A w \in 0 .. j.WPT - 1 : y * Conv!width(j) + x + w = y * Conv!width(j) + (x + w)
    BY <2>1, <2>2
  <2>4. QED
    BY <2>3 DEF PlaceAt
<1> HIDE DEF computed, Place, x, y
<1>3. W = {v \in 0 .. j.WPT - 1 : j.kernel.guarded => PlaceAt(j, y, x + v) \in Conv!Places(j)}
  BY <1>2
<1>4. DOMAIN computed = {Place(w) : w \in W}
  BY <1>1
<1>5. {Place(w) : w \in W} = {PlaceAt(j, y, x + w) : w \in W}
  BY <1>2
<1>6. ASSUME NEW o \in DOMAIN computed
      PROVE  \E w \in 0 .. j.WPT - 1 :
               /\ o = PlaceAt(j, y, x + w) /\ (j.kernel.guarded => o \in Conv!Places(j))
               /\ computed[o] = [i \in Conv!Taps |-> TapSource(j, th, w, i)]
  <2> DEFINE w == CHOOSE v \in W : Place(v) = o
  <2>1. w \in W /\ Place(w) = o
    BY <1>4, <1>6
  <2>2. computed[o] = [i \in Conv!Taps |-> TapSource(j, th, w, i)]
    BY <1>1, <1>4, <1>6
  <2> HIDE DEF w
  <2>3. QED
    BY <1>2, <2>1, <2>2
<1>7. DOMAIN computed = {PlaceAt(j, y, x + w) : w \in {v \in 0 .. j.WPT - 1 :
                            j.kernel.guarded => PlaceAt(j, y, x + v) \in Conv!Places(j)}}
  BY <1>3, <1>4, <1>5
<1>8. QED
  BY <1>6, <1>7 DEF computed, x, y

(* The tap of a pixel has a place in the tile. *)
LEMMA TapInTile ==
  ASSUME NEW j, Conv!Admissible(j), NEW th \in Conv!Threads(j), NEW w \in 0 .. j.WPT - 1,
         NEW i \in Conv!Taps
  PROVE  /\ th[2][1] + i[1] \in 0 .. Conv!Side(j) - 1
         /\ th[2][2] * j.WPT + w + i[2] \in 0 .. Conv!Side(j) - 1
<1> DEFINE X == Conv!blockDimX(j)
           tx == th[2][2]
           N == j.WPT
<1>1. i[1] \in 0 .. 2 /\ i[2] \in 0 .. 2
  BY DEF Conv!Taps
<1>2. th[2][1] + i[1] \in 0 .. Conv!Side(j) - 1
  BY <1>1, ConvThread, ConvSizes
<1>3. /\ X \in Nat \ {0} /\ tx \in 0 .. X - 1 /\ N \in Nat \ {0} /\ w \in 0 .. N - 1
      /\ Conv!Side(j) = X * N + 2
  BY ConvThread, ConvSizes
<1> HIDE DEF X, tx, N
<1>4. tx * N <= (X - 1) * N
  BY <1>3
<1>5. (X - 1) * N = X * N - N /\ tx * N \in Nat /\ X * N \in Nat
  BY <1>3
<1>6. tx * N + w + i[2] \in 0 .. Conv!Side(j) - 1
  BY <1>1, <1>3, <1>4, <1>5
<1>7. QED
  BY <1>2, <1>6 DEF tx, N

(* What a thread finds for a pixel of the image is the gray tap. *)
LEMMA ConvFinds ==
  ASSUME NEW j, Conv!Admissible(j), NEW th \in Conv!Threads(j), NEW w \in 0 .. j.WPT - 1,
         NEW p \in DOMAIN Conv!Plan(j).image, p = PlaceAt(j, RowOf(j, th), ColumnOf(j, th) + w),
         NEW i \in Conv!Taps
  PROVE  Finds(Conv!Plan(j), th, TapSource(j, th, w, i), GrayTap(j, p, i))
<1> DEFINE y == RowOf(j, th)
           x == ColumnOf(j, th)
<1>1. y \in Nat /\ x \in Nat /\ x + w \in Nat /\ w \in Nat /\ j.WPT \in Nat \ {0}
  BY ConvThread, ConvSizes
<1>2. Conv!Read(j, y + i[1] - 1, (x + w) + i[2] - 1) = GrayTap(j, p, i)
  <2> DEFINE z == x + w
  <2>1. z \in Nat /\ p = PlaceAt(j, y, z)
    BY <1>1
  <2> HIDE DEF y, z
  <2>2. Conv!Read(j, y + i[1] - 1, z + i[2] - 1) = GrayTap(j, p, i)
    BY <1>1, <2>1, TapRead
  <2>3. QED
    BY <2>2 DEF z
<1>3. i[1] \in 0 .. 2 /\ i[2] \in 0 .. 2
  BY DEF Conv!Taps
<1>4. CASE j.kernel.code[1] # "load"
  <2>1. w = 0 /\ x + w = x
    BY <1>1, <1>4, ConvKernels
  <2>2. QED
    BY <1>2, <1>4, <2>1 DEF TapSource, Finds, FromGlobal
<1>5. CASE j.kernel.code[1] = "load"
  <2> DEFINE row == th[2][1] + i[1]
             col == th[2][2] * j.WPT + w + i[2]
             c == Conv!Cell(j, row, col)
  <2>1. row \in 0 .. Conv!Side(j) - 1
    BY TapInTile
  <2>2. col \in 0 .. Conv!Side(j) - 1
    BY TapInTile
  <2>3. PICK ty \in 0 .. j.TILE - 1 : row \in Conv!MyRows(j, ty)
    BY <2>1, RowsOfTile
  <2>4. PICK tx \in 0 .. Conv!blockDimX(j) - 1 : col \in Conv!MyColumns(j, tx)
    BY <2>2, ColumnsOfTile
  <2> DEFINE u == <<th[1], <<ty, tx>>>>
  <2>5. u \in Conv!Threads(j) /\ u[1] = th[1] /\ u[2][1] = ty /\ u[2][2] = tx
    BY DEF Conv!Threads
  <2>6. Conv!FirstRow(j, u) = Conv!FirstRow(j, th)
    BY <2>5 DEF Conv!FirstRow
  <2>7. /\ c \in DOMAIN Conv!Plan(j).loads[u]
        /\ Conv!Plan(j).loads[u][c] =
             Conv!Read(j, Conv!FirstRow(j, th) + row - 1, th[1][2] * j.TILE + col - 1)
    <3>1. Conv!Plan(j).loads[u] = Conv!LoadsFrom(j, u, Conv!FirstRow(j, th))
      <4>1. \A v \in Conv!Threads(j) :
              Conv!Plan(j).loads[v] = Conv!LoadsFrom(j, v, Conv!FirstRow(j, v))
        BY ConvPlan
      <4> HIDE DEF u
      <4>2. QED
        BY <2>5, <2>6, <4>1
    <3> HIDE DEF u, row, col
    <3>2. /\ Conv!Cell(j, row, col) \in DOMAIN Conv!LoadsFrom(j, u, Conv!FirstRow(j, th))
          /\ Conv!LoadsFrom(j, u, Conv!FirstRow(j, th))[Conv!Cell(j, row, col)] =
               Conv!Read(j, Conv!FirstRow(j, th) + row - 1, u[1][2] * j.TILE + col - 1)
      BY <2>3, <2>4, <2>5, LoadedCell
    <3>3. QED
      BY <2>5, <3>1, <3>2
  <2>8. /\ Conv!FirstRow(j, th) + row - 1 = y + i[1] - 1
        /\ th[1][2] * j.TILE + col - 1 = (x + w) + i[2] - 1
    <3>1. /\ Conv!FirstRow(j, th) \in Int /\ th[2][1] \in Int /\ th[1][2] * j.TILE \in Int
          /\ th[2][2] * j.WPT \in Int
      BY ConvThread, ConvSizes
    <3>2. QED
      BY <1>1, <1>3, <3>1 DEF RowOf, ColumnOf
  <2>9. TapSource(j, th, w, i) = FromWindow(c)
    BY <1>5 DEF TapSource, FromWindow
  <2>10. /\ Conv!Plan(j).threads = Conv!Threads(j) /\ Conv!Plan(j).code = j.kernel.code
         /\ 1 \in DOMAIN j.kernel.code
    BY <1>5, ConvPlan, ConvKernels
  <2>11. Conv!Plan(j).loads[u][c] = GrayTap(j, p, i)
    BY <1>2, <2>7, <2>8
  <2> HIDE DEF c, u
  <2>12. QED
    BY <1>5, <2>5, <2>7, <2>9, <2>10, <2>11 DEF Finds
<1>6. QED
  BY <1>4, <1>5

LEMMA ConvOutput ==
  ASSUME NEW j, Conv!Admissible(j), NEW th \in Conv!Threads(j),
         NEW o \in DOMAIN Conv!Plan(j).taps[1][th] \cap DOMAIN Conv!Plan(j).image
  PROVE  SoundOutput(Conv!Plan(j), th, o)
<1> DEFINE p == Conv!Plan(j)
           pixel == [i \in Conv!Taps |-> GrayTap(j, o, i)]
<1>1. p.taps[1][th] = Conv!Computed(j, th, Conv!FirstRow(j, th))
  BY ConvPlan
<1>2. PICK w \in 0 .. j.WPT - 1 :
        /\ o = PlaceAt(j, RowOf(j, th), ColumnOf(j, th) + w)
        /\ p.taps[1][th][o] = [i \in Conv!Taps |-> TapSource(j, th, w, i)]
  <2> DEFINE computed == Conv!Computed(j, th, Conv!FirstRow(j, th))
  <2>1. o \in DOMAIN computed
    BY <1>1
  <2>2. \A q \in DOMAIN computed : \E w \in 0 .. j.WPT - 1 :
          /\ q = PlaceAt(j, RowOf(j, th), ColumnOf(j, th) + w)
          /\ computed[q] = [i \in Conv!Taps |-> TapSource(j, th, w, i)]
    BY ComputedPixels
  <2> HIDE DEF p, computed
  <2>3. QED
    BY <1>1, <2>1, <2>2 DEF computed
<1>3. \A i \in Conv!Taps : Finds(p, th, TapSource(j, th, w, i), GrayTap(j, o, i))
  BY <1>2, ConvFinds
<1>4. p.image[o] = {<<i, GrayTap(j, o, i)>> : i \in Conv!Taps}
  <2>1. p.image = [x \in DOMAIN p.image |-> {<<i, GrayTap(j, x, i)>> : i \in Conv!Taps}]
    BY ImageOfConv
  <2>2. o \in DOMAIN p.image
    OBVIOUS
  <2> HIDE DEF p
  <2>3. QED
    BY <2>1, <2>2
<1> HIDE DEF p
<1>5. DOMAIN p.taps[1][th][o] = Conv!Taps
  BY <1>2
<1>6. p.image[o] = {<<i, pixel[i]>> : i \in Conv!Taps}
  BY <1>4
<1>7. \A i \in Conv!Taps : Finds(p, th, p.taps[1][th][o][i], pixel[i])
  <2> TAKE i \in Conv!Taps
  <2>1. p.taps[1][th][o][i] = TapSource(j, th, w, i) /\ pixel[i] = GrayTap(j, o, i)
    BY <1>2
  <2>2. QED
    BY <1>3, <2>1
<1> HIDE DEF pixel
<1>8. SoundOutput(p, th, o)
  BY <1>5, <1>6, <1>7 DEF SoundOutput
<1>9. QED
  BY <1>8 DEF p

(* Every place of the picture is computed by some thread. *)
LEMMA PlaceHasThread ==
  ASSUME NEW j, Conv!Admissible(j), NEW o \in Conv!Places(j)
  PROVE  \E th \in Conv!Threads(j) : o \in DOMAIN Conv!Computed(j, th, Conv!FirstRow(j, th))
<1> DEFINE T == j.TILE
           N == j.WPT
           X == Conv!blockDimX(j)
           W == Conv!width(j)
           H == Conv!height(j)
<1>1. /\ T \in Nat \ {0} /\ N \in Nat \ {0} /\ X \in Nat \ {0} /\ T = X * N
      /\ W \in Nat \ {0} /\ H \in Nat \ {0}
  BY ConvSizes
<1>2. o = <<o[1], o[2]>> /\ o[1] \in 0 .. H - 1 /\ o[2] \in 0 .. W - 1
  BY DEF Conv!Places
<1> HIDE DEF T, N, X, W, H
<1>3. PICK by \in 0 .. Bicubic!CeilDiv(H, T) - 1, ty \in 0 .. T - 1 : by * T + ty = o[1]
  <2> DEFINE one == 1
  <2>1. one \in Nat \ {0} /\ T * one = T
    BY <1>1
  <2> HIDE DEF one
  <2> DEFINE row == o[1]
  <2>2. T \in Nat \ {0} /\ one \in Nat \ {0} /\ H \in Nat \ {0} /\ row \in 0 .. H - 1
    BY <1>1, <1>2, <2>1
  <2> HIDE DEF row
  <2>3. PICK by \in 0 .. Bicubic!CeilDiv(H, T * one) - 1, ty \in 0 .. T - 1 :
          by * (T * one) + ty * one \in Int
          /\ row \in by * (T * one) + ty * one .. by * (T * one) + ty * one + one - 1
    BY ONLY <2>2, AxisPlace
  <2>4. by \in Int /\ by * T \in Int /\ ty * one = ty /\ by * (T * one) = by * T
    BY <1>1, <2>1 DEF one
  <2>5. by * T + ty = o[1]
    BY <2>3, <2>4 DEF one, row
  <2>6. QED
    BY <2>1, <2>5
<1>4. PICK bx \in 0 .. Bicubic!CeilDiv(W, X * N) - 1, tx \in 0 .. X - 1 :
        bx * (X * N) + tx * N \in Int
        /\ o[2] \in bx * (X * N) + tx * N .. bx * (X * N) + tx * N + N - 1
  BY <1>1, <1>2, AxisPlace
<1> DEFINE th == <<<<by, bx>>, <<ty, tx>>>>
           w == o[2] - (bx * (X * N) + tx * N)
<1>5. th \in Conv!Threads(j)
  <2>1. \A a, b : Conv!CeilDiv(a, b) = Bicubic!CeilDiv(a, b)
    BY DEF Conv!CeilDiv, Bicubic!CeilDiv
  <2>2. <<by, bx>> \in Conv!Blocks(j)
    BY <1>1, <1>3, <1>4, <2>1 DEF Conv!Blocks, T, W, H
  <2>3. QED
    BY <1>3, <1>4, <2>2 DEF Conv!Threads, T, X
<1>6. w \in 0 .. N - 1 /\ o[2] = (bx * (X * N) + tx * N) + w
  BY <1>1, <1>2, <1>4
<1>7. RowOf(j, th) = o[1] /\ ColumnOf(j, th) = bx * (X * N) + tx * N
  <2>1. RowOf(j, th) = by * T + ty /\ ColumnOf(j, th) = bx * T + tx * N
    BY DEF RowOf, ColumnOf, Conv!FirstRow, T, N
  <2>2. QED
    BY <1>1, <1>3, <2>1
<1> HIDE DEF th, w
<1>8. PlaceAt(j, RowOf(j, th), ColumnOf(j, th) + w) = o
  <2>1. RowOf(j, th) = o[1] /\ ColumnOf(j, th) + w = o[2]
    BY <1>6, <1>7
  <2>2. Conv!PlaceOf(j, o[1] * W + o[2]) = <<o[1], o[2]>>
    <3> DEFINE n == o[1] * W + o[2]
    <3>1. o[1] \in Nat /\ o[2] \in 0 .. W - 1 /\ W \in Nat \ {0}
      BY <1>1, <1>2
    <3>2. n \in Nat
      BY <3>1
    <3> HIDE DEF n
    <3>3. n \div W \in Nat /\ n % W \in 0 .. W - 1 /\ n = (n \div W) * W + (n % W)
      BY <3>1, <3>2, DivMod
    <3>4. o[1] * W + o[2] = (n \div W) * W + (n % W)
      BY <3>3 DEF n
    <3> DEFINE q == n \div W
               r == n % W
               a == o[1]
               b == o[2]
    <3>5. a = q /\ b = r
      <4>1. /\ W \in Nat \ {0} /\ a \in Nat /\ q \in Nat /\ b \in 0 .. W - 1 /\ r \in 0 .. W - 1
            /\ a * W + b = q * W + r
        BY <3>1, <3>3, <3>4
      <4> HIDE DEF q, r, a, b
      <4>2. QED
        BY ONLY <4>1, PairUnique
    <3>6. QED
      BY <3>5 DEF Conv!PlaceOf, n, W
  <2>3. QED
    BY <1>2, <2>1, <2>2 DEF PlaceAt, W
<1>9. o \in DOMAIN Conv!Computed(j, th, Conv!FirstRow(j, th))
  <2>1. w \in {v \in 0 .. j.WPT - 1 : j.kernel.guarded =>
                 PlaceAt(j, RowOf(j, th), ColumnOf(j, th) + v) \in Conv!Places(j)}
    BY <1>6, <1>8 DEF N
  <2>2. DOMAIN Conv!Computed(j, th, Conv!FirstRow(j, th)) =
          {PlaceAt(j, RowOf(j, th), ColumnOf(j, th) + v) :
             v \in {v \in 0 .. j.WPT - 1 : j.kernel.guarded =>
                      PlaceAt(j, RowOf(j, th), ColumnOf(j, th) + v) \in Conv!Places(j)}}
    BY <1>5, ComputedPixels
  <2>3. QED
    BY <1>8, <2>1, <2>2
<1>10. QED
  BY <1>5, <1>9

(* For images and tiles of every size and every width of a thread that     *)
(* divides the tile: the tile and its halo are loaded without a clash,     *)
(* every pixel is some thread's, and each tap is found in a loaded cell.   *)
THEOREM ConvPlansSound ==
  ASSUME NEW j, Conv!Admissible(j)
  PROVE  SoundPlan(Conv!Plan(j))
<1> DEFINE p == Conv!Plan(j)
<1>1. /\ p.code = j.kernel.code /\ p.host = j.host
      /\ p.threads = Conv!Threads(j) /\ p.pixels = Conv!Places(j)
      /\ \A th \in Conv!Threads(j) :
           /\ p.loads[th] = Conv!LoadsFrom(j, th, Conv!FirstRow(j, th))
           /\ p.ahead[th] = Conv!LoadsFrom(j, th, Conv!FirstRow(j, th) + j.TILE)
           /\ p.taps[1][th] = Conv!Computed(j, th, Conv!FirstRow(j, th))
  BY ConvPlan
<1>2. SoundCode(p.code) /\ p.host \in Hosts
  BY <1>1, ConvKernels
<1>3. SoundShares(p, p.loads) /\ SoundShares(p, p.ahead)
  BY <1>1, ConvShares
<1>4. \A th \in p.threads : \A o \in DOMAIN p.taps[1][th] \cap DOMAIN p.image : SoundOutput(p, th, o)
  BY <1>1, ConvOutput
<1>5. /\ p.image = [o \in DOMAIN p.image |-> {<<i, GrayTap(j, o, i)>> : i \in Conv!Taps}]
      /\ DOMAIN p.image \subseteq Conv!Places(j)
  BY ImageOfConv
<1> HIDE DEF p
<1>6. p.image = [o \in DOMAIN p.image |-> p.image[o]]
  BY <1>5
<1>7. \A o \in DOMAIN p.image : p.image[o] # Unwritten
  <2> TAKE o \in DOMAIN p.image
  <2>1. p.image[o] = {<<i, GrayTap(j, o, i)>> : i \in Conv!Taps}
    BY <1>5
  <2>2. <<0, 0>> \in Conv!Taps
    BY DEF Conv!Taps
  <2>3. <<<<0, 0>>, GrayTap(j, o, <<0, 0>>)>> \in p.image[o]
    BY <2>1, <2>2
  <2>4. <<0, 0>> # Garbage
    BY DEF Garbage
  <2>5. QED
    BY <2>3, <2>4 DEF Unwritten
<1>8. \A o \in DOMAIN p.image : \E th \in p.threads : o \in DOMAIN p.taps[1][th]
  BY <1>1, <1>5, PlaceHasThread
<1>9. SoundPlan(p)
  BY <1>2, <1>3, <1>4, <1>6, <1>7, <1>8 DEF SoundPlan
<1>10. QED
  BY <1>9 DEF p

(* A convolution keeps to the cells of its tile; with its tests it reads   *)
(* the pixels of the image or takes a zero, and stores to the output only. *)
LEMMA ConvInside ==
  ASSUME NEW j, Conv!Admissible(j)
  PROVE  InsidePlan(Conv!Plan(j))
<1> DEFINE p == Conv!Plan(j)
<1>1. /\ p.threads = Conv!Threads(j) /\ p.array = Conv!Array(j) /\ p.pixels = Conv!Places(j)
      /\ p.inputs = ((0 .. j.rows - 1) \X (0 .. j.cols - 1)) \cup {Conv!Zero}
      /\ p.confined = j.kernel.guarded
      /\ \A th \in Conv!Threads(j) :
           /\ p.loads[th] = Conv!LoadsFrom(j, th, Conv!FirstRow(j, th))
           /\ p.ahead[th] = Conv!LoadsFrom(j, th, Conv!FirstRow(j, th) + j.TILE)
           /\ p.taps[1][th] = Conv!Computed(j, th, Conv!FirstRow(j, th))
  BY ConvPlan
<1> HIDE DEF p
<1>3. j.kernel.guarded => \A y, x : Conv!Read(j, y, x) \in p.inputs
  BY <1>1 DEF Conv!Read, Conv!InputAt, Conv!GrayPixel
<1>4. ASSUME j.kernel.guarded, NEW th, NEW top
      PROVE  \A c \in DOMAIN Conv!LoadsFrom(j, th, top) : Conv!LoadsFrom(j, th, top)[c] \in p.inputs
  <2> DEFINE mine == Conv!MyRows(j, th[2][1]) \X Conv!MyColumns(j, th[2][2])
             cells == {Conv!Cell(j, q[1], q[2]) : q \in mine}
             at(c) == CHOOSE r \in mine : Conv!Cell(j, r[1], r[2]) = c
  <2>1. Conv!LoadsFrom(j, th, top) =
          [c \in cells |-> Conv!Read(j, top + at(c)[1] - 1, th[1][2] * j.TILE + at(c)[2] - 1)]
    BY DEF Conv!LoadsFrom, Conv!RADIUS
  <2> HIDE DEF cells, at
  <2>2. QED
    BY <1>3, <1>4, <2>1
<1>5. p.confined => LoadsInside(p, p.loads) /\ LoadsInside(p, p.ahead)
  BY <1>1, <1>4 DEF LoadsInside
<1>6. ASSUME NEW th \in Conv!Threads(j), NEW w \in 0 .. j.WPT - 1, NEW i \in Conv!Taps
      PROVE  SourceInside(p, TapSource(j, th, w, i))
  <2>1. CASE j.kernel.code[1] # "load"
    BY <1>1, <1>3, <2>1 DEF TapSource, SourceInside, FromGlobal
  <2>2. CASE j.kernel.code[1] = "load"
    <3>1. Conv!Cell(j, th[2][1] + i[1], th[2][2] * j.WPT + w + i[2]) \in Conv!Array(j)
      BY TapInTile, CellIndex
    <3>2. QED
      BY <1>1, <2>2, <3>1 DEF TapSource, SourceInside, FromWindow
  <2>3. QED
    BY <2>1, <2>2
<1>7. ASSUME NEW th \in Conv!Threads(j), NEW o \in DOMAIN p.taps[1][th]
      PROVE  /\ p.confined => o \in p.pixels
             /\ \A i \in DOMAIN p.taps[1][th][o] : SourceInside(p, p.taps[1][th][o][i])
  <2> DEFINE computed == Conv!Computed(j, th, Conv!FirstRow(j, th))
  <2>1. p.taps[1][th] = computed /\ o \in DOMAIN computed
    BY <1>1, <1>7
  <2>2. \A q \in DOMAIN computed : \E w \in 0 .. j.WPT - 1 :
          /\ j.kernel.guarded => q \in Conv!Places(j)
          /\ computed[q] = [i \in Conv!Taps |-> TapSource(j, th, w, i)]
    BY ComputedPixels
  <2> HIDE DEF computed
  <2>3. PICK w \in 0 .. j.WPT - 1 :
          /\ j.kernel.guarded => o \in Conv!Places(j)
          /\ computed[o] = [i \in Conv!Taps |-> TapSource(j, th, w, i)]
    BY <2>1, <2>2
  <2>4. DOMAIN p.taps[1][th][o] = Conv!Taps
        /\ \A i \in Conv!Taps : p.taps[1][th][o][i] = TapSource(j, th, w, i)
    BY <2>1, <2>3
  <2>5. QED
    BY <1>1, <1>6, <2>3, <2>4
<1>8. InsidePlan(p)
  BY <1>1, <1>5, <1>7 DEF InsidePlan
<1>9. QED
  BY <1>8 DEF p
-----------------------------------------------------------------------------
(* The programs with one thread per output. *)

One == INSTANCE OneOutput

LEMMA OneTable == \A f : One!Table(f) = f
  BY DEF One!Table

LEMMA OneKernels ==
  ASSUME NEW j, One!Admissible(j)
  PROVE  /\ SoundCode(j.kernel.code) /\ j.host \in Hosts
         /\ j.kernel.terms \in {"elements", "product", "transposed"}
         /\ \/ j.kernel.grid = "line" /\ j.kernel.terms # "transposed" /\ Len(j.kernel.code) = 1
            \/ j.kernel.grid = "blocks" /\ j.kernel.terms # "transposed" /\ Len(j.kernel.code) = 1
            \/ /\ j.kernel.grid \in {"blocks", "whole blocks"} /\ j.kernel.terms = "transposed"
               /\ Len(j.kernel.code) # 1 /\ 1 \in DOMAIN j.kernel.code /\ j.kernel.code[1] = "load"
            \/ /\ j.kernel.grid = "team" /\ Len(j.kernel.code) # 1
               /\ 1 \in DOMAIN j.kernel.code /\ j.kernel.code[1] = "load"
               /\ j.kernel.terms = "transposed"
                    \/ (j.kernel.terms = "product" /\ j.depth = j.rows /\ j.cols = j.rows)
<1> DEFINE Storing(kernel) ==
             /\ kernel.code = <<"store">> /\ kernel.grid \in {"line", "blocks"}
             /\ kernel.terms \in {"elements", "product"}
           Transposing(kernel) ==
             /\ kernel.code = <<"load", "sync", "store">>
             /\ kernel.grid \in {"blocks", "whole blocks", "team"} /\ kernel.terms = "transposed"
<1>1. /\ j.host \in Hosts
      /\ \/ Storing(j.kernel) \/ Transposing(j.kernel)
         \/ j.kernel = One!matVelOpenMP
  <2>1. \A k, h : <<j.kernel, j.host>> = <<k, h>> => j.kernel = k /\ j.host = h
    OBVIOUS
  <2>2. /\ Storing(One!vectorAdd) /\ Storing(One!vectorAddUniMem) /\ Storing(One!vectorMul)
        /\ Storing(One!matrixAdd) /\ Storing(One!matrixMul1D) /\ Storing(One!matrixMul)
    BY DEF One!vectorAdd, One!vectorAddUniMem, One!vectorMul, One!matrixAdd, One!matrixMul1D,
           One!matrixMul, One!Kernel
  <2>3. /\ Transposing(One!transposeNoConflict) /\ Transposing(One!transposeFinal)
        /\ Transposing(One!transpose16) /\ Transposing(One!transpose2D)
        /\ Transposing(One!transpose2D_vec) /\ Transposing(One!transpose_blocked_parallel)
        /\ Transposing(One!transpose_blocked_float)
    BY DEF One!transposeNoConflict, One!transposeFinal, One!transpose16, One!transpose2D,
           One!transpose2D_vec, One!transpose_blocked_parallel, One!transpose_blocked_float,
           One!WithBarrier
  <2>4. One!LaunchAndCopy \in Hosts /\ One!Accumulating \in Hosts
    BY DEF One!LaunchAndCopy, One!Accumulating, Hosts
  <2> DEFINE kernels == {One!vectorAdd, One!vectorAddUniMem, One!vectorMul, One!matrixAdd,
               One!matrixMul1D, One!matrixMul, One!transposeNoConflict, One!transposeFinal,
               One!transpose16, One!transpose2D, One!transpose2D_vec,
               One!transpose_blocked_parallel, One!transpose_blocked_float}
  <2>5. \A k \in kernels : Storing(k) \/ Transposing(k)
    <3> HIDE DEF Storing, Transposing
    <3>1. QED
      BY <2>2, <2>3
  <2> HIDE DEF Storing, Transposing
  <2>6. <<j.kernel, j.host>> \in kernels \X {One!LaunchAndCopy}
        \/ <<j.kernel, j.host>> = <<One!matVelOpenMP, One!Accumulating>>
    BY DEF One!Admissible, One!Versions
  <2> HIDE DEF kernels
  <2>7. QED
    BY <2>1, <2>4, <2>5, <2>6
<1>2. CASE Storing(j.kernel)
  <2>1. Len(j.kernel.code) = 1
    BY <1>2
  <2>2. QED
    BY <1>1, <1>2, <2>1, StoreSound
<1>3. CASE Transposing(j.kernel)
  <2>1. Len(j.kernel.code) # 1 /\ 1 \in DOMAIN j.kernel.code /\ j.kernel.code[1] = "load"
    <3>1. j.kernel.code = <<"load", "sync", "store">>
      BY <1>3
    <3>2. QED
      BY <3>1
  <2>2. QED
    BY <1>1, <1>3, <2>1, LoadAndStoreSound
<1>4. CASE j.kernel = One!matVelOpenMP
  <2>1. /\ j.kernel.code = <<"load", "sync", "store">> /\ j.kernel.grid = "team"
        /\ j.kernel.terms = "product"
    BY <1>4 DEF One!matVelOpenMP, One!WithBarrier
  <2>2. j.depth = j.rows /\ j.cols = j.rows
    BY <1>4 DEF One!Admissible
  <2>3. Len(j.kernel.code) # 1 /\ 1 \in DOMAIN j.kernel.code /\ j.kernel.code[1] = "load"
    BY <2>1
  <2>4. QED
    BY <1>1, <2>1, <2>2, <2>3, LoadAndStoreSound
<1>5. QED
  BY <1>1, <1>2, <1>3, <1>4

LEMMA OneSizes ==
  ASSUME NEW j, One!Admissible(j)
  PROVE  /\ j.dim \in Nat \ {0} /\ j.team \in Nat \ {0} /\ j.rows \in Nat \ {0}
         /\ j.depth \in Nat \ {0} /\ j.cols \in Nat \ {0}
  BY DEF One!Admissible

(* The elements of the matrices in some of their cells. *)
ElementsIn(j, cells) == {<<m, c[1], c[2]>> : m \in One!Matrices(j), c \in cells}

LEMMA OnePlan ==
  ASSUME NEW j, One!Admissible(j)
  PROVE  LET p == One!Plan(j) IN
         /\ p.code = j.kernel.code /\ p.host = j.host /\ p.threads = One!Threads(j)
         /\ p.pixels = One!Cells(j) /\ p.inputs = One!Inputs(j)
         /\ p.array = IF j.kernel.grid = "team" THEN ElementsIn(j, One!Within(j.rows, j.cols))
                      ELSE One!TileCells(j)
         /\ p.image = [c \in One!Cells(j) |->
                         {<<t, One!Terms(j, c)[t]>> : t \in DOMAIN One!Terms(j, c)}]
         /\ \A th \in One!Threads(j) :
              /\ p.loads[th] = IF Len(j.kernel.code) = 1 THEN <<>> ELSE One!LoadsOf(j, th)
              /\ p.ahead[th] = <<>>
              /\ p.taps[1][th] = [c \in One!Stored(j, th) |-> [t \in DOMAIN One!Terms(j, c) |->
                                    One!SourceOf(j, th, One!Terms(j, c)[t])]]
<1>1. /\ One!Plan(j).code = j.kernel.code /\ One!Plan(j).host = j.host
      /\ One!Plan(j).threads = One!Threads(j) /\ One!Plan(j).pixels = One!Cells(j)
      /\ One!Plan(j).inputs = One!Inputs(j)
  BY DEF One!Plan
<1>2. One!Plan(j).array =
        IF j.kernel.grid = "team" THEN ElementsIn(j, One!Within(j.rows, j.cols))
        ELSE One!TileCells(j)
  BY DEF One!Plan, ElementsIn
<1>3. One!Plan(j).loads =
        [th \in One!Threads(j) |-> IF Len(j.kernel.code) = 1 THEN <<>> ELSE One!LoadsOf(j, th)]
  BY OneTable DEF One!Plan
<1>4. One!Plan(j).ahead = [th \in One!Threads(j) |-> <<>>]
  BY OneTable DEF One!Plan
<1>5. One!Plan(j).taps[1] =
        [th \in One!Threads(j) |-> [c \in One!Stored(j, th) |-> [t \in DOMAIN One!Terms(j, c) |->
           One!SourceOf(j, th, One!Terms(j, c)[t])]]]
  <2>1. One!Plan(j).taps[1] =
          [th \in One!Threads(j) |-> [c \in One!Stored(j, th) |->
             One!Table([t \in DOMAIN One!Terms(j, c) |->
               One!SourceOf(j, th, One!Terms(j, c)[t])])]]
    <3> DEFINE F(th) == [c \in One!Stored(j, th) |->
                 One!Table([t \in DOMAIN One!Terms(j, c) |->
                   One!SourceOf(j, th, One!Terms(j, c)[t])])]
    <3>1. One!Plan(j).taps[1] = One!Table([th \in One!Threads(j) |-> One!Table(F(th))])
      BY DEF One!Plan
    <3> HIDE DEF F
    <3>2. One!Plan(j).taps[1] = [th \in One!Threads(j) |-> F(th)]
      BY <3>1, OneTable
    <3>3. QED
      BY <3>2 DEF F
  <2>2. ASSUME NEW th
        PROVE  [c \in One!Stored(j, th) |->
                  One!Table([t \in DOMAIN One!Terms(j, c) |->
                    One!SourceOf(j, th, One!Terms(j, c)[t])])] =
               [c \in One!Stored(j, th) |-> [t \in DOMAIN One!Terms(j, c) |->
                  One!SourceOf(j, th, One!Terms(j, c)[t])]]
    BY OneTable
  <2>3. QED
    BY <2>1, <2>2
<1>6. One!Plan(j).image =
        [c \in One!Cells(j) |-> {<<t, One!Terms(j, c)[t]>> : t \in DOMAIN One!Terms(j, c)}]
  <2>1. One!Plan(j).image =
          [c \in One!Cells(j) |-> {<<t, One!Intended(j, c)[t]>> : t \in DOMAIN One!Intended(j, c)}]
    BY OneTable DEF One!Plan
  <2>2. \A c : One!Intended(j, c) = One!Terms(j, c)
    BY OneKernels DEF One!Intended
  <2>3. QED
    BY <2>1, <2>2
<1>7. QED
  BY <1>1, <1>2, <1>3, <1>4, <1>5, <1>6
(* schedule(static) gives every iteration to one thread. *)
LEMMA SharesCover ==
  ASSUME NEW j, j.team \in Nat \ {0}, NEW n \in Nat, NEW i \in 0 .. n - 1
  PROVE  \E t \in 0 .. j.team - 1 : i \in One!Share(j, n, t)
<1> DEFINE T == j.team
           q == n \div T
           r == n % T
           Start(t) == t * q + One!Smaller(t, r)
<1>1. \A t : One!Share(j, n, t) = Start(t) .. Start(t + 1) - 1
  BY DEF One!Share, One!ShareStart
<1>2. T \in Nat \ {0} /\ q \in Nat /\ r \in 0 .. T - 1 /\ n = q * T + r
  <2>1. T \in Nat \ {0}
    OBVIOUS
  <2> HIDE DEF T
  <2>2. QED
    BY <2>1, DivMod
<1> HIDE DEF T, q, r
<1>3. \A t \in Nat : /\ t <= r => Start(t) = t * q + t
                     /\ t >= r => Start(t) = t * q + r
  BY <1>2 DEF One!Smaller
<1> HIDE DEF Start
<1>4. CASE i < r * (q + 1)
  <2> DEFINE k == q + 1
             t == i \div k
  <2>1. k \in Nat \ {0} /\ i \in Nat
    BY <1>2
  <2>2. t \in Nat /\ t * k <= i /\ i < t * k + k
    <3> HIDE DEF k
    <3>1. t \in Nat /\ i % k \in 0 .. k - 1 /\ i = t * k + (i % k)
      BY <2>1, DivMod
    <3> HIDE DEF t
    <3>2. t * k \in Nat
      BY <2>1, <3>1
    <3>3. QED
      BY <2>1, <3>1, <3>2
  <2> HIDE DEF t
  <2>3. t < r
    <3>1. CASE t >= r
      <4> HIDE DEF k
      <4>1. t * k >= r * k
        BY <1>2, <2>1, <2>2, <3>1
      <4>2. t * k \in Int /\ r * k \in Int
        BY <1>2, <2>1, <2>2
      <4>3. QED
        BY <1>4, <2>1, <2>2, <4>1, <4>2 DEF k
    <3>2. QED
      BY <1>2, <2>2, <3>1
  <2>4. Start(t) = t * q + t /\ Start(t + 1) = (t + 1) * q + (t + 1)
    BY <1>2, <1>3, <2>2, <2>3
  <2>5. t * k = t * q + t /\ (t + 1) * q = t * q + q /\ t * q \in Int
    BY <1>2, <2>2
  <2>6. i \in Start(t) .. Start(t + 1) - 1
    BY <1>2, <2>1, <2>2, <2>4, <2>5
  <2>7. t \in 0 .. T - 1
    BY <1>2, <2>2, <2>3
  <2>8. i \in One!Share(j, n, t)
    BY <1>1, <2>6
  <2>9. QED
    BY <2>7, <2>8 DEF T
<1>5. CASE i >= r * (q + 1)
  <2>1. r * (q + 1) = r * q + r /\ r * q \in Nat /\ q * T \in Nat
    BY <1>2
  <2> DEFINE a == i - (r * q + r)
  <2>2. a \in Nat /\ a < q * T - r * q
    BY <1>2, <1>5, <2>1
  <2>3. q # 0
    BY <1>2, <2>2
  <2> DEFINE d == a \div q
  <2>4. d \in Nat /\ d * q <= a /\ a < d * q + q
    <3> HIDE DEF a
    <3>1. d \in Nat /\ a % q \in 0 .. q - 1 /\ a = d * q + (a % q)
      BY <1>2, <2>2, <2>3, DivMod
    <3> HIDE DEF d
    <3>2. d * q \in Nat
      BY <1>2, <3>1
    <3>3. QED
      BY <1>2, <3>1, <3>2
  <2> HIDE DEF d
  <2> DEFINE t == r + d
  <2>5. t \in Nat /\ t >= r /\ t + 1 >= r
    BY <1>2, <2>4
  <2>6. Start(t) = t * q + r /\ Start(t + 1) = (t + 1) * q + r
    <3> HIDE DEF t
    <3>1. t + 1 \in Nat
      BY <2>5
    <3>2. QED
      BY <1>3, <2>5, <3>1
  <2>7. t * q = r * q + d * q /\ (t + 1) * q = r * q + d * q + q /\ d * q \in Int
    BY <1>2, <2>4
  <2>8. i \in Start(t) .. Start(t + 1) - 1
    <3>1. i = a + r * q + r
      BY <1>2, <2>1
    <3> HIDE DEF a, t
    <3>2. QED
      BY <1>2, <2>1, <2>2, <2>4, <2>6, <2>7, <3>1
  <2>9. t < T
    <3>1. CASE t >= T
      <4> HIDE DEF t
      <4>1. t * q >= T * q
        BY <1>2, <2>5, <3>1
      <4>2. T * q = q * T
        BY <1>2
      <4> HIDE DEF a
      <4>3. QED
        BY <1>2, <2>1, <2>2, <2>4, <2>7, <4>1, <4>2
    <3>2. QED
      BY <1>2, <2>5, <3>1
  <2> HIDE DEF t
  <2>10. t \in 0 .. T - 1
    BY <1>2, <2>5, <2>9
  <2>11. i \in One!Share(j, n, t)
    BY <1>1, <2>8
  <2>12. QED
    BY <2>10, <2>11 DEF T
<1>6. r * (q + 1) \in Int
  BY <1>2
<1>7. QED
  BY <1>4, <1>5, <1>6

LEMMA SharesApart ==
  ASSUME NEW j, j.team \in Nat \ {0}, NEW n \in Nat, NEW t \in Nat, NEW u \in Nat, t # u
  PROVE  One!Share(j, n, t) \cap One!Share(j, n, u) = {}
<1> DEFINE T == j.team
           q == n \div T
           r == n % T
           Start(x) == x * q + One!Smaller(x, r)
<1>1. \A x : One!Share(j, n, x) = Start(x) .. Start(x + 1) - 1
  BY DEF One!Share, One!ShareStart
<1>2. T \in Nat \ {0} /\ q \in Nat /\ r \in 0 .. T - 1
  <2>1. T \in Nat \ {0}
    OBVIOUS
  <2> HIDE DEF T
  <2>2. QED
    BY <2>1, DivMod
<1> HIDE DEF T, q, r
<1>3. ASSUME NEW x \in Nat, NEW y \in Nat, x < y
      PROVE  Start(x + 1) <= Start(y)
  <2>1. (x + 1) * q <= y * q /\ (x + 1) * q \in Int /\ y * q \in Int
    BY <1>2, <1>3
  <2>2. One!Smaller(x + 1, r) <= One!Smaller(y, r) /\ One!Smaller(x + 1, r) \in Int /\ One!Smaller(y, r) \in Int
    BY <1>2, <1>3 DEF One!Smaller
  <2>3. QED
    BY <2>1, <2>2
<1>4. \A x \in Nat : Start(x) \in Int /\ Start(x + 1) \in Int
  BY <1>2 DEF One!Smaller
<1> HIDE DEF Start
<1>5. ASSUME NEW x \in Nat, NEW y \in Nat, x < y
      PROVE  One!Share(j, n, x) \cap One!Share(j, n, y) = {}
  <2>1. /\ One!Share(j, n, x) = Start(x) .. Start(x + 1) - 1
        /\ One!Share(j, n, y) = Start(y) .. Start(y + 1) - 1
    BY <1>1
  <2>2. Start(x + 1) <= Start(y)
    BY <1>3, <1>5
  <2> DEFINE a == Start(x)
             b == Start(x + 1)
             c == Start(y)
             d == Start(y + 1)
  <2>3. a \in Int /\ b \in Int /\ c \in Int /\ d \in Int
    BY <1>4
  <2> HIDE DEF a, b, c, d
  <2>4. (a .. b - 1) \cap (c .. d - 1) = {}
    BY <2>2, <2>3 DEF b, c
  <2>5. QED
    BY <2>1, <2>4 DEF a, b, c, d
<1>6. CASE t < u
  BY <1>5, <1>6
<1>7. CASE u < t
  BY <1>5, <1>7
<1>8. QED
  BY <1>6, <1>7

(* Where a length is a multiple of the side of a block, blocks end with it. *)
LEMMA WithinWholeBlock ==
  ASSUME NEW d \in Nat \ {0}, NEW n \in Nat \ {0}, n % d = 0,
         NEW b \in 0 .. (n \div d) - 1, NEW t \in 0 .. d - 1
  PROVE  b * d + t \in 0 .. n - 1
<1> DEFINE q == n \div d
<1>1. q \in Nat /\ n = q * d + (n % d)
  BY DivMod
<1> HIDE DEF q
<1>2. n = q * d
  BY <1>1
<1>3. b \in 0 .. q - 1
  BY DEF q
<1>4. b * d <= (q - 1) * d
  BY <1>1, <1>3
<1>5. (q - 1) * d = q * d - d /\ b * d \in Nat
  BY <1>1, <1>3
<1>6. QED
  BY <1>2, <1>4, <1>5

(* The programs that do not test for the end of a matrix. *)
LEMMA WholeBlocks ==
  ASSUME NEW j, One!Admissible(j), j.kernel.grid = "whole blocks", NEW th \in One!Threads(j)
  PROVE  /\ One!Transposed(j)
         /\ th[1][1] * j.dim + th[2][1] \in 0 .. j.rows - 1 /\ th[1][2] * j.dim + th[2][2] \in 0 .. j.cols - 1
         /\ th[1][1] * j.dim + th[2][2] \in 0 .. j.rows - 1 /\ th[1][2] * j.dim + th[2][1] \in 0 .. j.cols - 1
<1> DEFINE R == 0 .. (j.rows \div j.dim) - 1
           C == 0 .. (j.cols \div j.dim) - 1
           S == 0 .. j.dim - 1
<1>1. One!Threads(j) = (R \X C) \X (S \X S)
  BY DEF One!Threads, One!BlocksAlong, One!Side
<1> HIDE DEF R, C, S
<1>2. th[1][1] \in R /\ th[1][2] \in C /\ th[2][1] \in S /\ th[2][2] \in S
  <2>1. th \in (R \X C) \X (S \X S)
    BY <1>1
  <2>2. th[1] \in R \X C /\ th[2] \in S \X S
    BY <2>1
  <2>3. QED
    BY <2>2
<1>3. /\ j.dim \in Nat \ {0} /\ j.rows \in Nat \ {0} /\ j.cols \in Nat \ {0}
      /\ j.rows % j.dim = 0 /\ j.cols % j.dim = 0
  BY OneSizes DEF One!Admissible
<1>4. One!Transposed(j)
  BY OneKernels DEF One!Transposed
<1> DEFINE d == j.dim
           m == j.rows
           n == j.cols
<1>5. /\ d \in Nat \ {0} /\ m \in Nat \ {0} /\ n \in Nat \ {0} /\ m % d = 0 /\ n % d = 0
      /\ R = 0 .. (m \div d) - 1 /\ C = 0 .. (n \div d) - 1 /\ S = 0 .. d - 1
  BY <1>3 DEF R, C, S
<1> HIDE DEF d, m, n
<1>6. \A b \in R, t \in S : b * d + t \in 0 .. m - 1
  BY ONLY <1>5, WithinWholeBlock
<1>7. \A b \in C, t \in S : b * d + t \in 0 .. n - 1
  BY ONLY <1>5, WithinWholeBlock
<1>8. QED
  BY <1>2, <1>4, <1>6, <1>7 DEF d, m, n

LEMMA StoredInCells ==
  ASSUME NEW j, One!Admissible(j), NEW th \in One!Threads(j)
  PROVE  One!Stored(j, th) \subseteq One!Cells(j)
<1>1. CASE j.kernel.grid # "whole blocks"
  BY <1>1 DEF One!Stored, One!Tested
<1>2. CASE j.kernel.grid = "whole blocks"
  <2> DEFINE place == <<th[1][2] * j.dim + th[2][1], th[1][1] * j.dim + th[2][2]>>
  <2>1. One!Stored(j, th) = {place}
    BY <1>2, WholeBlocks DEF One!Stored, One!Tested, One!InBlock
  <2>2. place \in One!Cells(j)
    BY <1>2, WholeBlocks DEF One!Cells, One!Within
  <2> HIDE DEF place
  <2>3. QED
    BY <2>1, <2>2
<1>3. QED
  BY <1>1, <1>2

LEMMA LoadedInMatrix ==
  ASSUME NEW j, One!Admissible(j), NEW th \in One!Threads(j)
  PROVE  One!Loaded(j, th) \subseteq One!Within(j.rows, j.cols)
<1>1. CASE j.kernel.grid # "whole blocks"
  BY <1>1 DEF One!Loaded, One!Tested
<1>2. CASE j.kernel.grid = "whole blocks"
  <2> DEFINE place == <<th[1][1] * j.dim + th[2][1], th[1][2] * j.dim + th[2][2]>>
  <2>1. One!Loaded(j, th) = {place}
    BY <1>2 DEF One!Loaded, One!Tested, One!InBlock
  <2>2. place \in One!Within(j.rows, j.cols)
    BY <1>2, WholeBlocks DEF One!Within
  <2> HIDE DEF place
  <2>3. QED
    BY <2>1, <2>2
<1>3. QED
  BY <1>1, <1>2

LEMMA OneLoads ==
  ASSUME NEW j, One!Admissible(j), NEW th \in One!Threads(j)
  PROVE  LET loads == One!Plan(j).loads[th] IN
         /\ Len(j.kernel.code) = 1 => DOMAIN loads = {}
         /\ Len(j.kernel.code) # 1 /\ j.kernel.grid = "team" =>
              /\ th[1] = 0 /\ th[2] \in Nat /\ th = <<th[1], th[2]>>
              /\ DOMAIN loads = ElementsIn(j, One!Loaded(j, th))
              /\ \A e \in DOMAIN loads : loads[e] = e
         /\ Len(j.kernel.code) # 1 /\ j.kernel.grid # "team" =>
              /\ th = <<th[1], th[2]>> /\ th[2] \in One!TileCells(j)
              /\ DOMAIN loads = {q \in {th[2]} : One!Loaded(j, th) # {}}
              /\ \A q \in DOMAIN loads :
                   loads[q] = <<1, One!InBlock(j, th[1], th)[1], One!InBlock(j, th[1], th)[2]>>
<1> DEFINE loads == One!Plan(j).loads[th]
<1>1. loads = IF Len(j.kernel.code) = 1 THEN <<>> ELSE One!LoadsOf(j, th)
  BY OnePlan
<1>2. DOMAIN <<>> = {}
  OBVIOUS
<1>3. j.kernel.grid = "team" => th[1] = 0 /\ th[2] \in Nat /\ th = <<th[1], th[2]>>
  BY DEF One!Threads
<1>4. ASSUME Len(j.kernel.code) # 1, j.kernel.grid # "team"
      PROVE  th = <<th[1], th[2]>> /\ th[2] \in One!TileCells(j)
  <2>1. j.kernel.grid \in {"blocks", "whole blocks"}
    BY <1>4, OneKernels
  <2>2. \E blocks : th \in blocks \X One!TileCells(j)
    <3>1. One!Threads(j) =
            ((0 .. One!BlocksAlong(j, j.rows) - 1) \X (0 .. One!BlocksAlong(j, j.cols) - 1))
               \X One!TileCells(j)
      BY <2>1 DEF One!Threads, One!TileCells
    <3>2. QED
      BY <3>1
  <2>3. QED
    BY <2>2
<1> HIDE DEF loads
<1>5. Len(j.kernel.code) = 1 => DOMAIN loads = {}
  BY <1>1, <1>2
<1>6. ASSUME Len(j.kernel.code) # 1, j.kernel.grid = "team"
      PROVE  /\ DOMAIN loads = ElementsIn(j, One!Loaded(j, th))
             /\ \A e \in DOMAIN loads : loads[e] = e
  <2> DEFINE D == ElementsIn(j, One!Loaded(j, th))
  <2>1. loads = [e \in D |-> e]
    BY <1>1, <1>6 DEF One!LoadsOf, ElementsIn
  <2> HIDE DEF D
  <2>2. DOMAIN loads = D /\ \A e \in DOMAIN loads : loads[e] = e
    BY <2>1
  <2>3. QED
    BY <2>2 DEF D
<1>7. ASSUME Len(j.kernel.code) # 1, j.kernel.grid # "team"
      PROVE  /\ DOMAIN loads = {q \in {th[2]} : One!Loaded(j, th) # {}}
             /\ \A q \in DOMAIN loads :
                  loads[q] = <<1, One!InBlock(j, th[1], th)[1], One!InBlock(j, th[1], th)[2]>>
  BY <1>1, <1>7 DEF One!LoadsOf, One!A
<1>8. QED
  BY <1>3, <1>4, <1>5, <1>6, <1>7 DEF loads

LEMMA OneShares ==
  ASSUME NEW j, One!Admissible(j)
  PROVE  SoundShares(One!Plan(j), One!Plan(j).loads) /\ SoundShares(One!Plan(j), One!Plan(j).ahead)
<1> DEFINE p == One!Plan(j)
<1>1. p.threads = One!Threads(j)
  BY OnePlan
<1>2. \A th \in p.threads : DOMAIN p.ahead[th] = {}
  <2>1. DOMAIN <<>> = {}
    OBVIOUS
  <2>2. \A th \in One!Threads(j) : p.ahead[th] = <<>>
    BY OnePlan
  <2> HIDE DEF p
  <2>3. QED
    BY <1>1, <2>1, <2>2
<1>3. ASSUME NEW th \in p.threads
      PROVE  DOMAIN p.loads[th] \subseteq p.array
  <2>1. th \in One!Threads(j)
    BY <1>1
  <2>2. CASE Len(j.kernel.code) = 1
    BY <2>1, <2>2, OneLoads
  <2>3. CASE Len(j.kernel.code) # 1 /\ j.kernel.grid = "team"
    <3>1. p.array = ElementsIn(j, One!Within(j.rows, j.cols))
      BY <2>3, OnePlan
    <3>2. One!Loaded(j, th) \subseteq One!Within(j.rows, j.cols)
      BY <2>3 DEF One!Loaded
    <3>3. DOMAIN p.loads[th] = ElementsIn(j, One!Loaded(j, th))
      BY <2>1, <2>3, OneLoads
    <3> HIDE DEF p
    <3>4. ElementsIn(j, One!Loaded(j, th)) \subseteq ElementsIn(j, One!Within(j.rows, j.cols))
      BY <3>2 DEF ElementsIn
    <3>5. QED
      BY <3>1, <3>3, <3>4
  <2>4. CASE Len(j.kernel.code) # 1 /\ j.kernel.grid # "team"
    <3>1. DOMAIN p.loads[th] \subseteq {th[2]} /\ th[2] \in One!TileCells(j)
      BY <2>1, <2>4, OneLoads
    <3>2. p.array = One!TileCells(j)
      BY <2>4, OnePlan
    <3> HIDE DEF p
    <3>3. QED
      BY <3>1, <3>2
  <2>5. QED
    BY <2>2, <2>3, <2>4
<1>4. ASSUME NEW th \in p.threads, NEW u \in p.threads, th # u, th[1] = u[1]
      PROVE  DOMAIN p.loads[th] \cap DOMAIN p.loads[u] = {}
  <2>1. th \in One!Threads(j) /\ u \in One!Threads(j)
    BY <1>1
  <2>2. CASE Len(j.kernel.code) = 1
    BY <2>1, <2>2, OneLoads
  <2>3. CASE Len(j.kernel.code) # 1 /\ j.kernel.grid = "team"
    <3>1. th[2] \in Nat /\ u[2] \in Nat /\ th[2] # u[2]
      <4>1. /\ th[2] \in Nat /\ th = <<th[1], th[2]>> 
            /\ u[2] \in Nat /\ u = <<u[1], u[2]>>
        BY <2>1, <2>3, OneLoads
      <4>2. QED
        BY <1>4, <4>1
    <3>2. ASSUME NEW c \in One!Loaded(j, th), NEW d \in One!Loaded(j, u)
          PROVE  c[1] # d[1] \/ c[2] # d[2]
      <4> DEFINE n == j.rows * j.cols
      <4>1. n \in Nat /\ j.rows \in Nat /\ j.team \in Nat \ {0}
        BY OneSizes
      <4>2. /\ One!Share(j, n, th[2]) \cap One!Share(j, n, u[2]) = {}
            /\ One!Share(j, j.rows, th[2]) \cap One!Share(j, j.rows, u[2]) = {}
        <5> HIDE DEF n
        <5>1. QED
          BY <3>1, <4>1, SharesApart
      <4>3. CASE One!Transposed(j)
        <5>1. /\ c[1] * j.cols + c[2] \in One!Share(j, n, th[2])
              /\ d[1] * j.cols + d[2] \in One!Share(j, n, u[2])
          BY <2>3, <3>2, <4>3 DEF One!Loaded
        <5>2. QED
          BY <4>2, <5>1
      <4>4. CASE ~One!Transposed(j)
        <5>1. c[1] \in One!Share(j, j.rows, th[2]) /\ d[1] \in One!Share(j, j.rows, u[2])
          BY <2>3, <3>2, <4>4 DEF One!Loaded
        <5>2. QED
          BY <4>2, <5>1
      <4>5. QED
        BY <4>3, <4>4
    <3>3. /\ DOMAIN p.loads[th] = ElementsIn(j, One!Loaded(j, th))
          /\ DOMAIN p.loads[u] = ElementsIn(j, One!Loaded(j, u))
      BY <2>1, <2>3, OneLoads
    <3> HIDE DEF p
    <3>4. ASSUME NEW e \in ElementsIn(j, One!Loaded(j, th)), e \in ElementsIn(j, One!Loaded(j, u))
          PROVE  FALSE
      <4>1. PICK m \in One!Matrices(j), c \in One!Loaded(j, th) : e = <<m, c[1], c[2]>>
        BY <3>4 DEF ElementsIn
      <4>2. PICK k \in One!Matrices(j), d \in One!Loaded(j, u) : e = <<k, d[1], d[2]>>
        BY <3>4 DEF ElementsIn
      <4>3. c[1] = d[1] /\ c[2] = d[2]
        BY <4>1, <4>2
      <4>4. QED
        BY <3>2, <4>3
    <3>5. QED
      BY <3>3, <3>4
  <2>4. CASE Len(j.kernel.code) # 1 /\ j.kernel.grid # "team"
    <3>1. /\ th = <<th[1], th[2]>> /\ u = <<u[1], u[2]>>
          /\ DOMAIN p.loads[th] \subseteq {th[2]} /\ DOMAIN p.loads[u] \subseteq {u[2]}
      BY <2>1, <2>4, OneLoads
    <3> HIDE DEF p
    <3>2. th[2] # u[2]
      BY <1>4, <3>1
    <3>3. QED
      BY <3>1, <3>2
  <2>5. QED
    BY <2>2, <2>3, <2>4
<1> HIDE DEF p
<1>5. SoundShares(p, p.loads) /\ SoundShares(p, p.ahead)
  BY <1>2, <1>3, <1>4 DEF SoundShares
<1>6. QED
  BY <1>5 DEF p

(* The terms of the loops of a team are elements of its matrices. *)
LEMMA TermsInMatrices ==
  ASSUME NEW j, One!Admissible(j), j.kernel.grid = "team", NEW c \in One!Cells(j),
         NEW t \in DOMAIN One!Terms(j, c)
  PROVE  \E m \in One!Matrices(j), d \in One!Within(j.rows, j.cols) :
           One!Terms(j, c)[t] = <<m, d[1], d[2]>>
<1>1. CASE j.kernel.terms = "transposed"
  <2>1. /\ One!Terms(j, c) = [i \in {1} \X {0} |-> <<1, c[2], c[1]>>]
        /\ c \in One!Within(j.cols, j.rows) /\ One!Matrices(j) = {1}
    BY <1>1 DEF One!Terms, One!Cells, One!Transposed, One!Matrices, One!A
  <2>2. <<c[2], c[1]>> \in One!Within(j.rows, j.cols)
    BY <2>1 DEF One!Within
  <2> DEFINE d == <<c[2], c[1]>>
  <2>3. d \in One!Within(j.rows, j.cols) /\ One!Terms(j, c)[t] = <<1, d[1], d[2]>>
    BY <2>1, <2>2
  <2> HIDE DEF d
  <2>4. QED
    BY <2>1, <2>3
<1>2. CASE j.kernel.terms = "product" /\ j.depth = j.rows /\ j.cols = j.rows
  <2> DEFINE K == 0 .. j.depth - 1
             d == IF t[1] = 1 THEN <<c[1], t[2]>> ELSE <<t[2], c[2]>>
             m == IF t[1] = 1 THEN 1 ELSE 2
  <2>1. /\ One!Terms(j, c) =
             [i \in {1, 2} \X K |-> IF i[1] = 1 THEN <<1, c[1], i[2]>> ELSE <<2, i[2], c[2]>>]
        /\ c \in One!Within(j.rows, j.cols) /\ One!Matrices(j) = {1, 2}
    BY <1>2 DEF One!Terms, One!Products, One!Cells, One!Transposed, One!Matrices, One!A, One!B
  <2>2. t \in {1, 2} \X K /\ One!Terms(j, c)[t] = <<m, d[1], d[2]>>
    BY <2>1
  <2>3. d \in One!Within(j.rows, j.cols) /\ m \in One!Matrices(j)
    BY <1>2, <2>1, <2>2 DEF One!Within
  <2> HIDE DEF d, m
  <2>4. QED
    BY <2>2, <2>3
<1>3. QED
  BY <1>1, <1>2, OneKernels
(* A term of an output is found where its thread reads it. *)
LEMMA OneFinds ==
  ASSUME NEW j, One!Admissible(j), NEW th \in One!Threads(j), NEW c \in One!Stored(j, th),
         NEW t \in DOMAIN One!Terms(j, c)
  PROVE  Finds(One!Plan(j), th, One!SourceOf(j, th, One!Terms(j, c)[t]), One!Terms(j, c)[t])
<1> DEFINE p == One!Plan(j)
           e == One!Terms(j, c)[t]
<1>1. p.threads = One!Threads(j) /\ p.code = j.kernel.code
  BY OnePlan
<1>2. c \in One!Cells(j)
  BY StoredInCells
<1>3. CASE Len(j.kernel.code) = 1
  <2> HIDE DEF p, e
  <2>1. One!SourceOf(j, th, e) = FromGlobal(e)
    <3>1. j.kernel.grid # "team"
      BY <1>3, OneKernels
    <3>2. QED
      BY <1>3, <3>1 DEF One!SourceOf, FromGlobal
  <2>2. Finds(p, th, One!SourceOf(j, th, e), e)
    BY <2>1 DEF Finds
  <2>3. QED
    BY <2>2 DEF p, e
<1>4. CASE Len(j.kernel.code) # 1 /\ j.kernel.grid = "team"
  <2>1. PICK m \in One!Matrices(j), d \in One!Within(j.rows, j.cols) : e = <<m, d[1], d[2]>>
    BY <1>2, <1>4, TermsInMatrices
  <2> HIDE DEF p, e
  <2>2. d[1] \in 0 .. j.rows - 1 /\ d[2] \in 0 .. j.cols - 1
    BY DEF One!Within
  <2>3. \E s \in 0 .. j.team - 1 : d \in One!Loaded(j, <<0, s>>)
    <3>1. j.rows \in Nat \ {0} /\ j.cols \in Nat \ {0} /\ j.team \in Nat \ {0}
      BY OneSizes
    <3>2. CASE One!Transposed(j)
      <4> DEFINE n == j.rows * j.cols
                 i == d[1] * j.cols + d[2]
      <4>1. n \in Nat /\ i \in 0 .. n - 1
        <5> DEFINE R == j.rows
                   C == j.cols
                   a == d[1]
                   b == d[2]
        <5>1. R \in Nat \ {0} /\ C \in Nat \ {0} /\ a \in 0 .. R - 1 /\ b \in 0 .. C - 1
          BY <2>2, <3>1
        <5> HIDE DEF R, C, a, b
        <5>2. a * C <= (R - 1) * C /\ (R - 1) * C = R * C - C /\ a * C \in Nat /\ R * C \in Nat
          BY <5>1
        <5>3. R * C \in Nat /\ a * C + b \in 0 .. R * C - 1
          BY <5>1, <5>2
        <5>4. QED
          BY <5>3 DEF R, C, a, b
      <4> HIDE DEF n, i
      <4>2. PICK s \in 0 .. j.team - 1 : i \in One!Share(j, n, s)
        BY <3>1, <4>1, SharesCover
      <4>3. d \in One!Loaded(j, <<0, s>>)
        BY <1>4, <3>2, <4>2 DEF One!Loaded, n, i
      <4>4. QED
        BY <4>3
    <3>3. CASE ~One!Transposed(j)
      <4> DEFINE i == d[1]
                 n == j.rows
      <4>1. n \in Nat /\ i \in 0 .. n - 1
        BY <2>2, <3>1
      <4> HIDE DEF n, i
      <4>2. PICK s \in 0 .. j.team - 1 : i \in One!Share(j, n, s)
        BY <3>1, <4>1, SharesCover
      <4>3. d \in One!Loaded(j, <<0, s>>)
        BY <1>4, <3>3, <4>2 DEF One!Loaded, n, i
      <4>4. QED
        BY <4>3
    <3>4. QED
      BY <3>2, <3>3
  <2>4. PICK s \in 0 .. j.team - 1 : d \in One!Loaded(j, <<0, s>>)
    BY <2>3
  <2> DEFINE u == <<0, s>>
  <2>5. u \in One!Threads(j) /\ u[1] = 0 /\ th[1] = 0
    BY <1>4 DEF One!Threads
  <2>6. d \in One!Loaded(j, u)
    BY <2>4
  <2> HIDE DEF u
  <2>7. /\ DOMAIN p.loads[u] = ElementsIn(j, One!Loaded(j, u))
        /\ \A x \in DOMAIN p.loads[u] : p.loads[u][x] = x
    BY <1>4, <2>5, OneLoads DEF p
  <2>8. e \in DOMAIN p.loads[u] /\ p.loads[u][e] = e
    <3>1. e \in ElementsIn(j, One!Loaded(j, u))
      BY <2>1, <2>6 DEF ElementsIn
    <3>2. QED
      BY <2>7, <3>1
  <2>9. One!SourceOf(j, th, e) = FromWindow(e)
    BY <1>4 DEF One!SourceOf, FromWindow
  <2>10. \E l \in DOMAIN p.code : p.code[l] = "load"
    BY <1>1, <1>4, OneKernels
  <2>11. Finds(p, th, One!SourceOf(j, th, e), e)
    BY <1>1, <2>5, <2>8, <2>9, <2>10 DEF Finds
  <2>12. QED
    BY <2>11 DEF p, e
<1>5. CASE Len(j.kernel.code) # 1 /\ j.kernel.grid # "team"
  <2>1. j.kernel.grid \in {"blocks", "whole blocks"} /\ j.kernel.terms = "transposed"
    BY <1>5, OneKernels
  <2>2. One!Transposed(j)
    BY <2>1 DEF One!Transposed
  <2> DEFINE R == 0 .. One!BlocksAlong(j, j.rows) - 1
             C == 0 .. One!BlocksAlong(j, j.cols) - 1
             S == One!Side(j)
             u == <<th[1], <<th[2][2], th[2][1]>>>>
             place == One!InBlock(j, u[1], u)
  <2>3. One!Threads(j) = (R \X C) \X (S \X S)
    BY <2>1 DEF One!Threads
  <2>4. th[1] \in R \X C /\ th[2][1] \in S /\ th[2][2] \in S
    <3> HIDE DEF R, C, S
    <3>1. QED
      BY <2>3
  <2>5. u \in One!Threads(j) /\ u[1] = th[1] /\ u[2] = <<th[2][2], th[2][1]>>
    <3> HIDE DEF R, C, S
    <3>1. QED
      BY <2>3, <2>4
  <2>6. c[1] = th[1][2] * j.dim + th[2][1] /\ c[2] = th[1][1] * j.dim + th[2][2]
    <3>1. c = One!InBlock(j, <<th[1][2], th[1][1]>>, th)
      BY <2>1, <2>2 DEF One!Stored, One!Tested
    <3>2. QED
      BY <3>1 DEF One!InBlock
  <2>7. place = <<c[2], c[1]>>
    BY <2>6 DEF One!InBlock
  <2>8. e = <<1, c[2], c[1]>>
    BY <2>1 DEF One!Terms, One!A
  <2>9. One!Loaded(j, u) # {}
    <3>1. c[1] \in 0 .. j.cols - 1 /\ c[2] \in 0 .. j.rows - 1
      BY <1>2, <2>2 DEF One!Cells, One!Within
    <3>2. <<c[2], c[1]>> \in One!Within(j.rows, j.cols)
      BY <3>1 DEF One!Within
    <3>3. One!Loaded(j, u) = One!Tested(j, {place}, One!Within(j.rows, j.cols))
      BY <1>5 DEF One!Loaded
    <3> HIDE DEF place, u
    <3>4. QED
      BY <2>7, <3>2, <3>3 DEF One!Tested
  <2> HIDE DEF R, C, S, u, p, e
  <2>10. /\ DOMAIN p.loads[u] = {q \in {u[2]} : One!Loaded(j, u) # {}}
         /\ \A q \in DOMAIN p.loads[u] : p.loads[u][q] = <<1, place[1], place[2]>>
    BY <1>5, <2>5, OneLoads DEF p
  <2> HIDE DEF place
  <2>11. u[2] \in DOMAIN p.loads[u] /\ p.loads[u][u[2]] = e
    BY <2>7, <2>8, <2>9, <2>10
  <2>12. One!SourceOf(j, th, e) = FromWindow(u[2])
    BY <1>5, <2>5 DEF One!SourceOf, FromWindow
  <2>13. \E l \in DOMAIN p.code : p.code[l] = "load"
    BY <1>1, <1>5, OneKernels
  <2>14. Finds(p, th, One!SourceOf(j, th, e), e)
    BY <1>1, <2>5, <2>11, <2>12, <2>13 DEF Finds
  <2>15. QED
    BY <2>14 DEF p, e
<1>6. QED
  BY <1>3, <1>4, <1>5

LEMMA OneOutputSound ==
  ASSUME NEW j, One!Admissible(j), NEW th \in One!Threads(j),
         NEW o \in DOMAIN One!Plan(j).taps[1][th] \cap DOMAIN One!Plan(j).image
  PROVE  SoundOutput(One!Plan(j), th, o)
<1> DEFINE p == One!Plan(j)
           pixel == One!Terms(j, o)
           source == [t \in DOMAIN pixel |-> One!SourceOf(j, th, pixel[t])]
<1>1. o \in One!Stored(j, th) /\ p.taps[1][th][o] = source
  <2>1. p.taps[1][th] = [c \in One!Stored(j, th) |-> [t \in DOMAIN One!Terms(j, c) |->
                           One!SourceOf(j, th, One!Terms(j, c)[t])]]
    BY OnePlan
  <2>2. o \in DOMAIN p.taps[1][th]
    OBVIOUS
  <2> HIDE DEF p
  <2>3. QED
    BY <2>1, <2>2
<1>2. p.image[o] = {<<t, pixel[t]>> : t \in DOMAIN pixel}
  <2>1. p.image = [c \in One!Cells(j) |-> {<<t, One!Terms(j, c)[t]>> : t \in DOMAIN One!Terms(j, c)}]
    BY OnePlan
  <2>2. o \in DOMAIN p.image
    OBVIOUS
  <2> HIDE DEF p
  <2>3. QED
    BY <2>1, <2>2
<1>3. \A t \in DOMAIN pixel : Finds(p, th, One!SourceOf(j, th, pixel[t]), pixel[t])
  BY <1>1, OneFinds
<1> HIDE DEF p, pixel
<1>4. DOMAIN source = DOMAIN pixel /\ \A t \in DOMAIN pixel : Finds(p, th, source[t], pixel[t])
  BY <1>3
<1> HIDE DEF source
<1>5. SoundOutput(p, th, o)
  BY <1>1, <1>2, <1>4 DEF SoundOutput
<1>6. QED
  BY <1>5 DEF p

(* A coordinate lies in a block of an even division. *)
LEMMA LinePlace ==
  ASSUME NEW d \in Nat \ {0}, NEW n \in Nat \ {0}, NEW k \in 0 .. n - 1
  PROVE  /\ k \div d \in 0 .. One!CeilDiv(n, d) - 1
         /\ k % d \in 0 .. d - 1 /\ k = (k \div d) * d + (k % d)
         /\ n % d = 0 => One!CeilDiv(n, d) = n \div d
<1> DEFINE a == n + d - 1
           c == a \div d
           b == k \div d
           q == n \div d
<1>1. a \in Nat /\ k \in Nat /\ n \in Nat
  OBVIOUS
<1>2. b \in Nat /\ k % d \in 0 .. d - 1 /\ k = b * d + (k % d)
  BY <1>1, DivMod
<1>3. q \in Nat /\ n % d \in 0 .. d - 1 /\ n = q * d + (n % d)
  BY <1>1, DivMod
<1>4. c \in Nat /\ a % d \in 0 .. d - 1 /\ a = c * d + (a % d)
  <2> HIDE DEF a
  <2>1. QED
    BY <1>1, DivMod
<1> HIDE DEF c, b, q
<1>5. b * d \in Int /\ c * d \in Int /\ q * d \in Int
  BY <1>2, <1>3, <1>4
<1>6. b < c
  <2>1. b * d < c * d
    BY <1>2, <1>4, <1>5
  <2>2. CASE c <= b
    <3>1. c * d <= b * d
      BY <1>2, <1>4, <2>2
    <3>2. QED
      BY <1>5, <2>1, <3>1
  <2>3. QED
    BY <1>2, <1>4, <2>2
<1>7. ASSUME n % d = 0
      PROVE  c = q
  <2> DEFINE r == a % d
             z == d - 1
  <2>1. z \in 0 .. d - 1 /\ r \in 0 .. d - 1
    BY <1>4
  <2> HIDE DEF r
  <2>2. q * d + z = c * d + r
    BY <1>3, <1>4, <1>5, <1>7 DEF r
  <2>3. /\ d \in Nat \ {0} /\ q \in Nat /\ c \in Nat /\ z \in 0 .. d - 1 /\ r \in 0 .. d - 1
        /\ q * d + z = c * d + r
    BY <1>3, <1>4, <2>1, <2>2
  <2> HIDE DEF z
  <2>4. QED
    BY ONLY <2>3, PairUnique
<1>8. b \in 0 .. c - 1
  BY <1>2, <1>4, <1>6
<1>9. QED
  BY <1>2, <1>7, <1>8 DEF One!CeilDiv, a, b, c, q
LEMMA EvenBlocks ==
  ASSUME NEW d \in Nat \ {0}, NEW n \in Nat \ {0}, n % d = 0
  PROVE  One!CeilDiv(n, d) = n \div d
<1> DEFINE k == n - 1
<1>1. k \in 0 .. n - 1
  OBVIOUS
<1> HIDE DEF k
<1>2. QED
  BY <1>1, LinePlace

LEMMA CellCoordinates ==
  ASSUME NEW j, NEW c \in One!Cells(j)
  PROVE  /\ c = <<c[1], c[2]>>
         /\ One!Transposed(j) => c[1] \in 0 .. j.cols - 1 /\ c[2] \in 0 .. j.rows - 1
         /\ ~One!Transposed(j) => c[1] \in 0 .. j.rows - 1 /\ c[2] \in 0 .. j.cols - 1
<1> DEFINE R == 0 .. j.rows - 1
           C == 0 .. j.cols - 1
<1>1. CASE One!Transposed(j)
  <2>1. c \in C \X R
    BY <1>1 DEF One!Cells, One!Within
  <2> HIDE DEF R, C
  <2>2. c = <<c[1], c[2]>> /\ c[1] \in C /\ c[2] \in R
    BY <2>1
  <2>3. QED
    BY <1>1, <2>2 DEF R, C
<1>2. CASE ~One!Transposed(j)
  <2>1. c \in R \X C
    BY <1>2 DEF One!Cells, One!Within
  <2> HIDE DEF R, C
  <2>2. c = <<c[1], c[2]>> /\ c[1] \in R /\ c[2] \in C
    BY <2>1
  <2>3. QED
    BY <1>2, <2>2 DEF R, C
<1>3. QED
  BY <1>1, <1>2

LEMMA NaturalCoordinates ==
  ASSUME NEW j, One!Admissible(j), NEW c \in One!Cells(j)
  PROVE  c[1] \in Nat /\ c[2] \in Nat
<1>1. j.rows \in Nat \ {0} /\ j.cols \in Nat \ {0}
  BY OneSizes
<1>2. \A k \in 0 .. j.rows - 1 : k \in Nat
  BY <1>1
<1>3. \A k \in 0 .. j.cols - 1 : k \in Nat
  BY <1>1
<1>4. CASE One!Transposed(j)
  BY <1>2, <1>3, <1>4, CellCoordinates
<1>5. CASE ~One!Transposed(j)
  BY <1>2, <1>3, <1>5, CellCoordinates
<1>6. QED
  BY <1>4, <1>5

(* Every cell of the output is stored by some thread. *)
LEMMA StoredInLine ==
  ASSUME NEW j, One!Admissible(j), j.kernel.grid = "line", NEW c \in One!Cells(j)
  PROVE  \E th \in One!Threads(j) : c \in One!Stored(j, th)
<1> DEFINE R == j.rows
           C == j.cols
           D == j.dim
           n == R * C
           a == c[1]
           b == c[2]
           i == a * C + b
           th == <<i \div D, i % D>>
<1>1. R \in Nat \ {0} /\ C \in Nat \ {0} /\ D \in Nat \ {0}
  BY OneSizes
<1>2. a \in 0 .. R - 1 /\ b \in 0 .. C - 1 /\ c = <<a, b>>
  <2>1. ~One!Transposed(j)
    BY OneKernels DEF One!Transposed
  <2>2. QED
    BY <2>1, CellCoordinates
<1>3. n \in Nat \ {0} /\ i \in 0 .. n - 1
  <2> HIDE DEF R, C, a, b
  <2>1. a * C <= (R - 1) * C /\ (R - 1) * C = R * C - C /\ a * C \in Nat /\ R * C \in Nat
    BY <1>1, <1>2
  <2>2. QED
    BY <1>1, <1>2, <2>1
<1> HIDE DEF n
<1>4. One!Threads(j) = (0 .. One!CeilDiv(n, D) - 1) \X (0 .. D - 1)
  BY DEF One!Threads, One!Side, n
<1>5. i \div D \in 0 .. One!CeilDiv(n, D) - 1 /\ i % D \in 0 .. D - 1 /\ i = (i \div D) * D + (i % D)
  <2> HIDE DEF i, D
  <2>1. QED
    BY <1>1, <1>3, LinePlace
<1>6. i \div C = a /\ i % C = b
  <2> DEFINE p == i \div C
             r == i % C
  <2> HIDE DEF R, C, a, b
  <2>1. i \in Nat
    BY <1>3
  <2>2. p \in Nat /\ r \in 0 .. C - 1 /\ a * C + b = p * C + r
    BY <1>1, <2>1, DivMod
  <2>3. C \in Nat \ {0} /\ a \in Nat /\ p \in Nat /\ b \in 0 .. C - 1 /\ r \in 0 .. C - 1 /\ a * C + b = p * C + r
    BY <1>1, <1>2, <2>2
  <2> HIDE DEF p, r
  <2>4. a = p /\ b = r
    BY ONLY <2>3, PairUnique
  <2>5. QED
    BY <2>4 DEF p, r
<1>7. One!InLine(j, th) = c
  <2>1. th[1] = i \div D /\ th[2] = i % D
    OBVIOUS
  <2> DEFINE m == th[1] * D + th[2]
  <2>2. m = i
    BY <1>5
  <2>3. One!InLine(j, th) = <<m \div C, m % C>>
    BY DEF One!InLine
  <2> HIDE DEF m, i, C, a, b
  <2>4. QED
    BY <1>2, <1>6, <2>2, <2>3
<1>8. th \in One!Threads(j)
  <2> HIDE DEF i, D
  <2>1. QED
    BY <1>4, <1>5
<1> HIDE DEF th
<1>9. One!Stored(j, th) = {One!InLine(j, th)} \cap One!Cells(j)
  BY DEF One!Stored, One!Tested
<1>10. QED
  BY <1>7, <1>8, <1>9

LEMMA StoredByTeam ==
  ASSUME NEW j, One!Admissible(j), j.kernel.grid = "team", NEW c \in One!Cells(j)
  PROVE  \E th \in One!Threads(j) : c \in One!Stored(j, th)
<1> DEFINE k == IF One!Transposed(j) THEN c[2] ELSE c[1]
           D == j.dim
           b == k \div D
           n == One!BlocksAlong(j, j.rows)
<1>1. D \in Nat \ {0} /\ j.rows \in Nat \ {0} /\ j.team \in Nat \ {0}
  BY OneSizes
<1>2. k \in 0 .. j.rows - 1
  BY CellCoordinates
<1>3. n = One!CeilDiv(j.rows, D)
  BY DEF One!BlocksAlong
<1> HIDE DEF k, D, n
<1> DEFINE rows == j.rows
<1>4. b \in 0 .. n - 1
  <2>1. D \in Nat \ {0} /\ rows \in Nat \ {0} /\ k \in 0 .. rows - 1 /\ n = One!CeilDiv(rows, D)
    BY <1>1, <1>2, <1>3
  <2> HIDE DEF rows
  <2>2. QED
    BY ONLY <2>1, LinePlace DEF b
<1>5. n \in Nat
  <2> DEFINE a == rows + D - 1
  <2>1. a \in Nat
    BY <1>1
  <2> HIDE DEF a
  <2>2. a \div D \in Nat
    BY <1>1, <2>1, DivMod
  <2>3. QED
    BY <1>3, <2>2 DEF One!CeilDiv, a
<1> HIDE DEF b
<1>6. PICK s \in 0 .. j.team - 1 : b \in One!Share(j, n, s)
  BY <1>1, <1>4, <1>5, SharesCover
<1> DEFINE th == <<0, s>>
<1>7. th \in One!Threads(j) /\ th[2] = s
  BY DEF One!Threads
<1> HIDE DEF th
<1>8. c \in One!Stored(j, th)
  BY <1>6, <1>7 DEF One!Stored, One!Tested, b, k, D, n
<1>9. QED
  BY <1>7, <1>8

LEMMA StoredInBlock ==
  ASSUME NEW j, One!Admissible(j), j.kernel.grid \in {"blocks", "whole blocks"}, NEW c \in One!Cells(j)
  PROVE  \E th \in One!Threads(j) : c \in One!Stored(j, th)
<1> DEFINE D == j.dim
           Rows == 0 .. One!BlocksAlong(j, j.rows) - 1
           Cols == 0 .. One!BlocksAlong(j, j.cols) - 1
           S == One!Side(j)
           a == c[1]
           b == c[2]
<1>1. D \in Nat \ {0} /\ j.rows \in Nat \ {0} /\ j.cols \in Nat \ {0} /\ S = 0 .. D - 1
  BY OneSizes DEF One!Side
<1>2. /\ c = <<a, b>>
      /\ IF One!Transposed(j) THEN a \in 0 .. j.cols - 1 /\ b \in 0 .. j.rows - 1
         ELSE a \in 0 .. j.rows - 1 /\ b \in 0 .. j.cols - 1
  BY CellCoordinates
<1>3. One!Threads(j) = (Rows \X Cols) \X (S \X S)
  BY DEF One!Threads
<1>4. \A n \in {j.rows, j.cols} : One!BlocksAlong(j, n) = One!CeilDiv(n, D)
  <2>1. j.kernel.grid = "whole blocks" => j.rows % D = 0 /\ j.cols % D = 0
    BY DEF One!Admissible
  <2> HIDE DEF D
  <2>2. \A n \in {j.rows, j.cols} : n % D = 0 => One!CeilDiv(n, D) = n \div D
    BY <1>1, EvenBlocks
  <2>3. QED
    BY <2>1, <2>2 DEF One!BlocksAlong, D
<1>5. \A n \in {j.rows, j.cols}, k \in Nat : k \in 0 .. n - 1 =>
        /\ k \div D \in 0 .. One!BlocksAlong(j, n) - 1
        /\ k % D \in S /\ (k \div D) * D + (k % D) = k
  <2> HIDE DEF D, S
  <2> TAKE n \in {j.rows, j.cols}, k \in Nat
  <2> HAVE k \in 0 .. n - 1
  <2>1. n \in Nat \ {0}
    BY <1>1
  <2>2. /\ k \div D \in 0 .. One!CeilDiv(n, D) - 1
        /\ k % D \in 0 .. D - 1 /\ k = (k \div D) * D + (k % D)
    BY <1>1, <2>1, LinePlace
  <2>3. QED
    BY <1>1, <1>4, <2>2
<1> HIDE DEF D, S
<1>6. a \in Nat /\ b \in Nat
  BY NaturalCoordinates
<1> DEFINE place == <<a \div D, b \div D>>
           block == IF One!Transposed(j) THEN <<b \div D, a \div D>> ELSE place
           th == <<block, <<a % D, b % D>>>>
<1>7. /\ (a \div D) * D + (a % D) = a /\ (b \div D) * D + (b % D) = b
      /\ block \in Rows \X Cols /\ <<a % D, b % D>> \in S \X S
  <2> HIDE DEF a, b
  <2>1. CASE One!Transposed(j)
    <3>1. /\ a \div D \in Cols /\ a % D \in S /\ (a \div D) * D + (a % D) = a
          /\ b \div D \in Rows /\ b % D \in S /\ (b \div D) * D + (b % D) = b
      BY <1>2, <1>5, <1>6, <2>1
    <3> HIDE DEF Rows, Cols
    <3>2. QED
      BY <2>1, <3>1
  <2>2. CASE ~One!Transposed(j)
    <3>1. /\ a \div D \in Rows /\ a % D \in S /\ (a \div D) * D + (a % D) = a
          /\ b \div D \in Cols /\ b % D \in S /\ (b \div D) * D + (b % D) = b
      BY <1>2, <1>5, <1>6, <2>2
    <3> HIDE DEF Rows, Cols
    <3>2. QED
      BY <2>2, <3>1
  <2>3. QED
    BY <2>1, <2>2
<1>8. th \in One!Threads(j)
  <2> HIDE DEF Rows, Cols, a, b, block
  <2>1. QED
    BY <1>3, <1>7
<1>9. (IF One!Transposed(j) THEN <<th[1][2], th[1][1]>> ELSE th[1]) = place
  OBVIOUS
<1>10. One!InBlock(j, place, th) = c
  <2>1. One!InBlock(j, place, th) = <<(a \div D) * D + (a % D), (b \div D) * D + (b % D)>>
    BY DEF One!InBlock, D
  <2> HIDE DEF a, b
  <2>2. QED
    BY <1>2, <1>7, <2>1
<1> HIDE DEF th, place
<1>11. One!Stored(j, th) = One!Tested(j, {One!InBlock(j, place, th)}, One!Cells(j))
  BY <1>9 DEF One!Stored
<1>12. QED
  BY <1>8, <1>10, <1>11 DEF One!Tested

LEMMA CellIsStored ==
  ASSUME NEW j, One!Admissible(j), NEW c \in One!Cells(j)
  PROVE  \E th \in One!Threads(j) : c \in One!Stored(j, th)
BY OneKernels, StoredInLine, StoredByTeam, StoredInBlock

(* For arrays, blocks and teams of every size: the grids of the hosts and  *)
(* the static schedules of the loops give every element to some thread,    *)
(* and the element that a transposing thread stores is the one another     *)
(* thread of its block has put into the cell that it reads.                *)
THEOREM OnePlansSound ==
  ASSUME NEW j, One!Admissible(j)
  PROVE  SoundPlan(One!Plan(j))
<1> DEFINE p == One!Plan(j)
<1>1. /\ p.code = j.kernel.code /\ p.host = j.host
      /\ p.threads = One!Threads(j) /\ p.pixels = One!Cells(j)
  BY OnePlan
<1>2. SoundCode(p.code) /\ p.host \in Hosts
  BY <1>1, OneKernels
<1>3. SoundShares(p, p.loads) /\ SoundShares(p, p.ahead)
  BY OneShares
<1>4. \A th \in p.threads : \A o \in DOMAIN p.taps[1][th] \cap DOMAIN p.image : SoundOutput(p, th, o)
  BY <1>1, OneOutputSound
<1>5. p.image = [c \in One!Cells(j) |-> {<<t, One!Terms(j, c)[t]>> : t \in DOMAIN One!Terms(j, c)}]
  BY OnePlan
<1>6. \A th \in p.threads : DOMAIN p.taps[1][th] = One!Stored(j, th)
  <2>1. \A th \in p.threads :
          p.taps[1][th] = [c \in One!Stored(j, th) |-> [t \in DOMAIN One!Terms(j, c) |->
                             One!SourceOf(j, th, One!Terms(j, c)[t])]]
    <3> TAKE th \in p.threads
    <3>1. th \in One!Threads(j)
      BY <1>1
    <3>2. QED
      BY <3>1, OnePlan
  <2> HIDE DEF p
  <2>2. QED
    BY <2>1
<1>7. \A c : \E t \in DOMAIN One!Terms(j, c) : t[1] = 1
  <2> TAKE c
  <2> DEFINE t == <<1, 0>>
  <2>1. j.depth \in Nat \ {0} /\ j.kernel.terms \in {"elements", "product", "transposed"}
    BY OneSizes, OneKernels
  <2>2. 0 \in 0 .. j.depth - 1
    BY <2>1
  <2>3. t \in DOMAIN One!Terms(j, c)
    BY <2>1, <2>2 DEF One!Terms, One!Products, One!A, One!B
  <2>4. QED
    BY <2>3
<1> HIDE DEF p
<1>8. p.image = [o \in DOMAIN p.image |-> p.image[o]] /\ DOMAIN p.image = One!Cells(j)
  BY <1>5
<1>9. \A o \in DOMAIN p.image : p.image[o] # Unwritten
  <2> TAKE o \in DOMAIN p.image
  <2>1. PICK t \in DOMAIN One!Terms(j, o) : t[1] = 1
    BY <1>7
  <2>2. <<t, One!Terms(j, o)[t]>> \in p.image[o]
    BY <1>5
  <2>3. t # Garbage
    BY <2>1 DEF Garbage
  <2>4. QED
    BY <2>2, <2>3 DEF Unwritten
<1>10. \A o \in DOMAIN p.image : \E th \in p.threads : o \in DOMAIN p.taps[1][th]
  BY <1>1, <1>6, <1>8, CellIsStored
<1>11. SoundPlan(p)
  BY <1>2, <1>3, <1>4, <1>8, <1>9, <1>10 DEF SoundPlan
<1>12. QED
  BY <1>11 DEF p

(* The terms of an output are elements of the matrices. *)
LEMMA TermsInInputs ==
  ASSUME NEW j, One!Admissible(j), One!Transposed(j) = FALSE, NEW c \in One!Cells(j),
         NEW t \in DOMAIN One!Terms(j, c)
  PROVE  One!Terms(j, c)[t] \in One!Inputs(j)
<1>1. c[1] \in 0 .. j.rows - 1 /\ c[2] \in 0 .. j.cols - 1
  BY DEF One!Cells, One!Within
<1>2. CASE j.kernel.terms = "elements"
  <2>1. One!Terms(j, c) = [i \in {1, 2} \X {0} |-> <<i[1], c[1], c[2]>>]
    BY <1>2 DEF One!Terms, One!A, One!B
  <2>2. t[1] \in {1, 2} /\ One!Terms(j, c)[t] = <<t[1], c[1], c[2]>>
    BY <2>1
  <2>3. One!Inputs(j) = {1, 2} \X (0 .. j.rows - 1) \X (0 .. j.cols - 1)
    BY <1>2 DEF One!Inputs, One!A, One!B
  <2>4. QED
    BY <1>1, <2>2, <2>3
<1>3. CASE j.kernel.terms = "product"
  <2> DEFINE K == 0 .. j.depth - 1
  <2>1. One!Terms(j, c) =
          [i \in {1, 2} \X K |-> IF i[1] = 1 THEN <<1, c[1], i[2]>> ELSE <<2, i[2], c[2]>>]
    BY <1>3 DEF One!Terms, One!Products, One!A, One!B
  <2>2. One!Inputs(j) = ({1} \X (0 .. j.rows - 1) \X K) \cup ({2} \X K \X (0 .. j.cols - 1))
    BY <1>3 DEF One!Inputs, One!A, One!B
  <2> HIDE DEF K
  <2>3. t[1] \in {1, 2} /\ t[2] \in K
        /\ One!Terms(j, c)[t] = IF t[1] = 1 THEN <<1, c[1], t[2]>> ELSE <<2, t[2], c[2]>>
    BY <2>1
  <2>4. QED
    BY <1>1, <2>2, <2>3
<1>4. QED
  BY <1>2, <1>3, OneKernels DEF One!Transposed

(* The elements of the matrices of a barrier's programs are inputs. *)
LEMMA ElementsAreInputs ==
  ASSUME NEW j, One!Admissible(j), Len(j.kernel.code) # 1
  PROVE  ElementsIn(j, One!Within(j.rows, j.cols)) \subseteq One!Inputs(j)
<1>1. SUFFICES ASSUME NEW m \in One!Matrices(j), NEW c \in One!Within(j.rows, j.cols)
               PROVE  <<m, c[1], c[2]>> \in One!Inputs(j)
  BY DEF ElementsIn
<1>2. c[1] \in 0 .. j.rows - 1 /\ c[2] \in 0 .. j.cols - 1
  BY DEF One!Within
<1>3. CASE j.kernel.terms = "transposed"
  <2>1. m = 1 /\ One!Inputs(j) = {1, 2} \X (0 .. j.rows - 1) \X (0 .. j.cols - 1)
    BY <1>3 DEF One!Matrices, One!Transposed, One!Inputs, One!A, One!B
  <2>2. QED
    BY <1>2, <2>1
<1>4. CASE j.kernel.terms = "product" /\ j.depth = j.rows /\ j.cols = j.rows
  <2>1. /\ m \in {1, 2}
        /\ One!Inputs(j) = ({1} \X (0 .. j.rows - 1) \X (0 .. j.depth - 1)) \cup
                           ({2} \X (0 .. j.depth - 1) \X (0 .. j.cols - 1))
    BY <1>4 DEF One!Matrices, One!Transposed, One!Inputs, One!A, One!B
  <2>2. QED
    BY <1>2, <1>4, <2>1
<1>5. QED
  BY <1>3, <1>4, OneKernels

(* Indices are tested or end with the matrices: what is read are elements  *)
(* of them, what is stored are elements of the output.                     *)
LEMMA OneInside ==
  ASSUME NEW j, One!Admissible(j)
  PROVE  InsidePlan(One!Plan(j))
<1> DEFINE p == One!Plan(j)
<1>1. p.threads = One!Threads(j) /\ p.pixels = One!Cells(j) /\ p.inputs = One!Inputs(j)
  BY OnePlan
<1>2. p.array = IF j.kernel.grid = "team" THEN ElementsIn(j, One!Within(j.rows, j.cols))
                ELSE One!TileCells(j)
  BY OnePlan
<1>3. \A th \in One!Threads(j) :
        p.taps[1][th] = [c \in One!Stored(j, th) |-> [t \in DOMAIN One!Terms(j, c) |->
                           One!SourceOf(j, th, One!Terms(j, c)[t])]]
  BY OnePlan
<1>4. LoadsInside(p, p.ahead)
  <2>1. \A th \in One!Threads(j) : p.ahead[th] = <<>>
    BY OnePlan
  <2>2. DOMAIN <<>> = {}
    OBVIOUS
  <2> HIDE DEF p
  <2>3. QED
    BY <1>1, <2>1, <2>2 DEF LoadsInside
<1>5. ASSUME NEW th \in One!Threads(j), NEW x \in DOMAIN p.loads[th]
      PROVE  p.loads[th][x] \in p.inputs
  <2>1. Len(j.kernel.code) # 1
    BY OneLoads
  <2>2. CASE j.kernel.grid = "team"
    <3>1. x \in ElementsIn(j, One!Loaded(j, th)) /\ p.loads[th][x] = x
      BY <2>1, <2>2, OneLoads
    <3>2. x \in ElementsIn(j, One!Within(j.rows, j.cols))
      BY <3>1, LoadedInMatrix DEF ElementsIn
    <3> HIDE DEF p
    <3>3. QED
      BY <1>1, <2>1, <3>1, <3>2, ElementsAreInputs
  <2>3. CASE j.kernel.grid # "team"
    <3> DEFINE c == One!InBlock(j, th[1], th)
    <3>1. One!Loaded(j, th) # {} /\ p.loads[th][x] = <<1, c[1], c[2]>>
      BY <2>1, <2>3, OneLoads
    <3>2. One!Loaded(j, th) \subseteq {c}
      BY <2>3 DEF One!Loaded, One!Tested
    <3> HIDE DEF p, c
    <3>3. c \in One!Within(j.rows, j.cols)
      BY <3>1, <3>2, LoadedInMatrix
    <3>4. 1 \in One!Matrices(j)
      BY DEF One!Matrices, One!A
    <3>5. <<1, c[1], c[2]>> \in ElementsIn(j, One!Within(j.rows, j.cols))
      BY <3>3, <3>4 DEF ElementsIn
    <3>6. QED
      BY <1>1, <2>1, <3>1, <3>5, ElementsAreInputs
  <2>4. QED
    BY <2>2, <2>3
<1> HIDE DEF p
<1>6. LoadsInside(p, p.loads)
  BY <1>1, <1>5 DEF LoadsInside
<1>7. ASSUME NEW th \in One!Threads(j), NEW c \in One!Cells(j), NEW t \in DOMAIN One!Terms(j, c)
      PROVE  SourceInside(p, One!SourceOf(j, th, One!Terms(j, c)[t]))
  <2> DEFINE e == One!Terms(j, c)[t]
  <2>1. CASE Len(j.kernel.code) = 1
    <3>1. One!Transposed(j) = FALSE
      BY <2>1, OneKernels DEF One!Transposed
    <3>2. e \in p.inputs
      BY <1>1, <3>1, TermsInInputs
    <3>3. j.kernel.grid # "team"
      BY <2>1, OneKernels
    <3> HIDE DEF e
    <3>4. One!SourceOf(j, th, e) = FromGlobal(e)
      BY <2>1, <3>3 DEF One!SourceOf, FromGlobal
    <3>5. SourceInside(p, One!SourceOf(j, th, e))
      BY <3>2, <3>4 DEF SourceInside
    <3>6. QED
      BY <3>5 DEF e
  <2>2. CASE Len(j.kernel.code) # 1 /\ j.kernel.grid = "team"
    <3>1. \E m \in One!Matrices(j), d \in One!Within(j.rows, j.cols) : e = <<m, d[1], d[2]>>
      BY <2>2, TermsInMatrices
    <3> HIDE DEF e
    <3>2. e \in p.array
      BY <1>2, <2>2, <3>1 DEF ElementsIn
    <3>3. SourceInside(p, One!SourceOf(j, th, e))
      BY <2>2, <3>2 DEF One!SourceOf, SourceInside, FromWindow
    <3>4. QED
      BY <3>3 DEF e
  <2>3. CASE Len(j.kernel.code) # 1 /\ j.kernel.grid # "team"
    <3>1. th[2] \in One!Side(j) \X One!Side(j)
      BY <2>3, OneLoads DEF One!TileCells
    <3> DEFINE q == <<th[2][2], th[2][1]>>
    <3>2. q \in p.array
      <4> DEFINE S == One!Side(j)
      <4> HIDE DEF S
      <4>1. q \in S \X S
        BY <3>1 DEF S
      <4>2. QED
        BY <1>2, <2>3, <4>1 DEF One!TileCells, S
    <3>3. One!SourceOf(j, th, One!Terms(j, c)[t]) = FromWindow(q)
      BY <2>3 DEF One!SourceOf, FromWindow
    <3> HIDE DEF q
    <3>4. QED
      BY <3>2, <3>3 DEF SourceInside
  <2>4. QED
    BY <2>1, <2>2, <2>3
<1>8. ASSUME NEW th \in One!Threads(j), NEW o \in DOMAIN p.taps[1][th]
      PROVE  /\ o \in p.pixels
             /\ \A i \in DOMAIN p.taps[1][th][o] : SourceInside(p, p.taps[1][th][o][i])
  <2>1. o \in One!Stored(j, th) /\ p.taps[1][th][o] =
          [t \in DOMAIN One!Terms(j, o) |-> One!SourceOf(j, th, One!Terms(j, o)[t])]
    BY <1>3, <1>8
  <2>2. o \in One!Cells(j)
    BY <2>1, StoredInCells
  <2>3. QED
    BY <1>1, <1>7, <2>1, <2>2
<1>9. InsidePlan(p)
  BY <1>1, <1>4, <1>6, <1>8 DEF InsidePlan
<1>10. QED
  BY <1>9 DEF p
-----------------------------------------------------------------------------
(* The theorems. *)

(* Every plan is that of a call of one of the programs. *)
Calls ==
  \A n \in DOMAIN Plans :
    \/ \E j : Bicubic!Admissible(j) /\ Plans[n] = Bicubic!Plan(j)
    \/ \E j : Conv!Admissible(j) /\ Plans[n] = Conv!Plan(j)
    \/ \E j : One!Admissible(j) /\ Plans[n] = One!Plan(j)

LEMMA CallsAreSound == Calls => PlansSound
BY BicubicPlansSound, ConvPlansSound, OnePlansSound DEF Calls, PlansSound

LEMMA CallsAreInside == Calls => PlansInside
BY BicubicInside, ConvInside, OneInside DEF Calls, PlansInside

(* In every call of one of these programs, for images, matrices, blocks    *)
(* and tiles of every size and any interleaving of the threads: no cell of *)
(* shared memory that a thread is about to load is read or loaded by       *)
(* another one before the barrier, and the shared cells it reads or loads  *)
(* are in the array.  In every call of a program other than kernel3.cu of  *)
(* the convolutions, whatever it reads from global memory lies in the      *)
(* input, and what it stores in the output.                                *)
THEOREM MemoryIsSafe == ASSUME Calls PROVE Spec => []MemorySafe
BY CallsAreSound, CallsAreInside, SoundPlansAreSafe

(* Each program hands back the image, or the matrix, of the sequential     *)
(* program: windows with their borders, partly filled blocks and the       *)
(* shares of a team cover it, each output is the sum of the right          *)
(* elements, is there when the host copies it, and never changes to        *)
(* another value.  For kernel3.cu this takes it that the device does not   *)
(* stop it for its accesses outside the images, and that what it stores    *)
(* behind the output is not part of a picture.                             *)
THEOREM ComputesFilter == ASSUME Calls PROVE Spec => ImplementsFilter
BY CallsAreSound, SoundPlansAreRight
=============================================================================
