# GrowthMcW in TLA+

The repository is a growing collection of GPU and CPU kernels (matrix products,
reductions, convolutions, bicubic resizing and its gradient, sparse products), each
written several times with more and more optimisation.  What can go wrong in such
code is hard to see in a test run: an interleaving of threads between two barriers, a
tile that overhangs a matrix, an addition that is lost because memory was cleared too
late, a host that reads too early.  The modules here model the kernels thread by
thread, together with the host code that starts them where that matters, model-check
them on small grids and prove the central facts for every size.

- [1. Inventory](#1-inventory)
- [2. How code becomes a model](#2-how-code-becomes-a-model)
- [3. Modules](#3-modules)
- [4. Runs](#4-runs)
- [5. Proofs](#5-proofs)
- [6. Not modelled, and the plan](#6-not-modelled-and-the-plan)

## 1. Inventory

No program is linked with another one; what they share is a pattern: a host thread
fills device arrays, launches a kernel on a grid of blocks, waits, copies the result
back and (in some programs) compares it with a CPU version.

| component | state | operations | hard part | correct when |
|---|---|---|---|---|
| `CUDA/DoubleBuffer.cu` | two buffers per tile in shared memory, loop counters and accumulator per thread, C | preload, prefetch, multiply, barrier and swap, store; launch, copy | one barrier per tile; the last tile overhangs | every tile is read complete, and every cell of C gets its dot product |
| `CUDA/matrixMulTil.cu`, `matmulUnroll.cu` | one buffer per tile | load, barrier, multiply, barrier, store | both barriers are needed | as above |
| `CUDA/matrix/*` | one buffer or two, several cells and outputs per thread | as above, with loads of two to four elements | how cells are dealt out to threads; when the other buffer may be overwritten | as above |
| `CUDA/WPT.cu`, `kernel5`…`kernel7`, `kernael5v1` | tiles, several outputs per thread; the transposed matrix | transpose; load, multiply, store | partition of tiles and outputs, number of tiles, size of the grid | as above, for the part of C that main looks at |
| `CUDA/vectorised.cu`, `vector.cu` | tiles | 4-wide loads and stores | neighbours store to the same cells | as above, for the matrices of main |
| `CUDA/VectorSum.cu` | shared array per block, partial sums, the host's copy and total | load, halve, store; launch, copy, add | one barrier per halving; asynchronous launch | the total has every input once |
| `CUDA/reduction.cu`, `shuffle.cu` | accumulators in registers, one shared cell per warp, partial sums | grid-stride loop, shuffle, store, gather | lanes leave the loop at different times; shuffles past the warp's end; warps of different speed | as above |
| bicubic backward by scatter: `v1`…`v5`, `bicubic_optimized.cu`, `back.cu` | shared window per block (none in v1), `grad_input` | zero, scatter, flush; memset, launch, copy | atomics of overlapping blocks, clamped borders, a window that may be too small | the image equals that of `bicubic_backward_cpu` |
| … with warp reduction: `v6_*.cu`, `bicubic_optimized_atomic.cu` | the same, and registers exchanged between lanes | the same, with shuffles in front of the atomics | lanes of one warp aim at different cells; shuffles in branches | as above |
| … by gather: `v7`, `v8` | in v7 a window of the output gradient, whose memory the host sizes | load window, gather per input pixel; memset, ask the device, launch, copy | which outputs reach a pixel, at clamped borders; a device with too little memory | as above, or an error is reported |
| bicubic forward, all these files and `naive.cu` | shared window (two in v3 to v5) | load, prefetch, interpolate; launch, copy | window geometry; a prefetch without a barrier; 2 x 2 outputs per thread | each output uses its 16 clamped taps |
| `Convolution/kernel1`…`6.cu`, `Convolution.cu` | tile with halo, a second one in `kernel6` | load (cooperative, by rows, by fours), convolve, store; pad, launch, copy, crop | halo at the borders, stores past a row's end, second strip | each pixel uses its neighbourhood |
| `Sparse/coo_smm.cu` | C, shared by all threads and by two kernels in turn | add one column, scatter a row; memset, launch, synchronise, copy, compare | atomics to shared cells, the second kernel on the used array, grids that overhang | both comparisons succeed |
| `Sparse/csr.cu` | row pointers, column indices; C, one cell per thread | build, sum a row | rows without a non-zero | each cell is its dot product |
| element-wise and naive CUDA programs | none shared, but for the tile of a transpose | one thread per element | partition of the elements, grids that overhang | each element right |
| OpenMP programs in `Optimization/` | arrays | two parallel loops with the barrier between them | partition of the iterations, a thread that runs ahead into the second loop | each element right |
| sequential experiments, bicubic on the CPU, C++ exercises, logs, `workspace/benchmarks` (third party) | - | - | - | - |

The hazards, each at its line and with the properties that cover it, are listed in
`PROJECT.json`.

## 2. How code becomes a model

**Actors.** Each thread of a block is an actor of its own, which executes its
statements in order while the others are anywhere in theirs.  Warps do not run in
lock-step (since Volta the hardware does not promise it), with one exception: in
`WarpReduce`, and in the scatter loop of the `BicubicWarp` modules, a warp is one actor,
because an exchange with a full mask makes all lanes of a warp meet, and between
exchanges they touch only their own registers or add atomically.  What a lane reads from
one that is not at the exchange is undefined: a choice, or the value that stands for
garbage.  The host is one more actor.  Blocks run in any order and concurrently.

**Steps.** One action stands for the statements between two points where another actor
could notice a difference.  A thread's loads and stores of shared memory are separate
steps wherever their order matters (`TreeReduce` reads both operands in one step and
writes the sum in the next).  Some loops are one step: the four taps of a row in
`ScatterRow` (atomic additions commute); the loops that zero or flush a thread's own
cells of the window, and in `Stencil` and `GemmSeries` those with which a thread loads
its cells or reads its operands (nobody else may then store there, which `NoRace` and
`MemorySafe` check).

**Plans.** Most programs are variations of a few themes: load, meet, compute, store.  Where
that is so, the statements are defined once, as actions, and a program is a *plan*: the
sequence of its statements and, for each thread, what it loads, reads and
stores.  `BicubicScatter` and `BicubicGather` have the plans of their programs themselves;
`BicubicForward`, `Convolution` and `OneOutput` give those that `Stencil` carries out, and
`GemmPlans` those of `GemmSeries`.  The index arithmetic of each program is in its plan, the
interleaving in the actions.

**Barriers.** `__syncthreads()` is a count per thread of its arrivals; a thread goes on
when all threads of its block have arrived as often as it has.  A thread that has
returned does not arrive any more, so a divergent barrier shows up as a block that
never ends.

**Memory.** Shared and global memory start with garbage that is different from every
legal value.  A data race is stated as the overlap of what two threads are about to
access, so it is found even where the values happen to agree; the one exception is
`GemmSeries`, whose `NoRace` allows two threads to load the same value into the same cell,
as those of `vectorised.cu` do.  Where a program tests its indices, the model drops what fails
the test; where it does not, the access is in the model wherever it goes, and
`ReadsInBounds`, `StoresInBounds` and `CellsInBounds` of `Stencil` say that it stays in the
input, the output and the shared arrays.

**Data.** An element of a matrix or a picture is its place in it.  A sum is represented by
what is in it: in the matrix products the set of its products, in the reductions how often
each input occurs, in the forward filters the set of pairs of tap and pixel, in the
gradients the set of contributions together with a mark that
says some contribution came twice.  A lost, duplicated or misdirected term therefore
always shows.  Where main fills its matrices with one number each (`vectorised.cu` and
`kernel5.cu` to `kernel7.cu`), that is what an element is.  Rounding and overflow of the
sums are outside the model: floats are
compared by the programs with a tolerance, and the integer sums stay far below 2^31
(for example 2^20 inputs of value 1).  Source coordinates of the bicubic kernels are exact
rationals instead of floats, and weights are left out, but for those that are 0 and decide
which contributions `GatherRange` has to find.

**CUDA runtime** (modelled from how the code uses it): a launch returns at once;
`cudaMemset`, launches and copies of one stream take effect in their order;
`cudaMemcpy` to the host, `cudaDeviceSynchronize` and `cudaEventSynchronize` wait.

**Fairness.** In the reductions, the two matrix kernels and the sparse product, each thread
(each warp) that can run eventually does, and so does the host: one weak-fairness condition
per actor.  That is what the CUDA execution model gives to the
resident blocks of a grid.  All modelled blocks are taken to be resident or to become
so, which no block can prevent because none waits for another one.  In the bicubic and
stencil runs less is assumed: as long as the host or some thread can take a step, one of
them does.  No actor there can go on for ever, so this is enough; that a call returns then
means that no state is reached in which everybody waits.  It is checked for the
calls in which some threads of a block have nothing to compute, since these are the ones a
barrier could wait for.

Operators marked `Faulty` model plausible slips in the code (a dropped guard, a missing
barrier).  Nothing uses them in a specification; each replaces its original when it is
tested that a property can fail.

## 3. Modules

| module | models | state and actions |
|---|---|---|
| `MatMul` | abstract | `C`; `WriteCell`: a block writes each of its own cells once, with the whole dot product |
| `GemmTile` | index arithmetic of the tiled kernels | `ElemOfA`, `ElemOfB` are the guarded loads, `Product` one iteration of the inner loop, `OutIndex` and `InRange` the guarded store |
| `GemmBlock` | what the two tiled kernels have in common | a block's variables; `Released`: `__syncthreads()`; `ImplementsMatMul`, `Terminates` |
| `DoubleBuffer` | `matrixMulDoubleBuffered`, lines 8-74 | `PreloadA/B`, `PrefetchA/B`, `SkipPrefetch`, `Accumulate`, `LeaveSync1/2`, `Store`; `curr` and `next` per thread as in the code |
| `TiledMatMul` | `matrixMulTiled`, lines 8-48 | `LoadTileA/B`, `TiledLeaveSync1`, `TiledAccumulate`, `TiledLeaveSync2`, `TiledStore` (names that `DoubleBuffer` has too begin with `Tiled`) |
| `KernelCall` | abstract | `Clear`, `Produce`: elements become what the sequential program computes and stay so; `Return`: the complete array |
| `GemmPlans` | kernels, grids and hosts of 13 matrix products | per program `LoadsA`, `LoadsB`, operands and outputs of a thread, number of tiles; `ShownCells`: all of C, or the corner that main prints |
| `GemmSeries` | their statements | load one tile, meet, multiply, meet, store, with one buffer or two; memset, launch, copy |
| `Int4Product` | `vector.cu` | operators only: what it stores, and where |
| `Reduction` | abstract | `Publish`: each block one partial sum with its inputs once; `Finish`: the total |
| `TreeReduce` | `VectorSum.cu`, kernel and host | `Load`, `ReadPair`, `WriteBack`, `Skip`, `LeaveSync`, `Output`; `Launch`, `CopyBack`, `HostAdd` |
| `WarpReduce` | `reduction.cu` and, where the grid covers the input, `shuffle.cu`, kernel and host | `Accumulate`, `EndLoop`, `Shuffle` (both calls of `warpReduceSum`), `StoreWarpSum`, `LeaveSync`, `Gather`, `Output`; host as above |
| `Gradient` | abstract | `Clear`, `Accumulate`: contributions arrive only at the pixel the CPU adds them to, each once; `Return`: the complete image |
| `BicubicGeometry` | index arithmetic of the bicubic kernels, per axis | source coordinate, window start and size, clamping |
| `BicubicScatter` | backward kernels and hosts of v1 to v5, `bicubic_optimized.cu` and `back.cu`, against `bicubic_backward_cpu` | `Zero`, `LeaveSync1`, `ScatterRow`, `LeaveSync2`, `Flush`; `Memset`, `Launch`, `CopyBack` |
| `BicubicWarpPairs` | backward kernel of `v6_bicubic_warp_reduce.cu`; extends `BicubicScatter` | `EnterScatter` (no lane leaves early), `ScatterPairs`: exchange with the neighbour and atomics of a warp |
| `BicubicWarpTree` | backward kernel of `v6_bicubic_fixed.cu` | `ScatterTree`: conditional tree of exchanges, owners add |
| `BicubicWarpAll` | backward kernel of `bicubic_optimized_atomic.cu` | `ScatterAll`: the sum of the warp goes to the cell of lane 0 |
| `GatherRange` | range arithmetic of v7 and v8, per axis | `OutputsOf` a pixel, the taps by which an output finds it, the CPU's scatter |
| `BicubicGather` | backward kernels and hosts of v7 and v8 | load window, meet, gather; memset, ask the device (with its error path), launch, copy |
| `Stencil` | the statements of filters: an output from the inputs around it | load, meet, prefetch, compute a strip, store; memset, launch, copy |
| `BicubicForward` | forward kernels and hosts of 13 bicubic programs | plans: windows, taps found in them or in global memory, outputs per thread |
| `Convolution` | seven convolutions and their hosts, against `convolution2D` of `Convo.cpp` | plans: tiles with halo, groups of four, strips, padding and cropping |
| `OneOutput` | `csr.cu`, the element-wise and naive programs, transposes, OpenMP loops | plans: which thread has which element; static shares of a loop; the row pointers |
| `Tables` | | a function of which TLC keeps the values; a function with some of its values replaced |
| `MC*` | | instances for TLC; their assumptions say which interesting case the sizes bring about |
| `*Proofs` | | theorems, see section 5 |

Refinements: `DoubleBuffer` and `TiledMatMul` implement `MatMul` (the abstract `C` is the
array itself); `TreeReduce` and `WarpReduce` implement `Reduction` (the abstract result
is the host's total once the host has printed it); `BicubicScatter`,
`BicubicWarpPairs` and `BicubicGather` implement `Gradient`; `Stencil`, with any of its plans, and `GemmSeries`
implement `KernelCall` (the abstract output is the device array, expected the sequential
program's; in `GemmSeries` both are restricted to `ShownCells`).  When v7 finds the device too
small, it prints an error and returns an image of zeros (v7:439-450).  That is no gradient, and the
refinement takes it for none: `Gradient`'s result stays unset.

## 4. Runs

| run | bounds | shows | states |
|---|---|---|---|
| `double_buffer` | 2 x 2 threads, A 3 x 5, B 5 x 3, the block in the last row and column | `NoRace`, `TileComplete`, `LoadsInBounds`, `ImplementsMatMul`, `Terminates` | 3375 |
| `tiled_matmul` | same matrices, the block at the right edge | the same questions with two barriers | 1436 |
| `gemm_series` | 23 calls of 13 programs: blocks of up to eight threads with two or three tiles, and several blocks, some overhanging | `MemorySafe` (types, no cell read before it is loaded or while it is stored to, no two different stores), `ImplementsMatMul` | 316610 |
| `tree_reduce` | 2 blocks of 4 threads | `NoRace`, `StageComplete`, `ImplementsReduction`, `Terminates` | 119720 |
| `warp_reduce` | 2 blocks of 2 warps of 4 lanes, 21 inputs | `WarpSumComplete`, `BlockSumsReady`, `ImplementsReduction`, `Terminates` | 2824 |
| `bicubic_backward` | 33 calls of v1 to v5, `bicubic_optimized` and `v6_warp_reduce`: 1 block of 2 x 2 threads (v6: one warp, 1 or 2 blocks), or 2 to 4 blocks of one thread; images enlarged to twice their size and reduced up to 9 times | `MemorySafe`, `Conserved`, `ImplementsGradient`, `CallsReturn` | 28952 |
| `bicubic_gather` | 17 calls of v7 and v8: 1 block of 2 x 2 threads, or up to 6 of one; scales from 1/2 to 4; a device with too little memory | `MemorySafe`, `ImplementsGradient`, `CallsReturn` | 38082 |
| `stencil` | 12 forward passes, 5 convolutions, 15 programs of `OneOutput`; blocks of up to 16 threads, and several small ones | `MemorySafe` (types, races, accesses within the arrays and, but for `Convolution/kernel3.cu`, the images), `ImplementsFilter`, `CallsReturn` | 169223 |
| `sparse_coo` | 2 x 2 matrix, 3 non-zeros, blocks 3 x 2 and 2 | `NothingLost`, `VerifiesCorrect`, `Terminates` | 4157 |
| `convolution_fours` | `kernel5.cu` and `kernel6.cu`, two blocks side by side, one row | `MatchesCpu` is violated | |
| `bicubic_warp_tree` | 1 block of one warp of 4 lanes, image 2 x 2 to 2 x 2 | `MatchesCpu` is violated | |
| `bicubic_warp_all` | 2 blocks of one warp of 4 lanes, image 2 x 1 to 4 x 2 | `MatchesCpu` is violated | |

Why these bounds are enough: three tiles reuse both buffers and overhang A and B; the
edge blocks have threads inside the matrix, outside in one direction and outside in both.
Two halvings are the least that let a fast thread run into the next stage, and two
shuffles the least in which a wrong order of the offsets matters.  With 21 inputs the grid-stride loop
makes two passes and stops inside a warp.  In the scattering runs both ways to `grad_input` are taken
by every version that has a window (an assumption of `MCBicubicBackward` says so), several
blocks add to common pixels, and at the borders several cells and taps are clamped to one
pixel; the lanes of a pair aim at one cell and at two, and some lanes are outside the output.  In
the gathering runs visited outputs are cut off at either border, and blocks have threads
without a pixel.  The forward runs enlarge to odd sizes, so that 2 x 2 outputs of a
thread are partly outside, and reduce by more than any window is made for.  The convolutions
have images that end inside a block, beside one or below one, and `kernel6`'s second
strip is in the convolution run of its own.  Teams of three OpenMP
threads share two or four rows of blocks.  Two sparse kernels
share cells among threads and have threads to spare in both directions.  What depends on
sizes beyond that is arithmetic, and the proofs cover it for `DoubleBuffer`,
`TiledMatMul`, the reductions, the bicubic forward pass, scatter and gather of the backward
pass, the convolutions, the programs of `OneOutput` and the sparse kernels (except CSR).

Five assumptions of the MC modules say what a program does *not* do, where its main cannot
notice: `vectorised.cu` and `kernel5.cu` to `kernel7.cu` load elements of other rows or columns
than a product needs, which is right only because each matrix has one number in it
(`RightForConstantsOnly`); `vector.cu` multiplies vectors component by component and writes
part of the matrix (`Int4IsNoProduct`); the kernels of `back.cu` read (`BackReadsOtherCells`)
and add to (`BackAddsToOtherCells`) cells of the window that hold other pixels.  The grid of
26 x 26 blocks of `kernel7.cu` is the case `SMS`: it covers 832 of the 1024 rows and columns of C.
Main prints a corner of 5 x 5, and this corner is what `ShownCells` asks for, whatever the grid;
in one of the two calls it is larger than a block.

`Convolution/kernel3.cu` has no bounds tests, because the host pads the image ("remove padding
condition", line 1).  That serves the picture only, as `Kernel3LeavesItsImages` says:
- line 36: the grid starts at the corner of the padded image, so that the halo of the first block
  is row -1 and column -1 of that.  The device reads in front of `d_input`, for every image size,
  and behind it in the last blocks.
- line 58: the grid is rounded up, and the stores are not tested.  Unless the height of the padded
  image is a multiple of 16, threads of the last blocks store past the end of `d_output`.

Its plan is therefore not `confined`, and `MemorySafe` does not ask of it to stay in its images;
that its picture is correct is checked.  There a read outside the image yields a value of its own
(`Beyond`), a store outside the output changes no pixel, and the device lets both happen.  A store
beyond the right border is one to the next row, as in memory, and the run shows that it stores
there what belongs there; no pixel of the picture depends on what is read outside the image.

Findings.  The mains of two bicubic programs compare the gradient of the GPU with that of
the CPU, and the runs show that these differ:
- `v6_bicubic_fixed.cu:311`: `__shfl_down_sync` gives a lane its own register back where
  its source is past the end of the warp.  Its cell agrees with itself, and its sum is
  doubled; with 32 lanes this happens to lanes 16 to 31 in the first iteration, at
  every scale.  Besides, lane 1 reads from lane 0, which is not in the branch
  (line 321).  The run takes that undefined outcome to be the same for the four taps of a
  row, which only leaves out behaviours; the doubling does not depend on it.
- `bicubic_optimized_atomic.cu:328`: the sum over all lanes of a warp, which aim at
  different cells, is added to the cell of lane 0.

`v6_bicubic_warp_reduce.cu`, in which that comparison is commented out, has neither error.

The third one is in the convolutions that load four pixels at once and report success:
- `Convolution/kernel5.cu:46`, `kernel6.cu:41` and `49`: a row of the tile has 18 cells in
  an array 19 wide, and its last group of four reaches one cell past the array's row: it
  stores a pixel into cell 0 of the next row, before or after the thread that loads that
  cell.  The committed pictures show it: `output_optimized.jpg` and
  `output_double_buffer.jpg` differ from `output.jpg`.

Deadlock checking is off in all runs, because all programs end; that they do not stop
before is what `Terminates` and `CallsReturn` say.

## 5. Proofs

All theorems hold for every value of the constants under the assumption stated next to
them (`GemmAssumption`: sizes are positive; `CooAssumption`: sizes are positive, and each
non-zero is in a row of the matrix; `ReduceAssumption`: a block has 1, 2, 4, … or 256 threads;
`WarpAssumption`: blocks are whole warps of 2, 4, … or 32 lanes; `BicubicAssumption` and
`GatherAssumption`: sizes are positive).

`GemmTileProofs` is about both tiled kernels, `DoubleBuffer` and `TiledMatMul` (what is about
the latter begins with `Tiled`). It begins with the arithmetic of tiles: loads stay in the
arrays, the tiles of a row cover 0 .. colsA-1 once, and the terms of all (tile, iteration) pairs
are the dot product. For each kernel it proves `TypeCorrect`, `RaceFree`, `TilesComplete` and
`ComputesProduct` (that every step of the block is a step of `MatMul` or leaves C alone), for
the first one also `LoadsStayInBounds`. None of these is inductive. The argument has two
invariants. `SharedInv` adds to `TypeOK`
- `Lockstep`: two threads differ by at most one barrier, and a thread that is one ahead is
  in the phase behind the barrier the other waits at.  This is where the barriers do
  their work: it says which statements can run at the same time;
- `Position`: a thread's label and loop counter determine how often it has arrived and which buffer is
  current;
- `OwnCells`: what the thread itself has stored in its cells of the tiles, by position.

`TileComplete` follows because a cell that is read belongs to a thread that `Lockstep`
puts in the same phase, and `NoRace` because two threads in the same phase use
different cells or different buffers.  `ResultInv` then adds that the accumulator holds the terms of the
iterations done (`SumSoFar`) and that a cell of C is unwritten until its owner has stored it.

`GemmSeriesProofs` proves `MemorySafe` and `ImplementsMatMul` for the calls of all thirteen
matrix products, for matrices, tiles and blocks of every size and in any mixture. What is shown
to be the product is all of C for twelve programs, and for `kernel7.cu` the corner that main prints;
for `vectorised.cu`, `kernel5.cu`, `kernael5v1.cu`, `kernel6.cu` and `kernel7.cu` the matrices are
filled with one number each, as in their mains. The first half
is about `GemmSeries` with any plan that meets `SoundPlan`: two statements that use the same
buffer, of which one loads, have a barrier between them; a tile is multiplied from the buffer it
was last loaded into; two threads of a block load the same cell only with the same element, and
every cell that one multiplies is loaded by some of them; all that is added up to a store is the
dot product of the element stored, and every element shown is stored by someone. For such plans
`Inv` is inductive: by `Lockstep` no thread has passed a barrier that another one of its block
is before, so that between two barriers only what the plan allows is in progress; `TilesFilled`
gives the contents of a buffer until somebody loads it again (`Current`); `SumRight` and
`OutputRight` the sums of the threads and the elements stored. One argument serves single and
double buffers, and kernels that do not use shared memory at all.
The second half shows that the plans of the programs are of that kind (`ProgramsSound`). It is
arithmetic again: the code of a plan as a function of the number of tiles (`PlanCode`), the
shares by rows, by vectors and in strides that reach every cell of a tile, blocks and threads
that reach every element shown, and the terms of all tiles together. `Program` in `GemmPlans`
names the thirteen kernels with their hosts and what their macros and mains have in common: a
kernel without bounds tests multiplies whole tiles, the kernels with one `TILE_SIZE` have square
tiles, `kernel5` to `kernel7` and `vectorised` multiply matrices filled with one number. None of
it fixes a size. `MCGemmSeries` has TLC check that the calls of its run meet `Admissible` and
`Program`, so that the theorems are about at least those.

`TreeReduceProofs` has the same plan for `VectorSum.cu`.  The stage of a thread is its stride;
`Together` says that two threads of a block are at the same stage, or that one has gone
through the barrier the other one has reached.  `Cells` then gives every cell of the shared
array as the sum of what was folded onto it up to the stage of the thread that owns it, which
yields `StageComplete`; `NoRace` comes from the strides.  `ResultInv` adds that a
partial sum is untouched until its block has stored it whole and what the host's loop has
added up to an index, and gives `ComputesSum`: `VectorSum.cu` implements `Reduction` on every
grid.

`WarpReduceProofs`: the invariant says, place by place, which inputs a lane has accumulated so
far in its strided loop (`Looping`); that during an exchange with offset o the lanes below
2 o hold the sums of all lanes congruent to them, whatever the lanes above hold
(`Exchanging`: these have added their own register or one past the end, and
nobody looks at them any more); and that behind the barrier the cells of all warps are stored
(`AllStored`).  From it follow `WarpSumsComplete`, `SumsReady` and `ComputesSum`, for every
grid and every number of inputs, in particular for `shuffle.cu`, whose loop is the single
conditional load of a grid that covers the input.

`BicubicGatherProofs` has first the arithmetic of one axis: `GatheringIsComplete` (for every pair of
lengths and every pixel the outputs that v7 and v8 visit, with the taps by which they use them, are
those by which the CPU's scatter reaches the pixel, at clamped borders too), `WindowCovers` (the
window of a block is in the image and contains what its pixels visit) and `WindowFits` (it is never
larger than the shared memory that the host has sized from the scale alone).  Then `MemorySafe` and
`ImplementsGradient` follow for images and tiles of every size: by `Barrier` a thread that gathers
belongs to a block that has arrived, by `Loaded` who has arrived has loaded its indices, and each
index is some thread's (`IndexHasThread`), so that the window holds the gradient of every visited
output (`VisitedIndex`); a pixel has one thread (`PixelUnique`, `PixelHasThread`), which stores its
whole sum.

`BicubicScatterProofs` proves `MemorySafe`, `Conserved` and `ImplementsGradient` of
`SpecBackward` for images and tiles of every size and every call of the programs v1 to v5,
`bicubic_optimized` and `v6_bicubic_warp_reduce` (`VersionCalls`: a kernel comes with its own
host; `WarpAssumption`: a block of v6 has whole warps).  `MemoryIsSafe` needs only where a thread
is: `Position` and `Barriers` say how often each thread and its block have arrived, so that the
loops that zero and flush a cell are never in progress while others add to it.  For
`NothingIsLost` the invariant says what each cell holds at any time: once its owner has zeroed
it, the contributions that the threads of its block have added (`CellsRight`), and each pixel
those that went past the windows or have been flushed (`PixelsRight`).  A set could hide a
contribution added twice; the lemmas exclude it: a contribution has one author
(`ContributionUnique`), a cell one owner (`CellOwner`), and the pixel that a cell is flushed to
is the one the tap belongs to (`PixelOfWindow`).  An iteration of one thread and one of a whole
warp are the same step to the invariant (`RowDone`, `RowSums`, `RowKeeps`).  That the warp's is
one is the argument about the exchange: each contribution has exactly one carrier among the lanes
(`OneCarrier`), and this lane aims at the same cell and the same pixel (`CarrierPlace`), because
equal cells of one block mean equal pixels (`SameCellSamePixel`) and because the lower lane of a pair has an
output whenever the upper one has (`Pair`, from the even side of a block).  `ComputesGradient`
follows when all have ended.

`StencilProofs` proves `MemorySafe` and `ImplementsFilter` for the calls of 30 programs, of any
size and in any mixture (`Calls`); `MemorySafe` says of all but `kernel3` of the convolutions that
they stay in their images.  It has two halves, as the model has.  The first one is about
`Stencil` with any plan that meets `SoundPlan`: a barrier stands between the loads of a window
and what reads it; the shares of a block's threads do not clash; every tap finds its pixel in
global memory or in a cell that some thread of the block loads; and every output is some
thread's.  For such plans `Inv` is inductive: `Lockstep` relates the number of arrivals to the
statement a thread is at, so that nobody reads before all have loaded; `WindowFilled` gives the
contents of the cells of those who have loaded, `ResultsRight` the sums that are computed and
not yet written, `OutputRight` the picture; `HostInv` makes the host's copy the complete
picture.  A second load (`prefetch`) only fills the window that nobody reads any more.  That no access
leaves the arrays and, if the program is `confined`, the images is a property of the plan alone (`InsidePlan`), and `InvInBounds`
adds where each thread is.
The second half shows that the programs have such plans, for all sizes that `Admissible`
names: `BicubicPlansSound` (12 forward kernels; windows that are too small send the taps past
them), `ConvPlansSound` (the naive convolution and `kernel1` to `kernel4`; `TILE` a
multiple of the outputs per thread; of `kernel3` under the assumption above on what its
accesses outside the images do) and `OnePlansSound` (vectors, naive products, transposes,
OpenMP loops; programs without a bounds test leave no rest).  What they need is arithmetic:
the strided shares of a window or a tile are disjoint and reach every cell, rounded-up
grids reach every output, and the static shares of a team divide its rows (`SharesCover`,
`SharesApart`).  `CallsAreInside` shows the plans to be `InsidePlan`s: by the tests or the clamping of the
coordinates, or, in the programs without a test, because whole blocks fit (`WholeBlocks`).  `MCStencil` assumes with TLC that the calls of its run are admissible.  Not
covered are the CSR product, whose row pointers count non-zeros (induction over data), and
`kernel5` and `kernel6` of the convolutions and `back.cu`, which are wrong.

`SparseCooProofs` proves `NoContributionLost` and `BothVerify` with `Inv`: `Schedule` (only
the kernel the host waits for runs, and the other one has ended or not begun) and
`Progress` (the column a thread is at) make `NothingLost` inductive; when the kernel has
ended, the rounded-up grid (`GridCovers`) has had a thread for every non-zero, so C is the
product.

Only model-checked: all liveness (`Terminates`, `CallsReturn`), which is out of the prover's
reach, and the CSR product.

## 6. Not modelled, and the plan

Left out for good:
- random generation of inputs, timing, printing, image files and
  allocation, which change nothing that a property is about;
- `CUDA/matrix/kernel5.cu`, which does not compile (its parameter `N` is a macro, 2000);
- `sumOMP.cpp`, a single reduction clause, whose work is the compiler's;
- the interleavings of `vector.cu`, whose result does not depend on them;
- sequential CPU experiments, the bicubic ports to C++ and Python, exercises and the third-party
  benchmark collection, in which nothing interleaves or fails;
- occupancy and speed, the purpose of many variants, which TLA+ does not express.

What could follow: the memory safety of `v6_bicubic_fixed.cu` and `bicubic_optimized_atomic.cu`,
whose results are wrong, which is neither checked nor proved; and of the CSR product what needs
no induction over the row pointers.
