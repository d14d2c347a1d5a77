# DESTINY 3D cache explorer: a verification project

DESTINY estimates area, latency and energy of memories and caches built from
SRAM, eDRAM, RRAM and other cells, in 2D and 3D. Around the C++ simulator a set
of Python scripts generates cells, sweeps the design space with thousands of
simulator runs, computes Pareto fronts, trains surrogate models and inverts
them. This directory holds TLA+ modules of the parts that carry control, the
TLC runs that check them and the proofs TLAPS checks.

## Inventory

### The simulator (C++)

| Component | State it keeps | Operations | What makes it correct |
|---|---|---|---|
| Design search: `main`, `nvsim`, `applyConstraint` (main.cpp), macros.h, Result | results per cell and target with limits, wires and cell label; counters; the global wires; the CSV file | walk the organisations of tag and data array, refine the wires of the winners, walk again under constraints, merge the cells, report | winners are the best of what was walked, within limits, never spoilt by a later step; the report agrees with the results |
| Configuration (InputParameter) and the search ranges in RESTORE/REDUCE_SEARCH_SIZE | minimum and maximum of every search dimension, flags | read the file, force a dimension, restore, reduce | every cell and array is searched over the ranges its configuration names |
| Banks (BankWithHtree, BankWithoutHtree) | levels of the routing tree with bits and active counts, mux sizes | Initialize, CalculateArea, CalculateRC, CalculateLatencyAndPower | bits are conserved over the tree, illegal organisations are rejected, legal ones have the capacity |
| Mat, SubArray | rows, columns, predecoders | Initialize and the calculations | rows and columns realise the address bits the bank hands down |
| PredecodeBlock, RowDecoder, BasicDecoder | gates and stages | Initialize and the calculations | all address bits are decoded, once; every stage drives what is behind it |
| Wire | repeaters | Initialize (repeater search) | the chosen repeater is the best of those searched |
| OutputDriver, TSV, Mux, SenseAmp, Precharger, Comparator (all FunctionUnits) | flags `initialized` and `invalid`, the figures: area, latencies, energies, leakage | Initialize, CalculateArea, CalculateRC, CalculateLatency, CalculatePower, operator= | called in this order; no figure read that was not assigned; copies complete |
| formula, Technology | tables of transistor parameters | floating-point formulas | physics, no control |
| MemCell | cell parameters | parse a cell file, derive missing parameters | every parameter that is used is set |

Everything runs in one thread. Components call each other directly; what they
share without passing it are globals (`inputParameter`, `cell`, `tech`,
`localWire`, `globalWire`, the search ranges), and the hard behaviours come from
these: a value left behind by one array, walk or cell is used by the next.
Within one design they come from the tree of some forty units, each with five
methods that read members the others assign: most members have no value until
some method, under some condition, gives them one, and sums over the units are
written out by hand, once per operation and per kind of bank.

### The exploration scripts (Python)

| Component | State it keeps | Operations | What makes it correct |
|---|---|---|---|
| generate_cells.py | directory of cell files | remove and write anew | every cell is physically valid |
| run_exploration.py | result files, failure CSV, markers, temporary files | build the jobs, run them in a process pool, record results and failures, resume | every design point gets one verdict, the right one, once, wherever its processes are killed |
| pareto_analysis.py, destiny_utils.py | - | three Pareto filters, derived parameters | the front is the set of points that are not dominated |
| train_model*.py, tune_model.py | model files | train | numeric |
| inverse_design_*.py | result directories | search the surrogate, snap to legal values, confirm with ./destiny | what is reported was simulated |
| visualize_pareto.py, Makefile.exploration | plots; order of the stages | | each stage runs on the output of the one before |

The stages communicate through files only. Within the sweep, worker processes
run concurrently and share the failure file, its lock and the directory of
markers; any of them, or the parent, may be killed at any time, and the
documented way on is to start the script again.

## Modules

| Module | Role |
|---|---|
| `DesignSearch` | the search engine: every step of `nvsim` and `main` |
| `MCDesignSearch` | a small circuit model and configurations for TLC |
| `DesignSearch_proofs` | its invariants, for every circuit model and size; in a second part what `main` reports: the printed cell, the rows of the file, the choice of what to print, the merge |
| `SweepVerdicts` | what a sweep promises: one right verdict per design point, for ever |
| `Sweep` | the process pool of run_exploration.py, one system call per action |
| `Sweep_proofs` | its invariants, that it implements `SweepVerdicts`, and what a sweep that is not killed comes to: every job settled, counted, cleaned up; and at most one row more per kill |
| `SearchSpace` | the search ranges through reads, reductions and restorations, over the cells of a run |
| `SearchSpace_proofs` | every cell is searched over what the file asks for, for every file |
| `MCSearchSpace` | configuration files for TLC |
| `BankShape` | arithmetic of a bank: sizes of tag and data array in `nvsim`, `Mat::Initialize`, the rules of `SubArray::Initialize` |
| `BankShares` | the share of every mat in one step: `BankWithoutHtree::Initialize`, and the specification of the other bank |
| `HtreeRouting` | the routing loops of `BankWithHtree::Initialize`, one level per action |
| `BankShape_proofs` | powers of two, their quotients and logarithms; a mat holds its part of the capacity |
| `HtreeRouting_proofs` | order, bandwidth and capacity of the routing, and that it implements `BankShares`, for every size |
| `MCBank` | memories and organisations for TLC |
| `Figures` | the units: every method and operator= of OutputDriver, RowDecoder, BasicDecoder, Mux, Precharger, SenseAmp, Comparator, TSV |
| `PredecodeBlocks` | arithmetic of a predecoder: the split of an address over decoders, groups and stages |
| `Predecoder` | the life of a `PredecodeBlock`, one method per action |
| `Figures_proofs` | what every method of every unit does to a state |
| `Predecoder_proofs` | every bit is decoded once, every load is right and every part counts, for every width |
| `SubArrayFigures` | every method of `SubArray` as an operator on the figures of its units |
| `BankFigures` | the same for `Mat` and both banks |
| `Evaluation` | the life of a design: the calls of CALCULATE, the copy into a result, the report |
| `MCEvaluation` | configurations of designs for TLC |
| `Evaluation_proofs` | what the figures of subarray, mat and bank are made of after every call, and all properties of `Evaluation`, for every configuration |

`DesignSearch` takes the space it searches and the circuit model as given;
`SearchSpace` says which space that is, the bank modules what a bank is made of
and when it is `invalid`. `HtreeRouting` refines `BankShares`, both use
`BankShape`; `Sweep` refines `SweepVerdicts`. `Evaluation` is what happens
behind one entry of the table that `DesignSearch` takes as its circuit model;
it composes `BankFigures`, `SubArrayFigures` and `Figures`, and `Predecoder`
composes `PredecodeBlocks` and `Figures`.

### DesignSearch

`phase` is the loop or statement the program is at, `kind` and `cell` the array
and cell, `tried` the position in the loop nest BIGFOR, `idx` that in a
refinement or merge loop. `best` holds `bestTagResults` and `bestDataResults`,
one `Result` per target, and `limit` their `limit*` fields. `localWire` and
`globalWire` are the global objects: a walk uses whatever they hold.

| Action | Code |
|---|---|
| `StartCell` | loop over cells, `applyConstraint`, INITIAL_BASIC_WIRE |
| `TryOrganisation` | one iteration of BIGFOR(_TAG): CALCULATE, VERIFY_*_CAPACITY, UPDATE_BEST_*, OUTPUT_TO_FILE; in the constrained walk also its limit test |
| `EndWalk` | `numSolution > 0`, or `return 1` without a tag array |
| `RefineLocal`, `RefineGlobal` | one iteration of REFINE_*_WIRE_FORLOOP with TRY_AND_UPDATE for every target |
| `EndRefineLocal`, `EndRefineGlobal` | the second loop; counters restart and the data array begins |
| `AfterData` | pruned output, limits and APPLY_LIMIT |
| `EndConstrained` | `nvsim` returns |
| `EndCells`, `MergeCell`, `EndMerge`, `Report` | the rest of `main` |

The circuit model is the constant set `EvalTables`: for every array, cell,
organisation and pair of wires, metrics, the `invalid` flag and whether the
capacity adds up. Metrics are naturals with `Inf` for `invalid_value`; a limit
is a value plus a slack instead of a product, which keeps what matters, that it
is not below the best value. One target is one metric (the energy-delay products
are metrics of their own). `src` in a result is not in the code: it remembers
which cell a bank was computed with, so that the label can be judged. A cache's
full exploration writes a row per tag winner for each design; the model writes
one row for all of them.

### Sweep

A worker's `pc` goes through `run_single_simulation`. One action is one system
call on a shared file or a stretch that touches none. `outcome` fixes what
`./destiny` and its file come to for each design point; the program is
deterministic, so a second launch meets the same outcome. `Flush` comes after
`Unlock` because Python's file object writes its buffer when `with` closes it.
`Save` and `Write` are the creation of the result file and the end of its
writing. `Crash` kills parent and workers at once (a signal, the OOM killer,
Ctrl-C) and loses all but the files, which keep what the kernel was given. It is
not a stop of the machine: the script never syncs a file (run_exploration.py:
105-113, 160, 254), so after a power failure a marker may survive its row, and
nothing is claimed of that. `Launch` starts the script again. An exception in a job (`unreadable`) reaches
the parent through the future; the pool then waits for its jobs and the
exception ends the script.

### SearchSpace

`data` and `tag` are the `min*`/`max*` members of the global `InputParameter`,
one range for each dimension, `tag` for those with `Tag` in their names;
`NumRowPerSet` and `StackLayer` exist once, for both arrays. A configuration
file is a sequence of lines of the options that touch them.

| Action | Code |
|---|---|
| `ReadLine` | one iteration of the loop in `ReadInputParameterFromFile`, one disjunct for each kind of option |
| `EndRead` | the first read ends; `numCellTypes` is fixed |
| `StartCell`, `NotSupported` | `applyConstraint`, REDUCE_SEARCH_SIZE for a cache |
| `WalkTag` | INITIAL_BASIC_WIRE, BIGFOR_TAG, the tag's refinement loops, RESTORE_SEARCH_SIZE |
| `NoTag` | no tag array is found: `return 1` with the ranges as they are |
| `EndReread` | the second read ends; normal access restricts the rows per set |
| `WalkData` | the same for the data array |

All options that force a value are one kind of line, `Force`, with the
dimensions it sets. `walked` is not in the code: it records over what each walk
ran, for the properties. The second read appends the cell files to
`fileMemCell` again (InputParameter.cpp:559), which the model keeps
(`cellFiles`); it is harmless because main.cpp:199 counted them before.
A forced wire of the tag (`-TagLocalWireType` and its kin) reaches the
refinement loops only: the walk over tag arrays starts from the basic wires of
the data array's ranges as reduced, which `BasicWires` shows and
`BasicWiresInRange` therefore does not claim for tags. Nothing in the repository
promises otherwise.

### BankShape, BankShares, HtreeRouting

`request` holds the arguments of one call of `Initialize`: a memory, one point
of the loop nest and the array. `BankShape` derives the block, the ways and the
capacity as `nvsim` does, and the rows, columns and row address of a subarray
as `Mat::Initialize` does. What lengths and currents decide, the longest bitline
and widest wordline of a kind of cell, are constants.

`horizontal` and `vertical` in `HtreeRouting` are the arrays
`numHorizontal*` and `numVertical*` of the bank, a record for each level; `h`
and `v` count down as in the code, `rowToActive` and `columnToActive`,
`address`, `distribute` and `broadcast` are the locals that the levels halve.

| Action | Code (BankWithHtree.cpp) |
|---|---|
| `Start` | the topmost level and which loop comes first, 224-242 |
| `ReduceHorizontal`, `ReduceVertical` | an iteration of the loop that levels the tree, 243-302 |
| `PairHorizontal`, `PairVertical` | the two halves of an iteration of the loop over what is left, 303-363 |
| `Last` | the split at the root, 365-377 |
| `Reject` | the early return in front of a level |
| `InitializeMat` | ways, multiplexers and the mat, 379-466 |

Trees with two horizontal levels count the tiers of their vertical wires
differently (BankWithHtree.cpp:353); the model has that case. The associativity is a power
of two in every request, although the program only prints an error when it is
not (main.cpp:661-664, the `exit` is commented out).

### Figures, SubArrayFigures, BankFigures, Evaluation

The circuit model computes numbers; which number a formula yields is physics,
which values flow into it is control, and that is what these modules keep. The
value of a member is abstracted to its **origin**: the set of the circuits
whose parameters it was computed from (`"bitlineMux"`, `"cells"`, `"wire"` and
so on). A sum has the origins of its summands; when the same share enters
twice, `\oplus` adds the mark `Twice`. A member that nothing assigned has the
origin `Garbage`, and whatever is computed from it has it too; `invalid_value`
is the origin `Worst`. So a property can say of a figure which circuits are in
it, that nothing is in it twice, and that it does not depend on memory nobody
wrote.

The state `s` of a tree of units has four parts: `fig`, for every unit the
origins of its members; `made`, the units whose `initialized` is true; `bad`,
those whose `invalid` is; and `complaints`, the units that printed "Require
initialization first!" or "Warning: Already initialized!". An operator such as `MuxLatency(s, p)`
is a method, from the state before to the state after, early returns included.

| Definitions | Code |
|---|---|
| `RowDecoderInitialize` ... `ComparatorPower`, `Tsv*` | the methods of the unit classes |
| `RowDecoderCopied` and its kin | the members their operator= lists |
| `SubArrayInitialize`, `Area`, `Latency`, `Power` | SubArray.cpp, with `Illegal`, `Overloaded` and `Unreadable` the early returns of Initialize |
| `MatInitialize` ... `MatPower` | Mat.cpp |
| `BankInitialize` ... `BankLatencyAndPower` | both banks; `HtreeLatencyAndPower` and `BusLatencyAndPower` where they differ |
| `Evaluation`: `Initialize`, `CalculateArea`, `CalculateRC`, `CalculateLatencyAndPower` | the calls of the macro CALCULATE (macros.h:143-156), one action each |
| `Keep`, `Drop` | `if (!bank->invalid)`: the assignment of the bank to the result |
| `Reported`, `TsvLine` | what `Result::print` prints, line by line |

A configuration `c` chooses what the conditions in the code read: the kind of
cell and access device, internal or external sensing, H-tree or bus, tag or
data, one or several mats, the numbers of address bits of decoders and
multiplexers, dies and how they are partitioned. `c.fault` is the one early
return a design meets, or none, since whether a transistor is too wide is
physics.

What the properties state exactly, with the exceptions of the code in them:
`EveryPartCounts` lists the circuits of area, read latency, read energy and
leakage for every configuration, `SharesAddUp` that the parts printed below a
total make up the total, `CountedOnce` that no share enters twice. The
exceptions are worth knowing:

- The energy of a SET (Result.cpp:624) and both programming totals of NAND (516,
  665) have no line for their TSVs, while the latency of a SET has one (489-493)
  (`Unlisted`); an H-tree bank shows a TSV latency of a refresh it did not add
  (`Unadded`).
- SRAM with external sensing adds the latency of the bank's multiplexer and
  sense amplifier twice. A write to a cross-point array (diode or no access
  device) adds the energies of multiplexers and sense amplifiers twice
  (SubArray.cpp:876-879), and one to MRAM or memristors of that kind the charge
  latency (613-619). `Doubled` names these figures; `SubArrayEnergies` and
  `OtherLatencies` add where the code adds, so that `Twice` is in them.
- Where a bus senses non-volatile cells by voltage, it takes the mat's
  `bitlineDelay` off its read latency and adds `bitlineDelayOn` or `Off`
  (BankWithoutHtree.cpp:415-419). A difference of two numbers is not the absence
  of a share: it is one of its own, `"bitlineShift"`, and the line of the wires
  holds it, in exactly that case.
- With several mats, the line of the wires of a refresh keeps what the mats that
  are not accessed take.
- BJT cells are computed from two members never set (SubArray.cpp:298, "TO-DO").

### PredecodeBlocks, Predecoder

`n` is `numAddressBit`. A count of outputs is a power of two in the code and
its exponent in the model; the remainder rule for the decoders, the rules for
groups A, B, C and the loads are the code's. `Predecoder` runs the methods over
the eight pointers of a block, of which `Present` are not null, with the origins
of `Figures`. Beyond 18 bits a block has three groups and shifts
`numAddressBitStage1A` without having set it (PredecodeBlock.cpp:133): `GroupA`,
and with it the rows and gates of stage 1A and the loads of stages 1B and 1C, is
`Garbage` then, and `DecodesAddress` and `FanOut` claim those three up to 18 bits
only; the split over decoders, their loads, groups B and C and the load of stage
1A do not depend on it and are claimed for every width. No address a mat can
have gets beyond 18 bits, as `MatSplits` proves. Every block
leaves its last stage's power at what the constructor set and takes decoder
A1's latency on the path through A2: `EveryPartCounts` states that these are the
only shares missing.

## Runs

| Run | Question | Result |
|---|---|---|
| `search` | every kind of run of the program: are winners, merge, labels, report and file right, within their limits, and does every search end? | holds; under a constraint all but the merge |
| `late_invalid` | is a winner never a rejected bank? (Bank.h:38) | violated: TRY_AND_UPDATE does not read `invalid` |
| `merge_constrained` | is the merge the best of the best? (main.cpp:249) | violated: later cells are compared under the limits of cell 0 |
| `sweep` | three launches of a sweep, two of them killed anywhere: verdicts, rows, markers, counts, files, end | holds |
| `sweep_header` | is the failure file a CSV with one header? (run_exploration.py:103) | violated: the test is outside the lock |
| `sweep_resume` | is what is counted as saved complete? (run_exploration.py:173, 360) | violated: the file is written in place |
| `search_space` | is every array of every cell searched over what the file asks for? | holds |
| `bank_routing` | are H-tree banks routed in order, without losing bits, to mats that hold the capacity, the same as on a bus? | holds |
| `bank_rows` | do the row predecoders tell all rows apart? (Mat.cpp:107) | violated: the ways are taken off the address but not off the rows |
| `evaluation` | which circuits is every figure of a design made of, in a report too, and is a rejected design worst in all? | holds, with the exceptions listed above |
| `reset_energy` | does the energy of a RESET contain that of the cells printed below it? (Result.cpp:601, 623) | violated: it contains the energy of a SET |
| `predecoder` | does a block of 0 to 28 bits decode its address, with the right loads and all parts counted? | holds, with the exceptions listed above; first stages up to 18 bits only |

Bounds. Two cells, two organisations, one refined wire of each kind and two
targets are the least with which a merge happens, a winner replaces another, a
refinement helps one target and hurts the other, and winners of two targets
differ. The circuit models of `MCDesignSearch` combine every assignment of
three profiles (rejected, good at the first target, good at the second) to cells
and organisations with shifts of the wires, and models in which some bank does
not hold its capacity. For the sweep two workers meet in every pair of steps,
a worker that is done early takes the second job or finds the queue empty,
and two crashes put one between every two steps of a worker and one in the
launch that recovers; the third launch finishes. For the search space
two cells show what one leaves to the next, and two forcing lines, in front of
the rest of the file or behind it, every order in which two options can set the
same dimension; forced values lie inside and outside the default ranges. For the
banks, memories of 512 and 2048 bits with one to four ways stand on trees of
1 to 8 by 1 to 8 mats, flat and two-tiered: three levels in each direction, so
that each loop runs several times, hands over to each other loop, and meets
levels with and without an inactive half. All sizes are powers of two, as the
loops enumerate them; `PowersAssumption` of `MCBank` has TLC confirm that these
banks meet the hypotheses of the theorems for every size. For `evaluation`, eleven kinds of cells cover every branch
on type, access device, read mode and write scheme; three shapes have every
decoder with and without gates and every multiplexer present and absent; the
banks are every combination of routing, sensing and array that
`applyConstraint` lets through (main.cpp:666-669); dies are one, two sharing a
bus per bank, and two with logic in a layer of its own. Every design is
evaluated once without fault, and once with each fault its cell can meet. There
are no loops, so there is nothing larger to try. `predecoder` takes every width
up to the first one that is refused.

Fairness. The simulator is one thread that only stops where it ends: weak
fairness of its next step. In the sweep every live worker process is scheduled
(weak fairness of each worker) and so is the parent; a crash or a new launch is
never forced. The lock is handed out by the kernel; a worker at the lock is
weakly fair because a holder always releases it two steps later and jobs are
finite.

## Proofs

`DesignSearch_proofs`, from the assumptions on sizes, wires and circuit models
named in `DesignSearch` (a bank that is not invalid has metrics below
`invalid_value`): type correctness, `KeepsTheBest`, `RespectsLimits` and
`CountedMeansFound`. None of them is inductive alone. `KeepsTheBest` needs that
a walk runs with the basic wires (`Control`), that arrays not reached yet are
untouched (`Fresh`) and that a trial is only kept if it is better, within
limits; `CountedMeansFound` needs that no limit is in force in the first walk,
and that a winner with metrics has an organisation to rebuild it from
(`Rebuildable`). `Inv` is their conjunction, `StepInv` proves it for each
action, one lemma an action.

The second part of `DesignSearch_proofs`, on top of it: `CellLabels`, `EveryDesignWritten`,
`SolutionsReported`, `BestWithoutLimits` and the action property `NeverWorse`.
The invariant `Reports` adds to `Inv` where the labels of a result come from
(`Labels`: only the merge moves the winner of another cell to the first one, and
the tag with it), that the walk that starts over belongs to a search for one
target (`Written`), that the number of solutions is positive once a finished
cell has its data banks (`Counted`), and that without a constraint no limit is
ever set, so the winners of cell 0 are as good as those of every cell merged so
far (`Merged`). The steps fall into two kinds, those that offer results to the
array being designed (`Designs`) and APPLY_LIMIT (`Resets`), and the merge; each
kind is treated once. A constrained search has no such theorem for the merge:
`merge_constrained` shows it false.

`Sweep_proofs`, for every number of jobs, workers, launches and crashes: type
correctness, `MarkedHasRow`, `SettledStays` and that `Sweep` implements
`SweepVerdicts`. The inductive invariant adds `PoolOK` (active workers have
different jobs, none of them with a result), `StepOK` (what the files say of a
job at each step of its worker) and `FilesOK` (a marker belongs to a failed job
with a row and without result file).

The second part of `Sweep_proofs`: as long as nothing was killed, `AllSettled`,
`SavedCount` and `NoLitter`. They speak of the end, so the invariant
(`Uninterrupted`) says what leads there: `JobOK`, that every design point handed
out is being worked on or settled, that configuration and CSV files belong to a
worker that will remove them and that a future says what the result file does;
`LastSteps`, what a worker knows when it cleans up; and `ParentOK`, that the
count is the cardinality of the results collected. A crash breaks every part,
which is why these three hold of undisturbed sweeps only. `NoLitter` promises no
CSV file of a design point that was saved or had no usable rows; one whose
`./destiny` exits with an error keeps what was written. `RowsBounded` holds
wherever the processes are killed: a design point that has no marker and no worker about to leave
one owes each of its rows to a crash (`Owed`), and only a crash takes a worker
away between the two.

`HtreeRouting_proofs`, for banks of every size. `LevelsInOrder`, from
`LevelAssumption` alone (the numbers of levels, which come from logarithms, are
naturals): no level is written or read out of order or outside its array. It is
not inductive: the step that reads the level above needs to know that this level
exists and was filled. `LevelInv` adds where the counters are in each loop
(`Loops`: a loop that pairs levels has as many left on either side, a loop that
reads the level above is past the first one) and that exactly the levels above
the counters are filled, in both arrays (`Filled`).

The other three properties of the routing divide and take logarithms all along,
and hold of organisations made of powers of two, which BIGFOR enumerates by
doubling and BankWithHtree.cpp:152 asks for; a `-Force` line of the
configuration can ask for others, and the theorems then say nothing.

- `BandwidthKept`, if block and ways are powers of two (`PowerBlocks`). The
  invariant `BandwidthInv`: the bits left are a power of two or none, and of a
  data array at least one for each mat still to be activated (`BitsLeft`, from
  the test for too aggressive a partitioning); each routed level carries the
  block as long as bits are left (`LevelsCarry`); and the level the next one
  hangs from carries what is left, which the three loops hand over to each other
  (`HangsBelow`). A tag array whose last bit is halved away breaks the second
  part and is rejected in front of the mat, by the test for illegal ways.
- `SharesLikeABus`: `HtreeRouting` implements `BankShares`, for which the ways
  and the organisation must be powers of two (`PowerBanks`), the block need not.
  A split either halves the data bits and the mats that remain to be activated
  or uses up one address bit, so what an active mat will get of both is settled
  from the beginning: `SharesInv` says that the quotient of bits and mats, and
  the address less the splits that will not halve, never change
  (`SplitSettles`). A bank rejected in front of a level has no address left for
  its mat, or no way (`RejectShares`). The action that ends the routing maps to
  `Initialize` of `BankShares`, every other one to a stutter (`StepShares`).
- `ValidHoldsCapacity`, if the capacity and the multiplexers are powers of two as
  well (`PowerMemories`), from `SharesInv`: by `MatHolds` what the multiplexers
  take from the rows of a mat they give to its columns, whatever
  `ExtraMux` adds, by `BlockIsShared` the block divides evenly over the active
  subarrays (the tag because it is rounded up), and by `AddressCounts` the
  address bits count the sets of a die exactly. Each quotient that would lose a
  remainder is zero, and the mat rejected.

`BankShape_proofs` has the arithmetic: laws of powers of two by induction
(`SetInduction`, which states the well-foundedness of the naturals for a set),
division of powers (`PowersDivide`, `DivideTwice`) and that the rounded logarithm
of the code is exact on them (`LogOfPower`, `LogGivesBack`).

`SearchSpace_proofs`, for any number of cells and every configuration file whose
lines are well formed and name one design target (`ConfigAssumption`): all four
properties of the search space. A file with `RAM` first and `cache` later would
break `DataAsConfigured`, since the first line restricts the rows per set for
good, so the assumption is needed. The invariant `SpaceInv` says what every
range and option is in terms of the file: during a read that of the last line
so far that sets it (`RangeBefore`, `ValueBefore`), starting from the full range
or, for what no macro restores (the dies, the access mode, the associativity),
from what the first read left; between reads that of the whole file; and during
a tag walk the reduced range. From it `TagSearchFound` and `DataSearchFound`
show that a walk runs over one space that depends on the file alone, and
`Walked` that all walks so far did. The only fact about data it needs, that
some lines have a last one (`LastExists`), comes from the well-foundedness of
the naturals.

`Predecoder_proofs`, from `BitsAssumption` (the number of address bits is a
natural): `DecodesAddress` and `FanOut`, which say themselves what holds for
every width and what up to 18 bits (`ThirdGroup`). The argument is
arithmetic, so the invariant needs no more than that a block past Initialize
has at most 27 bits (`AcceptedInvariant`): `Remainders` divides by three,
`SplitCovers` concludes that the decoders take all bits, `DecodersBounded` that
there are at most nine, and for each number of them `GroupsShare`,
`GroupAShares` and `OneDecoder` give the groups, whose gates and loads
`GatesFit` and `LoadsFit` compare with the code's.

Its second part is about what the methods compute: `TypeOK`,
`BlockFiguresDefined` and `EveryPartCounts`. `Figures_proofs` has what each
method of the units does, for any set of parts: the figures it assigns, that it
leaves all others alone, and who is initialized, invalid or complained about
(`DriverLatencyGives`, `RowDecoderPowerGives`, ...). On top of it
`InitializeGives`, `AreaGives`, `RCGives`, `LatencyOfBlock` and `PowerGives` say
the same of one method of the block, part by part. The invariant `Progress` says
what is true of a block between two calls: which parts are initialized and have
gates (`Ready`), that their capacitances are assigned once CalculateRC() has run
(`Loaded`), that stage 2 has no energies when they are summed, and what each
figure of the block is the sum of (`AreaKnown`, `DelayKnown`, `PowerKnown`). The
unset member is in these sums exactly if there is a third group (`SharesMarked`),
which is exactly beyond 18 bits (`ThirdGroup`).

`Evaluation_proofs`: all properties of `evaluation`, for every set of
configurations that meets `ConfigAssumption` (conditions are Booleans, numbers of
address bits naturals, and an H-tree senses inside its subarrays, as
`applyConstraint` asks). TLC tries three shapes of a bank; here the numbers of
bits, and with them which decoders and multiplexers have gates, are arbitrary.

None of the properties is inductive: they speak of the end of a life, and what a
call leaves depends on all that the calls before it left. The inductive
invariant is `History`: `s` is what the calls made so far give, from the
constructed bank on (`AfterInitialize`, `AfterArea`, `AfterRC`,
`AfterLatency`), and what is kept is a copy of it (`CopyOf`). That it holds is
simple; what it means is `Told`, which `HistoryTells` derives, and that is most
of the module. A bank takes one of three ways:

- It is built, and stands. `Raised`, `Sized`, `Primed` and `Ended` say what is
  true of it after each of the four calls: which units are initialized, which
  have gates and loads, and of what circuits every figure is the sum.
- Its subarray, mat or bank turns it down. `Ruined`: it has the worst value in
  all that was worked out since.
- It is the bank on a bus that refuses to sense eDRAM outside and is never
  initialized (`Unready`): its methods complain.

For each way and call there is a lemma (`AreaOnward`, `RuinedLatency`,
`UnreadyStays` and so on). For the bank that stands it is put together from the
lemmas of its parts: `SelectTime`, `MuxPowerStep`, ... say of a circuit, existing
or not, which share it adds (`Share`); `SubArrayAreaGives`, `MatLatencyGives`,
`MatPowerGives`, `WiredOutside`, `BusTotals` and `RoutedGives` add them up one
level at a time, for the sum each method takes (`SubAreas`, `MatReads`,
`BankDraws`, ...). That no share is counted twice comes from these sets being
disjoint where the code adds: `Clean` figures stay so (`CleanPlus`), `Mixed` ones
may have a share twice, and `Once` carries up that only those of `Doubled` do
(`OncePlus`). The difference of bitline delays is apart from all other shares
(`ShiftApart`) and in one sum only. `EveryPartCounts` then only compares the sets with
the circuits a configuration has, by kind (`KindsApart`, `KindsSum`);
`SharesAddUp` needs besides that the wires' line is the total without what the
mats take (`Less`); and `CopyPrintsTheSame` goes through the lists of the
operator= for every line of a report (`PlainlyCopied`, `SummedCopied`).

Every invariant and action property of a passing run is a theorem. Only
model-checked: liveness (`Terminates`, `Ends`), which the prover does not reach.
The six runs that end in a violation are counterexamples, and say
nothing of sizes other than theirs.

## Not modelled

- External sensing in the routing (`HtreeRouting`, `BankShares`; the figures of
  such banks are in `BankFigures`), CAM, DRAM and NAND flash in `BankShape`, and
  the re-initialisation of a bank.
- Numbers: the formulas of formula.cpp, Technology.cpp, Wire.cpp and the units
  (only which members they read), the factors a figure is multiplied by (active
  mats, vias, bits), the parameters MemCell derives, the neural networks.
- Options that set numbers of the circuit model, and the wording of reports.
- In the sweep: a stop of the machine, after which writes that were never synced
  may be missing; a `./destiny` that outlives its killed worker, two sweeps of one
  technology at the same time, cells generated anew between launches, and
  exceptions other than a file that cannot be parsed.
- The Pareto filters, the inverse design and the order of the pipeline: see the
  plan.

## Plan

Done: the search, the sweep, the search space, the bank, the life of a design
and its predecoders - the parts that decide what the program reports. What is
left, in order:

1. `ParetoFront`: the filters of pareto_analysis.py and destiny_utils.py
   against one definition; `pareto_frontier_nd` (destiny_utils.py:441) keeps
   what its docstring says it drops.
2. `GeometryRules`: the rules of inverse_physics_validity.py and
   `validate_cache_geometry` against `BankShape`: which legal banks they refuse
   and which rejected ones they let pass.
3. `Pipeline`: generate, explore, analyze, with regenerated cells that meet the
   results of old ones (run_exploration.py:165).
4. The repeater search of a wire, and which write parameters MemCell derives
   from which.
