# TLA+ models of the ANCHOR experiments

This directory models and checks the program in this repository: exact uniform
sampling from the intersection join of two sets of boxes, the data it is measured
on, and the harness that measures it. The modules are plain TLA+; the runs are
TLC's, the proofs are checked by TLAPS. `PROJECT.json` lists the components, the
runs, the source lines each definition stands for, the hazards and the findings.

## 1. The system

### Components

| Component | Source | State | Operations |
|---|---|---|---|
| Boxes and the sampler interface | `cpp/include/anchor/types.hpp` | two box sets (immutable) | `nonempty`, `boxes_intersect`, `ISampler::count`, `sample` |
| SweepRT | `algorithms.hpp` 513-792 | events, weights, total, two active indices | constructor (pass 1), `count`, `sample` (pass 2) |
| LiftedRT | `algorithms.hpp` 816-951 | one static range tree, degrees, total | constructor, `count`, `sample` |
| DenseActiveSet | `algorithms.hpp` 467-511 | packed array, positions, flags | `insert`, `erase`, `sample` |
| NodeRangeTree | `node_range_tree.hpp` | nested trees with active counts | build (dynamic or static), `set_active`, `count`, `sample` |
| ANCHOR decomposition | `anchor_core.hpp` | views, route trees, terminal arrays | `make_top_view`, `make_anchor_intervals`, `make_tree_layout`, `route_tree`, `compute_base_atoms` |
| ANCHOR, compiled (AC) and streaming (AS) | `algorithms.hpp` 35-461 | AC: atoms, total, alias table; AS: the top view only | build, `count`, `sample` |
| Random numbers | `random.hpp`, `fenwick.hpp` | streams, alias table, prefix sums | draw, build, select |
| Benchmark process | `cpp/app/benchmark_main.cpp` | stage, timers, pipes | one run, one JSON object, one exit code |
| Memory monitor | `scripts/run_procfs.py` | event and answer pipes, samples, deadline | poll, read, sample, acknowledge, terminate, report |
| run_one | `python/anchor_exp/experiments.py` 1046-1275 | one run | start, wait, reconcile statuses, record |
| Suite ledger | `experiments.py` 1278-1407, `aggregate.py` 63-312 | destination, staging file | resume, check, append, publish |
| Workload files | `cpp/app/workload.cpp`, `workload.py` | one file | write atomically, read with checks, in two languages |
| Real-data import | `hf_real.py`, `cli/prepare_real.py` | downloads and partial files, staging directories, collections, lock, configuration | resolve, resume, verify, build, publish, roll back, choose boxes |
| Alacarte solver | `alacarte.py` 791-1309 | calibration round, bracket, certification checkpoint | calibrate, expand, bisect, draw, decide |
| Synthetic suite | `cli/prepare_synthetic_suite.py`, `experiments.py` 407-476 | a binary and a manifest for each workload | keep, refuse, solve, write, admit |
| Validation, aggregation, plots, machine capture | `validation.py`, `aggregate.py`, `plotting.py`, `environment.py` | none | pure functions of files |

### How they interact

`run_all_lite.sh` prepares data and starts `run_suite`. The importer downloads the
assets that a source lock pins, chooses boxes from their rows and publishes
collections; the synthetic suite asks the Alacarte solver for the parameter theta at
which a generator meets a target density, and generates. Both write workload files
from Python, which the benchmark reads in C++. `run_suite` admits a synthetic workload
only with its manifest. For each run that is not in its staging file, `run_suite` calls
`run_one`, which starts `anchor_bench`: in time mode directly, in memory mode under
`run_procfs.py`. Benchmark and monitor talk over two pipes: one byte for each of four
events, one byte as the answer. The benchmark builds one sampler with `make_sampler`,
calls `count` or `sample`, writes one JSON object and exits. `run_one` reconciles
object, monitor report and exit code into a record, which `run_suite` appends to the
staging file. When no run is missing the records are checked against each other and
replace the destination.

### What is hard

* Routing must give each pair of the join to exactly one atom, through dimensions,
  trees whose leaves do not fill a power of two, and ties (ANCHOR).
* Two passes over the same events must see the same active sets (SweepRT), and a range
  must hold the partners that a degree has counted (LiftedRT): a difference biases
  samples without an error.
* Ties: equal endpoints, boxes that touch, empty boxes, equal boxes.
* An object that is called many times must return to its initial state.
* Monitor and benchmark run concurrently; the benchmark may succeed, throw, time
  out, be killed by the kernel or hang between any two steps of the monitor.
* A status is decided three times (object, monitor, exit code) and reconciled.
* Sessions end anywhere, in the middle of a line, of a download, between the renames
  of a pair of directories or of a binary and its manifest, and are resumed by other
  sessions, on other machines, under other locks, configurations and experiments.
* Endpoints answer with other revisions, other sizes, wrong, long or broken bodies.
* A solver rejects its own candidates and tries again on fresh samples: the bracket,
  the sample counts and the union bound over intervals must survive every path.
* Quotas, ids and halves must not depend on the order in which rows are published,
  although hashes collide; counts by inclusion and exclusion must come out exact;
  coordinates are int64.
* Two readers of one file format were written independently.

The list of hazards with their lines is in `PROJECT.json`.

### What makes each component correct

* Samplers: `count` is the size of the join; each sample place receives a pair of
  the join, every pair equally likely; the assertions in the code never fail.
* Active index: ranks and active points correspond one to one; a query is answered
  with the active points in range.
* Monitor: memory is sampled while it is held; the cap decides; an OK run was
  measured at every event; the monitor always returns; no mutual waiting.
* run_one: OK is earned; every run has a record; a limit is recorded as a limit.
* Ledger: one record for each run, one machine for all; nothing published is
  lost; the command repeated until it succeeds does succeed.
* Importer: what has its final name is what the lock pins; a collection appears whole;
  success means that everything is verified; repeating the command makes progress.
* Selection: fair to every stratum, independent of order, no row overlooked.
* Solver and suite: what is certified is true unless an interval missed; what a session
  leaves or a suite of runs admits is current, complete and was certified.
* Workload files: both readers read what was written and agree on what was changed.

## 2. Modules

| Module | Models | Composes |
|---|---|---|
| `BoxJoin` | boxes, empty-box filter, half-open intersection, the join | |
| `ActiveIndex` | abstract: a set of active points, one change at a time | |
| `JoinSampler` | abstract: what `ISampler` promises | |
| `DenseActiveSet` | the packed array | implements `ActiveIndex` |
| `NodeRangeTree` | the nested range tree, dynamic and static: updates and queries | |
| `MCIndex` | both indexes under the same calls | `DenseActiveSet`, `NodeRangeTree` |
| `SweepRT` | the two passes and the calls | `BoxJoin`, two `ActiveIndex`; implements `JoinSampler` |
| `LiftedRT` | lifted points and queries, degrees, groups, the calls | `BoxJoin`; implements `JoinSampler` |
| `AliasTable` | the integer alias table | |
| `MakeSampler` | the caller's choice between the two, and the table either builds | `SweepRT`, `LiftedRT`, `AliasTable` |
| `AnchorRoute` | views, intervals, route trees: the decomposition | `BoxJoin` |
| `AnchorCompiled` | construction of AC and its calls | `AnchorRoute`; implements `JoinSampler` |
| `AnchorStreaming` | the recursive calls of AS, quotas, slices | `AnchorRoute`; implements `JoinSampler` |
| `Benchmark` | one `anchor_bench` process | |
| `MemoryMonitor` | the monitor's steps and properties | with `Benchmark` |
| `RunOne` | one run and its record; the specification of all three | with `MemoryMonitor` |
| `SuiteLedger` | sessions, staging and destination | |
| `HubDownload` | one asset: endpoints, partial files, ranges, hash | |
| `RealImport` | sessions of the importer on one data root | `HubDownload` |
| `RealSelection` | halves, quotas, row groups, touching pairs, int64 boxes | |
| `CoverageSolver` | `solve_coverage`: calibration and certification | |
| `SyntheticSuite` | sessions that prepare a suite, and its admission | `CoverageSolver` |
| `WorkloadFile` | the writer, the two readers, a file that changes | |
| `MCSweepRT`, `MCAnchor`, `MCStreaming`, `MCSuiteLedger`, `MCRealImport`, `MCRealSelection`, `MCSyntheticSuite`, `MCWorkloadFile` | instances | |
| `AnchorRoute_proofs` | lemmas about the decomposition | `AnchorRoute` |
| `AnchorCompiled_proofs`, `AnchorStreaming_proofs` | theorems about AC and about AS | both with `AnchorRoute_proofs` |
| `MakeSampler_proofs` | theorems about `SweepRT`, `LiftedRT`, `MakeSampler`, `AliasTable`, `DenseActiveSet` and `NodeRangeTree` | |
| `Workloads_proofs` | theorems about `SyntheticSuite`, `CoverageSolver` and `WorkloadFile` | |
| `RunOne_proofs` | theorems about `Benchmark`, `MemoryMonitor` and `RunOne` | |
| `RealImport_proofs` | theorems about `RealImport` and `RealSelection` | |
| `SuiteLedger_proofs` | theorems about `SuiteLedger` | |

### Correspondence of state and actions to the code

**SweepRT.** A box is a number; those of R come before those of S, which makes the
code's tie rule (side, then id) the order of numbers. `events_` with the loop's
position is the set `pending`; `IsNext` picks its least member. `positions` of the
code, a list of destinations for each event, is its inverse here: the event of
each destination. `WeighStart` and `PassEnd` are the two branches of the loop of
`pass1`; `DrawStart` and `PassEnd` those of `sample`. A query to the range tree is
answered by the set of active points in range (`Partners`). The alias returns any
event of positive weight. `Throws` names the states in which the code would throw
`std::logic_error`.

**LiftedRT.** `Lifted` and `InRange` are the coordinates of a point and the axis of a
query as the constructor and `make_query` write them, lower corners on odd axes and
upper ones on even axes; the intersection test of `BoxJoin` does not occur in them.
`CountDegree` is one turn of the constructor's loop, `BeginSample` the draws of the
alias and the grouping of places by box, `DrawGroup` one group. `anchors_`, the list of
boxes of positive degree, is here the part of `degrees` above zero. `MakeSampler` is
`make_sampler` for the two algorithms on range trees.

**AliasTable.** `Classified` is the constructor up to its two stacks (`Stack`, onto which
columns are pushed in order), `Borrow` one turn of its loop and `Paired` that turn with the
condition of the loop, `Drawn` is `sample`. `Proportional` counts all draws. `MakeSampler`
applies it to the weights of the START events in their order (`EventWeights`) and to the
positive degrees in the order of the boxes (`AnchorDegrees`).

**AnchorRoute.** The sorted arrays of a view are the orders of its two sets, because
a stable filter of a sorted array is sorted; `Position` is a point's place in such an
array and `LowerRank`, `UpperRank` are the binary searches. `Interval` is
`make_anchor_intervals` and, at the last level, the moving pointers of
`compute_base_atoms`. A node of a route tree carries its anchors (`source`) and its
points (`lattice`); `Stop`, `Child`, `Children` and `NextView` are the body of the loop
of `route_tree`, `Children` with the rule of `make_tree_layout` that no node begins
beyond the last real leaf. A view's `path` is the list of nodes that handed it on.

**AnchorCompiled.** The recursion of `compile` is a set of work, taken in any order:
views, nodes, anchors of a last view. `OpenView` builds the two trees of a view,
`RouteNode` is one turn of the loop of `route_tree` with its callback, `OpenLast` and
`MakeAtom` are the branch for the last level. The alias draw is any atom, the rank
draw any rank of its interval.

**AnchorStreaming.** Each frame of `stack` is one activation of
`anchor_sample_recursive`: its view, its slice of the output, how far the slice is
filled (`cursor`), the quotas it drew and the nodes `route_tree` has in its queue, the
tree over S before the tree over R. `OpenInner` counts all nodes and draws the quotas,
`RouteHead` is one turn of the loop with its callback, which pushes the frame of the
child, `OpenLast` is `base_sample`, `Close` the shuffle and the return. A sum of quotas
below a node matters only by whether it is zero, which `Active` says; `Queued` and
`QueuedChildren` put the nodes for which it is not into the queue, left before right.
`SizeOf` is `anchor_count_recursive`, a recursive function over views, and `NodesFrom`,
one over nodes, is the walk of `make_tree_layout`; a sum of counts is the size of a set
with that many elements (`SumOf`). What the code throws is a state without a step, which
`NoLogicError` and the check for deadlock exclude. A path stands for its hash: that two
paths do not collide is not modelled.

**DenseActiveSet.** Positions count from 1 and 0 stands for `npos`; the array
operations are those of the code, in their order.

**NodeRangeTree.** Within a level a node is the set of its points; the sequence of those
sets from the first axis on is the node, and `count` is its `active_count`. Each
recursion of the code is a `Walk`, the nodes that it meets when it goes on from a node to
some of its halves and to the root of its level along the next axis: `build` to all of
them (`Nodes`), `update` to the half with the point (`Descent`, `Visited`), `collect` to
what `Onwards` says. `Outside` and `Covered` are the two tests of `relation_for_axis`,
`ByRank` is the descent of `select_active_by_rank`. A draw is any block and rank, and the
sum of the weights of the blocks, which `count` returns, is the number of draws. `dynamic` is the mode: a static
tree is built with all points active and full counts, and takes no update. `SweepRT`
and `LiftedRT` ask the tree only for what `MCIndex` shows of it: the active points in
the range of a query.

**Benchmark.** `pc` is the stage: load, allocate, build, query, check, and the
state in which the process waits for the answer to I, B, P or D. `Timer` says
which of the two timers is armed there. A process dies in two steps, because the
kernel closes its descriptors and takes its memory before it can be reaped; the
monitor looks at both, at different times.

**MemoryMonitor.** `at` is the place in `run()`; each system call of the loop is a
step. A sample is a free choice of whether the cap is exceeded. `late` is the fact
that the safety deadline has passed; it may become true at any time.

**RunOne.** `Said`, `WrapperDecides`, `AlarmMeansTO`, `OkNeedsExitZero`, `FieldsStand`
and `Complete` are the six steps of `run_one` in their order. Whether the object's
immutable fields agree with the run that was meant (`agrees`) and whether the program
was pinned to its core (`pinned`) are circumstances of the run, chosen once. The other
reasons of `run_one` to distrust a record (memory fields of a time run, peaks that do not
add up, a malformed handshake) cannot arise here: the program emits memory fields in
memory mode only, and the monitor computes the peaks itself.

**SuiteLedger.** A file is its set of records, whether some line cannot be parsed,
and the record whose newline is missing. `CutShort` and `Prefixes` are what an
interrupted write leaves: a copy or an append cut anywhere, its last record perhaps
without a newline. `origin` is a history variable: whether the staging file goes on from
all that is published, from a copy that was cut, or is a new start. A session is asked
for a set of experiments
(`--experiment-id`), with or without `--no-resume`, on some machine and build.

**HubDownload.** The bytes of a file are a sequence of blocks, each of which holds or
does not hold what the lock pins at its place; SHA-256 is right when all do. `Resolve`
and `AskedBefore` are the order in which `HubClient.resolve` asks endpoints and what it
takes for an answer; `Promote`, `Discard`, `Open`, `Receive` and `Install` are the
branches of `download`: a complete partial file, a useless one, a request with or
without a range that is answered with 206 or 200, the blocks of the body, its end.

**RealImport.** `pc`, `nth` and `done` are where a session stands: which dataset, which
asset or which rename. `Admit` is the decision of each `prepare_*` between nothing to
do, refusal and import; `Fetch` to `EndOfBody` download; `ReadRange`, `RetryRange` and
`GiveUpRange` are the requests of `HubRangeReader`; `MakeStages`, `WriteStages`,
`Publish`, `PublishFails` and `RollBack` the publication; `Verify` the end of the
session. `Kill` may come between any two steps and leaves the files. A lock has source
directories of its own, so `ChangeLock` finds no files. Removing a directory takes two
steps, in between which it is torn. A session's staging directories carry its process
number, so the next session knows nothing of them.

**RealSelection.** Texts are numbers in their order, a hash is any function, with
collisions; odd strata of equal hash go by their canonical JSON (`Canonical`), in any
order that tells them apart. Of what `prepare_coco` asks of a proposal's box, which is
refusal only, `proper` is the part about XY and `zEnd` the upper end in z. The choice of CMAB is `cmab_split_indices` with its keys, that of GeoLife
`select_geolife_indices` with quotas by largest remainder and slices of the sorted
pool, that of COCO the images first by hash, the row groups of `_row_groups_for_z` and
the half of each image's proposals. `TouchingPairs` is `boundary_touching_diagnostic`,
`Centre` and `BoxOf` are the int64 arithmetic of `_load_geolife_candidates` and
`geolife_boxes`, with `Wrap` for what numpy does beyond the limit.

**CoverageSolver.** `pc` is the place in `solve_coverage`, `_find_empirical_root` and
`_certify_candidate`. Probabilities are integers from 0 to `One`, thetas a grid. What
interval arithmetic returns is an enclosure of the exact value that reaches beyond it
by any of `Slacks`; a confidence interval is any interval of a radius of `Radii`, and
`missed` records whether one did not hold the truth, which the failure probability
delta allows.

**SyntheticSuite.** `binary` and `manifest` are the two files of each workload by the
configuration they were generated from, `at` and `next` where a session stands,
`answer` what the solver says of a configuration, since its Philox streams replay.
`Keep`, `Refuse`, `Solve` and `Replay` are the branches of the loop of
`main` of `prepare_synthetic_suite.py`, `WriteBinary` and `WriteManifest` the two renames, between
which a session may stop. `Admitted` is the comparison of a manifest with its case in
`_validate_synthetic_manifest`, which does not ask for the tolerance.

**WorkloadFile.** A cell is a word of eight bytes; `Header` and `Cells` are
`write_workload`, `PyRead` and `CppRead` the two readers, each with its own checks in
the order that decides. A change is a cell, an offset, a count, the size, the format,
the length of the file, or a new digest for what the file now holds.

## 3. Runs

| Run | Shows | Instance |
|---|---|---|
| `index` | the packed array implements `ActiveIndex`; every query of the range tree, dynamic or static, is answered exactly | 4 points, 2 axes, 54 placements, 169 queries |
| `sweep` | pass 2 agrees with pass 1, a lifted query holds the partners of a box, the alias draws by exact shares, SweepRT and LiftedRT implement `JoinSampler` | 2 x 2 rectangles of 7 shapes, outputs to 2 |
| `compiled` | every pair is in one piece of work throughout, atoms weigh what they hold, AC implements `JoinSampler` | 1 x 3 rectangles of 6 shapes, outputs to 2 |
| `streaming` | nodes weigh the pairs they hand on, no throw is reached, streams are used once, AS implements `JoinSampler` | 2 x 2 boxes of 6 shapes in 3 dimensions, outputs to 3 |
| `run_one` | memory sampled while held, one object, OK is earned, a cap is recorded, nobody waits for the other, every run yields a record | one run, both modes, every task, every interleaving |
| `ledger` | one record for each run, nothing lost but by a new start or a torn copy | 2 experiments, 2 machines, 2 crashes, torn appends and copies |
| `ledger_repeat` | the suite is published unless a line is unreadable or two modes of a run ended differently | 2 experiments, runs that fail, 3 crashes, torn appends |
| `real_import` | final names hold pinned files, collections appear whole and stay, pairs are one import, success is verified, repetition succeeds unless a dataset is blocked | 3 datasets, 4 assets of 3 blocks, 2 endpoints, 4 faults, 2 locks and configurations |
| `selection` | fair shares, no proposal overlooked, exact touching counts and int64 boxes, no dependence on the order of rows | relations of 2 to 5 rows in every order, int64 of 16 values |
| `synthetic` | the bracket holds the root, certified means true, the union bound counts, OK and admission are current and certified, sessions end | 2 workloads, 4 configurations, 9 thetas, 2 rounds of 2 checkpoints |
| `workload_file` | both readers read what was written and agree on what was changed but in named cases, one change is noticed | 3-bit words, 2 changes |
| `time_limit` | a statement of the documentation that does not hold in memory mode | |

**Bounds.** In `index` four points make two full levels of a tree and can be packed in all
orders; the placements have ties along either axis, along both, and none; the ranges
are strict, weak, one-sided, two-sided, of one value and empty. The shapes of `sweep` and
`compiled` let endpoints tie, boxes touch, nest, coincide and be empty. In `sweep`, two
boxes on each side let both orders of START events occur and let one event or box have
two partners. In `compiled`, three boxes on side S make a tree of three leaves and a
fourth that is padding, so that anchors stop at inner nodes, at leaves, at a node that
is partly padding and at several nodes; two dimensions make one routed level and one
last level. In `streaming`, three dimensions nest calls three deep, so that an inner
slice begins inside another; with two boxes on each side the two trees of a view can
have nodes of the same ranks that both get a quota, and outputs of three places put a
slice between two others. Outputs of two places let one event or atom be drawn twice.
One run has no bounds: its state space is finite as it is. In the ledger, two crashes
let a session be cut in its repair of an earlier cut; two experiments let a session ask
for less than is published; two machines let a resume be refused.

In `real_import` three blocks let a partial file be empty, short, wrong in the middle,
complete and too long; CMAB has two assets, GeoLife two collections that must come from
one session, and COCO is read over ranges, so every branch is there once; four faults
let a rename fail, a roll-back be killed, and two later sessions fail as well; two locks
and configurations let a collection be out of date. In `selection` five rows give strata of
even and odd sizes on both sides of a tile's border, quotas with equal remainders, and
row groups that are partial, out of order and without statistics; under one salt all
hashes collide. In `synthetic` the means meet the target at once, late, not at all or in
one jump; two rounds let a candidate be rejected and replaced, two checkpoints let a
decision wait for more samples; one workload is edited, also in nothing but its
tolerance, and one has a tolerance of which an eighth vanishes. In `workload_file` words
of three bits include numbers of both signs and some that are not finite; arrays of odd
length leave padding; two changes let one hide the other. The proofs remove these
bounds for the modules they are about.

**Fairness.** `RunSpec` of `RunOne` assumes that the monitor or the waiting harness is
scheduled, that a process sent SIGKILL or exiting becomes reapable, and that a process
that can read its answer reads it: what the operating system does for any process that
is ready. Nothing is assumed of the benchmark's own progress or of time:
`RunIsRecorded` says that a record follows once the deadline has passed (`late`), and
`Answered` that no wait of one side on the other lasts. `SuiteLedger` assumes, for
`PublishedUnlessIrreconcilable` only, that the user repeats the command and that a session that
is not stopped goes on; crashes are bounded by `MaxCrashes`, as forever crashing
publishes nothing. `RealImport` assumes the same of `Progress`: a session goes on, and
the command is repeated; failures of endpoints and of the file system are bounded by
`MaxFaults`. `SyntheticSuite` assumes of `Step` that a session that is not stopped goes
on: the solver ends because its rounds, expansions, bisections and checkpoints are
counted.

**Deadlock.** It is not checked in `run_one`, since a run ends; in `workload_file`, where
what cannot be written is not, and the changes run out; and in `index`, since a static
tree takes no update. All others check it.

**Mutants.** Definitions named for a mistake (`BeforeStartFirst`, `InRangeTouching`,
`BorrowThreshold`, `VerifiedByChecksums`, `RejectedOnceMore` and so on) stand before the
definition they would replace and are used by nothing; each is refuted by a property of
a run.

## 4. Proofs

For every value of the constants, under the named assumptions of `BoxJoin`,
`AnchorRoute`, `SuiteLedger`, `HubDownload`, `RealImport`, `CoverageSolver`,
`SyntheticSuite` and `WorkloadFile`. Properties that these theorems state and that say nothing the runs
need to repeat (`CountIsExact`, `WeightsAreBlocks`, `NoLogicError`, `RanksAreActive`,
`DoneIsRecorded`, `ReplacedOnRequest` and most type invariants) are not checked again
by a run.

* **SweepRT** (`MakeSampler_proofs`). The inductive invariant `IInv` says that the events
  swept so far come before the pending ones (`Swept`), that the active points are
  those started and not ended (`ActiveIsLive`), that in pass 1 `total` is the number
  of pairs both of whose boxes have started (`Pass1Inv`), that after it every weight
  is the size of a block (`BuiltInv`), and that each place of an output that has
  been passed holds a pair (`PlacesInv`). None of the properties is inductive
  without these: `CountIsExact` speaks only of the end of the pass. The key lemma,
  `PartnersAreBlock`, says that at a START event the active points that pass the
  query are exactly the block of the event. From `IInv` follow `CountIsExact`,
  `WeightsAreBlocks`, `DrawIsUniform`, `NoLogicError` and the refinement of
  `JoinSampler`.
* **LiftedRT** (`MakeSampler_proofs`). Every axis belongs to one dimension and every
  dimension has two axes (`AxisFacts`), so the range of a lifted box holds exactly its
  partners (`PartnersAreRow`) and a degree is the size of a row of the join
  (`DegreeIsRow`). `IInv` adds to the types that during construction `total` is the
  number of pairs whose box has been taken, and during a call that the boxes still to
  come have positive degree and the places passed hold pairs. From it follow
  `CountIsExact`, `RowIsUniform`, `NeverThrows` and the refinement of `JoinSampler`.
* **MakeSampler** (`MakeSampler_proofs`). The object that is made is one of the two, and
  the other stays as it was; so the invariant of the one that was made holds throughout,
  and `DrawIsUniform`, `RowIsUniform` and `IsJoinSampler` hold of `MakeSpec`, which the
  run `sweep` checks.
* **AnchorRoute** (`AnchorRoute_proofs`, lemmas only). A rank lies in an anchor's interval
  exactly if its point starts inside the anchor (`InsideIsOwned`), so an interval is as
  long as the anchor has points (`IntervalCounts`), and of two boxes that meet in a
  dimension exactly one owns the other (`OneOwner`). Hence to open a view, to route a
  node and to turn a last view into atoms each replace a piece of the decomposition by
  pieces that partition its pairs (`OpenViewPartitions`, `RouteNodePartitions`,
  `OpenLastPartitions`, `MakeAtomPartitions`). Both samplers rest on these.
* **AnchorCompiled** (`AnchorCompiled_proofs`). `Replace` turns the partitions into
  `KeptOnce` once and for all. `IInv` adds that the points of a node are those of its range (`NodeOK`), without which
  an anchor that covers a node need not own its points; that no work holds a pair
  outside the join (`OnlyJoin`); and that `total` is the number of pairs in atoms
  (`Counted`). The padding is any number of leaves that holds the points: that it is a
  power of two does not matter.
* **AnchorStreaming** (`AnchorStreaming_proofs`). The nodes below a node are the least
  set that holds it and the children of its elements (`Reached`); what the recursive
  functions compute is then proved without induction over data, by taking a node or a
  view of least size for which the claim would fail (`LeastThing`): `NodesFrom` is
  `Reached`, each pair of a view is handed on by one node (`NodesHandOnce`), and `SizeOf`
  is the number of pairs (`SizeOfIsExact`, whence `WeightsAreExact`). The invariant of
  the stack has four parts. `StackOK`: in a frame that routes, the places filled are as
  many as the draws whose node is no longer below anything queued (`DrawsOK`, over
  `Pending`); when the queues are empty every place is filled, when a node is asked its
  share fits, hence `NoLogicError`. `SlicesOK`: the slice of a call begins where its
  caller's cursor stands, and all places before the cursor on top hold pairs of the join.
  `FreshOK`: no path that has been opened leads through a node that is still pending,
  hence `StreamsAreFresh`, since a path names a stream. `CountOK`: the count is known to
  whoever replies with it. The queue of a frame matters only by the ranges of its nodes,
  which are apart (`QueueOK`). The refinement maps all steps of a call but the last to
  stutters.
* **DenseActiveSet** (`MakeSampler_proofs`). `DenseTypeOK /\ RanksAreActive` is inductive;
  the refinement of `ActiveIndex` follows.
* **NodeRangeTree** (`MakeSampler_proofs`). `Walk` is a recursive function; each of its
  uses goes on to smaller nodes (`OnwardsAreSmaller`: fewer axes left, or fewer points), so
  it is the least set that the recursion does not lead out of (`WalkIsMet`). All else is
  said of such sets. `update` meets the nodes that hold the point and no other
  (`VisitedHoldThePoint`), as keys are totally ordered and the left half comes first; hence
  the invariant `TreeInv`, that each node counts its active points. The points of a block
  satisfy the axes left behind (`EarlierAxes`) and its own (`BlocksAreInRange`); the
  smallest node met that holds an active point in range is a block (`HitsAreInBlocks`); and
  from each node met that holds a point of a block `collect` goes on to that block, so that
  it is the only one (`BlocksAreDisjoint`). The ranks of a node are those of its left half
  and then those of its right half (`RanksOfHalves`), by which `ByRank` finds the point of a
  rank. Draws and points in range are then one to one, which is `QueriesAreExact`, for any
  points, number of axes, coordinates and ranges. `SkeletonAssumption` says that there are
  points, finitely many and numbered, with coordinates and bounds that are numbers.
* **AliasTable** (`MakeSampler_proofs`). A column is open while it is on a stack. The
  invariant of the loop, `TableOK`, says that the open columns together hold exactly what
  would fill them (`HasMass`, with masses counted as piles of units so that sums are
  cardinalities), that no column is on both stacks and each stands where its mass says
  (`HasStacks`), and that the draws which closed columns already send to an
  index, with what it still holds, are its weight times the number of columns
  (`HasShares`). A large column therefore always has what the small one lacks
  (`PairingExists`, `BorrowOK`), which is the exception of the code that is never thrown; every
  turn closes a column; and when a stack is empty each open column holds exactly the total
  (`PileIsLevel`), so that closing it as its own alias gives every index its share
  (`AliasIsProportional`). `DrawIsAlwaysProportional` applies this to the weights: the
  ranks of a strict order on a finite set are one to one with it (`Listed`), so
  `EventWeights` and `AnchorDegrees` are sequences of naturals.
* **Benchmark, MemoryMonitor, RunOne** (`RunOne_proofs`). They have no constants, so TLC's
  run is exhaustive; the proof gives the reasons. None of the four invariants is inductive.
  `IInv` says of the process that nothing is printed before its end and that exit code 0
  comes with an object that says OK or EMPTY-JOIN (`ProcessOK`); in memory mode that a byte
  is in a pipe only while the process waits at its event or has ended there, and an answer
  only after the sample (`PipesOK`), that the event in the monitor's hand is the one the
  process waits at, unanswered (`Handled`), that all events behind the process, and all it
  announces once it exits with 0, were sampled (`Sampled`), that a monitor which has decided
  only waits for the end (`Decided`), and which reports then go with which cap, deadline and
  exit code (`Verdict`). `HeldWhileSampled` follows from `Handled` and `Sampled`; `OkIsEarned`
  by going back through the reconciliation (`RecordedOk`) and from exit code 0, of eight bits,
  to the process's own (`EightBits`); `CapIsRecorded` because a limit that is reported
  survives each of its steps (`LimitStands`). The comparison of fields is made of the last
  object printed, so it could turn the record of a cap into BENCHMARK-ERROR if a finished
  run of the wrong fields were over the cap: there is none, as the monitor answers the last
  event within the cap only and then samples no more (`LastAnswered`). Two theorems are not properties of the run:
  `NobodyWaits`, the part of `Answered` and `RunIsRecorded` that is safety, in which the
  proof asked for the clause that a monitor waiting for an unsignalled process has answered
  its last event; and `RecordedByMode`, which is why `SuiteLedger` may take the statuses of
  time runs to be without those of the cap and of lost samples.
* **SuiteLedger** (`SuiteLedger_proofs`). `IInv` adds that a published file is whole
  (`PublishedIsWhole`), that readable files obey the rule of one record (`FilesOK`),
  what a session knows at each place (`Informed`), and that the staging file carries
  what is published unless it was started anew or goes on from a copy that was cut
  (`Carried`). `NothingIsLost` assumes nothing of which writes may be cut: it says what a
  cut copy may lose, namely whole experiments that the session was not asked for.
  `SuiteLedger_copy.cfg` shows that it does lose them (finding 5).
* **RealImport** (`RealImport_proofs`). The properties speak of what has its final name;
  a step that renames can only be judged by what its session knew before. `IInv` says
  where a session may stand (`Place`), which assets it has by then (`Fetched`), that
  during a body the hash is of the bytes on disk (`Hashed`), without which a resumed
  file could pass by its length, and that of a dataset being published the collections
  renamed are whole, the others absent and waiting whole in their staging directories
  (`Staged`), without which the second of a pair could differ from the first. It
  implies `SourceIsLocked`, `PairIsOneImport`, `OkIsVerified` and, as an action
  property, `PublishedIsWhole`.
* **RealSelection** (`RealImport_proofs`). The invariant `RelationOK` is the shape of the
  relation; the rest is about the operators. Keys without ties order a finite set
  (`KeysAreOrdered`), its ranks are the numbers below its size (`RanksAreOrdered`,
  `EveryRank`), so the first n are n (`SmallestTakes`). A sum over strata is the size of
  what is disjoint (`SumCounts`) or goes element by element (`SumAdds`, `SumScales`,
  `SumAtMost`, by induction over the subsets of a finite set). Hence `SharesAreFair`: what
  the rounded shares miss is at most the number of odd strata of CMAB, or of positive
  remainders of GeoLife, and those come first in their order (`RoundedIsMissing`,
  `QuotasFit`); a slice of the sorted pool is the first rows of its stratum, since a key
  between two that begin alike begins like them (`Between`, `SliceIsFirstRows`).
  `TouchingIsExact` is inclusion and exclusion: two boxes meet by one end of an axis at
  most, and by both axes at a corner (`EndsAreApart`, `CornersMeetTwice`). `BoxesAreExact`
  follows what wraps (`WrapFacts`). The difference of ordered bounds is negative once it
  wraps, and is refused; that of reversed bounds is positive once they are more than half
  the range apart, and they pass if it is even (`WhoHasACentre`), with a centre half the
  range away from the middle (`CentreIsExact`; finding 7). The box round a centre
  never wraps, because the centres at either end are refused.
  For `ChoiceIgnoresOrder` the invariant is `ChoiceStands`: what was chosen is what would
  be chosen again. A step publishes the rows in another order or in the same
  (`Reordered`, `StepReorders`); strata, quotas and refusals stay, and members, ranks and
  slices move with their rows (`Carries`, `CarriedRank`, `CmabQuotasMove`, `SlicesMove`,
  `CocoFailsMove`), so the same triples are chosen. GeoLife sorts stably, and its keys
  differ before the place of the row only if points are unique (`LastIsIdle`), which is
  the premise `PointsAreUnique`.
  Of the hash only `HashIsANumber` is assumed, so it may collide; of canonical JSON, that
  it tells strata apart (`EncodingIsExact`, a hypothesis of `SharesAreAlwaysFair`).
  `InputsAssumption` is
  what the columns hold by their types, and that no box is empty, which the writer
  refuses; `NumbersAssumption` is about the tile and the radius.
* **CoverageSolver** (`Workloads_proofs`). `SolverInv` adds to the properties that
  the expansion stands at the end of the bracket it moves (`AtTheEdge`), what each
  round may have spent on intervals (`Spent`), and what a call does not have yet
  (`Pending`). Every step preserves it, for any curves, enclosures, truths and budgets.
* **SyntheticSuite** (`Workloads_proofs`). `SuiteInv` adds what a session waits for or
  writes from (`Underway`), that all files come from certified answers (`Certified`), that
  the workloads it has passed are as the plan says (`Passed`), and that verdicts stand
  while no session runs (`Judged`). With `SolverInv` it implies `BracketHoldsRoot`,
  `CertifiedIsTrue`, `UnionBoundCounts`, `OkIsCurrent` and `AdmittedIsCertified` of the
  whole; with `OnRequest` it implies `ReplacedOnRequest`.
  `SessionsAreCounted` is the safety half of `SessionEnds`: `Rank` counts the workloads
  to come, how far the session is with this one, the rounds to come, how far the solver
  is with this one, the tries left to it and the samples left to draw; all six are
  natural numbers, and every step of a session lowers the first that it changes
  (`Closer`). So no curve and no budget lets a session go on for ever; that it has a
  step to take until it ends, and takes it, stays with TLC.
* **WorkloadFile** (`Workloads_proofs`). `Layout` says what `Ends` computes: each
  array ends where the one before ends, aligned, and its length more. So every cell of a
  written file belongs to one array or to padding (`WrittenCells`, `EveryCell`), and what
  is read back is what was written (`WrittenIsRead`); `ReadersAlike` compares the two
  readers check by check on any file. For one change: a cell of an array is in the
  digest (`PayloadTells`), a cell of padding is asked to be zero (`CellIsNoticed`), an
  offset is the only aligned place that follows its predecessor without room for another
  (`OffsetIsNoticed`, `AlignFacts`), a count moves the end of its array
  (`CountIsNoticed`), a length is compared (`SizeIsNoticed`, `ResizeIsNoticed`), a new digest
  of the same payload is the old one (`ResealIsNothing`). The invariant `Kept` says that
  the file is what was written while nothing has changed, and has the form of a file
  ever after. `FileAssumption` is about the width of a word and the alignment,
  `InstancesAssumption` says that a workload has six arrays of words. The last case of
  `ReadersAgree`, in which only the Python reader refuses a file because a relation is
  empty, takes three changes, one more than the run makes: the proof required it.

Model-checked only is liveness (`Answered`, `RunIsRecorded`, `PublishedUnlessIrreconcilable`,
`EventuallyImported`, `SessionEnds`), as TLAPS handles neither fairness nor ENABLED.

## 5. Findings

Where a document or a comment says one thing of the program and the model of the code
does another. The first is a run, and `PROJECT.json` quotes its lines. The others are
reproduced with `tlc -config <file>.cfg <module>`; TLC must report a violation.

1. In memory mode the main timer's SIGALRM is recorded as BENCHMARK-ERROR, not TO
   (run `time_limit`).
2. A workload rejected before the baseline can be recorded as
   MEMORY-MEASUREMENT-UNAVAILABLE (`RunOne_RejectionIsPreserved.cfg`, `RunOne`).
3. A MEMORY-CAP-EXCEEDED record makes its suite unpublishable (`SuiteLedger_cap.cfg`,
   `MCSuiteLedger`).
4. A torn append makes its suite unresumable (`SuiteLedger_torn.cfg`, `MCSuiteLedger`).
5. A session stopped while copying the destination can lead to the loss of
   published records (`ResumeLosesNothing` in `SuiteLedger_copy.cfg`, `MCSuiteLedger`).
6. The importer reports success over collections that were built under an older
   preprocessing configuration, since `verify_collection` asks only that one is named;
   README.md:147 says that the commands fail rather than substitute a stale artifact
   (`RealImport_stale.cfg`, `MCRealImport`).
7. `_load_geolife_candidates` refuses published bounds that "have no integer center" by
   asking whether their int64 difference is negative or odd (hf_real.py:1413). Reversed
   bounds more than half the range of int64 apart pass, and the centre is half the range
   away from their middle (`BoundsHaveTheirCentre` in `RealSelection_bounds.cfg`,
   `MCRealSelection`). Published coordinates are far from such values, so only damaged
   data would show it.

Seen while modelling, against no document, and therefore not listed as findings: a kernel
OOM kill between the monitor's poll and its sample is recorded as a lost measurement; an
importer killed between the renames of the GeoLife pair leaves half a pair that every
later session refuses (the disjunct of `EventuallyImported`); the suite of runs admits a
synthetic workload without comparing the tolerance it was certified at;
`prepare_synthetic_suite` does not compare `model_version`, which `experiments.py` does;
the payload digest does not cover the endpoint type in the header, so that a file whose
type alone is changed may be read (`OneChangeIsNoticed`); an empty relation makes the
Python writer fail while taking its bytes; the Python reader checks neither padding nor
repeated ids; its count of cells, `np.prod` of 64 bits, may wrap where `workload.cpp`
checks the product, but the rows then exceed the file or numpy maps no array of that
shape, so that no file is read because of it.

## 6. Not modelled

* `range_tree.hpp` (only its tests use it) and `fenwick.hpp` (no sampler uses it).
* SHA-256 and the random generators: fixed arithmetic on words. Rejection sampling and
  shuffles are free choices. The exception of an alias table whose scaled masses exceed
  128 bits is left out.
* The interval arithmetic of Alacarte over binary64 and the generation of boxes from a
  certified theta; the statistics of validation; metrics and CSV of the aggregation:
  floating point with no state.
* The importer's modes that only check, verify or download, its disk-space check, and
  the parsing of Parquet and JSON; two importers at once on one data root.
* Plots, machine capture, option parsing, packaging: no state.
* Two sessions at once on one output: nothing in the code excludes it, so no property
  could hold.

## 7. Plan

Done: the samplers (`BoxJoin`, `JoinSampler`, `SweepRT`, `LiftedRT`, `MakeSampler`, `AliasTable`,
`DenseActiveSet`, `NodeRangeTree`, `AnchorRoute`, `AnchorCompiled`, `AnchorStreaming`), the
measurement of one run (`Benchmark`, `MemoryMonitor`, `RunOne`), the ledger
(`SuiteLedger`) and the data (`HubDownload`, `RealImport`, `RealSelection`, `CoverageSolver`,
`SyntheticSuite`, `WorkloadFile`). What is left, in this order:

| Module | Models | Why it is last |
|---|---|---|
| `RealImport` | the modes that only check, verify or download | they read what the sessions here write |
| `Metrics` | grouping, medians and speedups of `aggregate.py` | pure, and tests reach it |
