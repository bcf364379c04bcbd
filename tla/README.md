# Verification of Pallas-Mosaic-GPU

TLA+ models of this repository: the warp-specialised splash-attention kernels
of `splash_attention_mgpu/`, the sparse schedules they walk, the dispatch that
chooses and launches them, and the job queue `tools/gpu_farm.py`. TLC checks
each model on small instances; TLAPS proves the theorems listed below for every
value of the constants. `PROJECT.json` lists the runs, the faults that every
property was tried against, the lines each definition translates, the hazards
and the findings.

## The system

| Component | State | Operations | Interacts with | What makes it correct |
|---|---|---|---|---|
| Forward kernel, `kernel.py` | K/V/mask/segment ring in SMEM, Q tile, two S buffers, P and O in TMEM, 9 families of mbarriers, loop counters of two warps and a warpgroup | TMA loads and drain; QK and PV MMAs; softmax, rescale, output | tensor core, copy engine, mask schedule | each buffer handed over only when free; each step accumulated once, in order, at a matching running max; no hang; clean exit |
| Ping-pong forward kernel, `forward_pingpong.py` | two Q tiles on one K/V ring, one TMEM buffer per tile for S and P, `alpha`, `turn` and `o_corrected` barriers | as the forward kernel, with an optional correction warpgroup and turns between the softmax warpgroups | as above | the same for both tiles; a slot is free only when both are done; the turn is never lost |
| Fused backward kernel, `backward_fused.py` | Q/dO ring, K/V block, packed S^T/P^T and dP^T/dS^T unions, dS^T buffers, dQ accumulator and staging tile, dK/dV accumulators, 13 families of mbarriers | TMA, five MMAs per step, elementwise math by several warpgroups, dQ reduction | as above, plus atomic adds to dQ in global memory | each step reaches dQ, dK and dV exactly once |
| Split backward kernels, `backward.py` | rings; S/P and dP/dS unions, one or two buffers of them | dQ kernel over a q block; dK/dV kernel over a KV block and the q heads of its group | as above | as the forward kernel, per gradient |
| Mask schedule, `mask_info.py` | arrays of steps, blocks, kinds and stored masks, per row and, transposed, per column | compaction, transposition, heaviest first | read by all kernels | every visible pair attended to once, no other; forward and backward use the same blocks |
| Dispatch, `splash_attention.py` and the budget checks of the kernels | requested block sizes, cache of schedules | choice of tiles, forward call, gradient | calls the kernels with a schedule | what is launched fits in TMEM and SMEM and walks its own schedule; automatic choices break no call |
| Numerics, online softmax and `exp2_emulated` | running max and sum | lazy rescaling | inside the kernels | rescaling keeps P bounded and the sum exact |
| GPU farm, `tools/gpu_farm.py` | directories `queue`, `running`, `done`; the dictionary of `serve`; job processes | `submit`, `serve`, `status`, `wait`, SIGTERM | clients over the file system; jobs over process groups | no job lost, no job passed over twice, one job per GPU, fillers never delay work |
| Tools, tests, host setup | none of their own | fuzz, bench, sweep, summarise, shard, launch | the farm and the kernels | not modelled: input and output only |

The hard behaviours are the interleavings of up to seven asynchronous actors
per CTA that share buffers under parity barriers; schedules that are built twice
and must agree; budget formulas kept beside the allocations they stand for; and,
in the farm, crashes between file-system steps, processes that outlive their
parent and readers that list directories one after the other.

## The modules

Kernels with a module of actions of their own:

* **`MBarrier`** — the external mbarrier: arrivals left in the phase, phases
  completed, and phases each waiter has waited for. Only the parity of the last
  two is tested, as the hardware does, so a barrier two phases ahead of a
  waiter looks incomplete to it. The transaction bytes of a copy and its
  arrival are one arrival.
* **`AttentionRow`** — what a CTA promises of each result: accumulate the steps
  of its row one by one and in order, then write once, from all of them.
* **`ForwardKernel`** — one CTA of `kernel.py`. An action is the code of one
  thread up to and including its next barrier operation; `tmaPc`, `mmaPc` and
  `smxPc` are the places where a thread waits or arrives. `CopyEngine` lands a
  TMA copy and arrives on its barrier; `TensorCore` retires an issued MMA. The
  model lets them retire in any order, except that a commit follows the MMAs
  issued before it: more behaviours than the hardware has. Data are tags: a cell
  of SMEM or TMEM holds the step whose data it has; P and O also hold the
  *version* of the running max they were computed with, and rescaling O moves
  its version. `call` chooses the row length, its PARTIAL steps, segment ids,
  dense mask and whether the output reuses `q_smem`. A computed mask
  (`mask_function`) has no barrier and behaves like a FULL block. The division
  by the row sum and `lse` have no tag of their own: `SmxReadO` checks that the
  final running max matches O.
* **`FusedBackward`** — one CTA of `backward_fused.py`, with `NumEw` elementwise
  warpgroups. MMAs execute in issue order, which this kernel relies on, except
  in the interpreter build (`call.serialize`), where any order is allowed and
  `mma_order` must do. S^T shares TMEM columns with the packed P^T, dP^T with
  dS^T: a store by any warpgroup destroys the scores. The head loop and
  `step_rows` flatten into one step counter, as `for_each_step` does.

Kernels as programs of one machine:

* **`CtaCode`** — a Pallas kernel is Python that builds straight-line code for
  each thread; so is its model. An instruction awaits a barrier phase, or runs
  an operation and arrives on a barrier, and issues copies, MMAs and commits.
  An operation names the cells it reads, *with the tags that the sequential
  algorithm would find there*, and the cells it writes.
* **`Cta`** — runs the compiled programs: threads, a copy engine that lands
  copies in any order, and a tensor core that retires MMAs in issue order, or in
  any order in the interpreter builds. An operation that finds another tag than
  it names writes `Wrong`, which `Deterministic` forbids. `Fused` joins a wait with the
  work issued right after it, and an operation with the arrival that publishes
  it: no other thread can tell them from one step, since nobody else is allowed
  to touch what is in between, which is what `NoRace` checks. For that, an
  operation counts as open while its thread *may* run it, so two operations that
  could overlap meet in some state although each is one step.
* **`PingPong`**, and **`BackwardDq`** and **`BackwardDkv`** over **`BackwardCta`**
  — the programs of the ping-pong and the split backward kernels, with the
  options that change their control: segment ids, dense masks, `correction`,
  `schedule`, `serialize_pv`; double buffering, `serialize_mma`, the number of
  warpgroups. In `BackwardDkv` the TMEM columns of a union are split so that the
  packed P^T of one warpgroup lies where another one loads S^T.
* **`MCKernels`** chooses their launches and checks the three with one run.

Schedules and dispatch:

* **`MaskSchedule`** — `process_mask` as functions: kinds, stored partial
  blocks, compaction with padding, transposition, stable heaviest-first order.
  Which heads share a schedule and the block mask itself come from JAX's
  `process_mask`, modelled from how it is used.
* **`ScheduledGrid`** — the CTAs of a grid that take their block from the order
  and walk its steps in sub-blocks, for the kernels that walk rows (forward, dQ)
  and those that walk columns for every head of a group (dK/dV, fused). It
  implements **`SparseAttention`**, which knows only which pairs of a query and
  a key the mask shows.
* **`Dispatch`** — an object holds the requested sizes, the mask and the
  environment; `Call` chooses the tiles and fills the cache, `Forward`,
  `FusedBackward` and `SplitBackward` launch or raise `ValueError`. The budget
  formulas and the sums of the scratch types are separate definitions, as in the
  code. What a mask has for this component is abstract: its heads, whether it
  needs stored blocks, and the relative work of its 256-row schedule.

Farm:

* **`GpuFarm`** — `serve`, clients that `submit`, a client that `wait`s for all
  jobs, and the job processes. Each change of a directory is a step, and `serve`
  may die between any two. Its dictionary `running` is `order` (insertion order,
  which decides what is reaped first and which filler is youngest), `job`,
  `preempted` and `proc`. Job names are the order of `f"p{priority:03d}-{seq}"`.
  A job in `Broken` has a working directory that is gone: `Popen` raises and
  ends `serve`, with the job in `running/`. A client is two steps: `Stamp` takes
  the time stamp that orders jobs of one priority (`gpu_farm.py:55`), `Submit` is
  the rename that makes the file visible (62); clients may rename in another order
  than they stamped, or die in between, and a job counts as submitted from its
  rename on. `_next_job` is two steps as well: `List` (78) keeps the names in
  `listed`, `Claim` (83) renames the first of them; jobs appear in between. Its
  `FileNotFoundError` cannot happen with one farm, since nobody else takes files
  from `queue/` (`listed \subseteq queue` is proved). History variables: `started`,
  the jobs this `serve` has started, and `overtaken`, the jobs that stayed in
  `queue/` while a later one was claimed. `status` only reads and is left out;
  `wait` never times out, and after a timeout it claims nothing.

Proof modules: **`RingWindow`** (facts about any ring of barriers served in
turn); **`ForwardRings`** (the inductive invariant of `ForwardKernel` in those
terms) and **`ForwardTiles`** (what the tiles hold) with **`ForwardProofs`**;
**`FusedRings`** and **`FusedTiles`** (the same for `FusedBackward`) with
**`FusedBackwardProofs`** and **`FusedTilesProofs`**; **`CtaOrder`** (what the code of a
launch orders, by itself) and **`CtaProofs`** (what follows in every interleaving);
**`ScheduleProofs`**; **`GpuFarmProofs`**; **`DispatchProofs`**.

A definition `Name_fault` before `Name` is a faulty variant that stands for a
plausible bug: each property of a passing run is violated when `Name` is
replaced by it. No specification refers to a fault.

## The runs

| Run | Instance | What it shows |
|---|---|---|
| `forward` | 2 slots; every specialisation on rows of 0 to 3 steps (with `reuseQ`, and without it at 1 step: the flag only changes the last store), one row of 5 | `NoRace`, `PhaseLag`, `NoLostTile`, `CleanExit`, the refinement of `AttentionRow`, termination |
| `fused_backward` | 2 slots, 2 warpgroups; every specialisation up to 2 steps, the default ones with 3 and 5 | the same, and `GradientsExact` |
| `fused_one_stage` | 1 slot, 2 steps | finding: deadlock |
| `kernels` | 2 slots, 2 warpgroups; every specialisation of the ping-pong, dQ and dK/dV kernels on rows of 0 and 1 steps, selected ones of 2, 3 and 5 | no races, phases, every operand of its own step (`Deterministic`), both results refine `AttentionRow`, clean exit, termination; and that the code alone orders all of it (`CodeOrdered`), the hypothesis of the theorems about `Cta` |
| `schedule` | 2 x 3 blocks of 2 x 2 pairs, 2 heads; blocks empty, full, diagonal or a column; both kinds of kernels, sub-blocks of 1 and 2, groups of 1 and 2 heads, stored and computed masks | empty blocks skipped and masks applied only where needed, heaviest rows first, forward and transposed schedule agree, the grid implements `SparseAttention` |
| `dispatch` | head dims 64 to 256 and mixed, 0 to 4 stages, every block size, three relative works, every environment; any sequence of calls on one object | allocations fit, schedules match, the automatic block size never rejects what 128 rows accept, default sizes have gradients up to head dim 128, warpgroups split evenly |
| `mask_heads` | as `dispatch` | finding: a mask with too few heads |
| `farm_serve` | 2 GPUs, a filler, a client that waits, 2 jobs, priorities 10 and 999 | one job per GPU, `wait`, every job done although fillers never end by themselves |
| `farm_stops` | 2 GPUs, 3 jobs of which the third cannot be started, priorities 0 and 20, 2 stops or crashes | no job lost, none started twice by one `serve`, a job passed over once at most and never after it was listed, every job done unless the broken one was submitted |
| `farm_orphans`, `farm_priority`, `farm_wait` | 1 GPU, 1 or 2 jobs | findings, one each |

**Why the bounds are enough.** The actors of a CTA are tied together within two
steps and one ring length, so three steps on two slots reach every combination
of places and one refill; five steps refill both slots and bring the parity of
the first one's barriers round. Options that do not touch each other (segment
ids, which only add to what a slot holds, and the order of turns) are crossed on
short rows and taken one at a time on long ones. A CTA shares nothing with others
but the atomic dQ adds. Two rows and three columns of blocks are the least where
rows and columns differ in number, have different lengths and need padding. In
the farm, two GPUs and two jobs are the least with a choice to get wrong: an order
of reaping, a youngest filler, two jobs in the queue; the broken job of
`farm_stops` comes on top of them. Three jobs are also the least of which one can be
passed over twice. Two stops are the least that stop a `serve` during its recovery
from another stop. `wait` only reads: `HasWait` leaves it out of the runs that check
nothing about it. In `dispatch` the constants are the real
ones, and the settings that do not meet in any formula vary apart: the forward
settings with calls that run forward only, the backward settings with the
environment. `MaxSteps`, `MaxJobs` and `MaxStops` are the only bounds on counters.

**Fairness.** `ForwardKernel`, `FusedBackward`: each warp, the copy engine and
the tensor core is weakly fair. Warps are independent hardware threads, an issued
copy lands, an issued MMA retires; nothing is assumed of their relative speed.
`Cta`: weak fairness of its next-state relation as a whole (`Progress`) is
enough, because programs are finite: whichever thread moves, the CTA ends unless
all wait on each other. `ScheduledGrid`: the GPU runs every CTA of a grid. Farm:
`serve` keeps polling; a stopped `serve` is started again (the launch script's
business); a job ends, since "every job runs under a hard timeout" (repository
README), and a signalled process ends. A filler is never assumed to end by
itself, a client to submit, nor a crash to happen.

**Deadlock** is checked in every passing run: a CTA that has ended stutters by
`Exited`, a grid by `Done`. `FusedOneStage.cfg` turns the check off so that the
stop is reported as a violation of `Termination`.

## Findings

1. *Code bug.* `BlockSizes` accepts `num_stages_bwd = 1`, but the fused backward
   kernel (the default at `head_dim` 128) with early scores (the default) then
   deadlocks on any KV block with two or more steps: `issue_scores(t + 1)`
   (`backward_fused.py:276`) waits for the next refill of the only slot, the TMA
   warp waits for `consumed` of step t (`:195`), and that is committed after it
   (`:291`). `kernel.py:98-101` and `backward.py:410` guard the other kernels
   against the same, `tools/fuzz.py:51` and `tools/sweep.py` draw the value, and
   the one test of it uses `head_dim` 64, which takes the split kernels.
2. *Code bug.* The ping-pong kernel checks the number of q blocks of the schedule
   (`forward_pingpong.py:227`) but not its heads, and indexes it by the q head
   when it has more than one (`:259`). A mask of two heads for three q heads is
   rejected by the other forward kernel (`kernel.py:198`), as `mask_info.py:48`
   promises "either 1 [...] or `num_heads`"; here the third head reads past the
   arrays. The default sizes choose between the two kernels.
3. *Docs and code.* "One job runs per GPU" (README:134) does not survive a
   restart of `serve`: jobs run in their own sessions, outlive it, and the next
   `serve` gives their GPUs away. A `serve` that was stopped by SIGTERM has
   signalled its jobs but does not wait for them.
4. *Docs and code.* "Lowest priority number first" fails for numbers of more than
   three digits: names are compared as strings, and 1000 comes before 101 when
   `serve` has both in one listing.
5. *Docs and code.* `wait` "blocks until no queued/running job name contains
   `pattern`", but it lists `queue/` before `running/`, and a `serve` that
   starts in between moves jobs the other way.

Observations without a run of their own:

* README:39 says the forward kernel takes head dims that are multiples of 64 up
  to 256, with `block_kv=64` for 256. 192 needs it as well: the defaults
  (128, 2 stages) ask for 245760 of 228352 bytes.
* README:299 gives the defaults `block_kv=128, num_stages=2`; for head dim 64 and
  128 rows, what is left open becomes 64 and 3 (`auto_forward_tiles`).
* `tools/sweep.py:40` leaves out `block_q_dkv = 128` at head dim 128, which
  "exceeds TMEM"; `backward.py:417` gives exactly 512 columns, which fit.
* A job that cannot be started ends every `serve` that claims it, in the turn
  that starts the others; with two GPUs, a job that was claimed before it in the
  same turn is never reaped. `EveryJobDone` therefore excepts this case.
* "Lowest priority number first, then submission order" (`gpu_farm.py:10`) is not
  strict for small numbers either. A job whose file appears after `serve` listed
  `queue/` (78) and before the rename (83) stays behind the one that is claimed, and
  so does one whose client stamped it first (55) and renamed it last (62).
  `PriorityOrder` says what is left: such a job was not in the listing, and it is
  passed over once at most, because each claim lists anew.
* A job submitted with priority 999 or more is a filler to `serve`: it may be
  stopped for other work and is then recorded as done (`gpu_farm.py:131`).
* With two buffers (`SPLASH_BWD_DOUBLE_BUFFER=1`) in the interpreter build, no
  `mma_order` wait separates the gradient MMAs of the last two steps: the code of
  such a launch is not `Ordered`, and TLC finds the race. No test launches this
  combination, and neither does `MCKernels`.

## Proofs

**`ForwardKernel`**, for every ring of at least two slots (`NumStagesAssumption`;
`BlockSizes` enforces it for this kernel), every bound on the row
(`MaxStepsAssumption`: a natural) and every specialisation. Nothing else is
assumed; in particular the tensor core may retire in any order.

* `TypeCorrect`: `Spec => []TypeOK`. `TypeOK` is not inductive: the step
  counters stay within the row only because of the places the threads are at
  (`PcSteps`), so the inductive invariant is `TypeInv == TypeOK /\ PcSteps`. There
  is one lemma per actor; `ArriveType` and `AwaitType` carry the barriers and
  `RingTypes` the indices modulo the ring.
* `PhasesDistinct`: `Spec => []PhaseLag`; `RaceFree`: `Spec => []NoRace`;
  `ExitsClean`: `Spec => []CleanExit`. None of the three is inductive: whether a
  slot may be refilled depends on how far every other thread is. The inductive
  invariant `RInv == TypeInv /\ RingInv` says so. Each family of barriers
  (`Families`) has a window of steps, from the first one its waiter has not
  observed (`Lo`) to the last one announced (`Hi`); both are read off the
  threads' places. `RingInv` has four ideas:
  - `Order`: six inequalities between the threads' progress. They bound every
    window by its ring: `NumStages` slots, two S buffers, one P, one `pv_done`
    (lemmas `Progress`, `WindowBounds`).
  - `Windows`: copies and MMAs in flight are for steps of their windows.
  - `Lags`: a barrier is one phase ahead of its waiter if a step of its window
    has been signalled (`Up`), and level with it otherwise.
  - `QPhase`, `Whole`, `PcFacts`: Q's barrier, the arrival counts, and what a
    program counter implies.

  An arrival adds a step to `Up` (`SignalLags`), a wait can pass only if the
  first step of the window is in `Up` (`ObservedIsUp`), which is what moves
  `Order` on. `RingWindow` proves both for any ring, from one fact about `%`:
  steps less than D apart have different remainders. There is one lemma per
  action. `RaceFree` then follows because two users of a slot are in one window.
* `NoTileLost`: `Spec => []NoLostTile`, and `RowImplemented`: `Spec => Row!Steps`,
  every step of the kernel is a step of `AttentionRow` or a stutter. The
  inductive invariant is `TInv == RInv /\ TileInv`: a slot holds the last step
  loaded into it (`SlotTags`), TMEM the scores that softmax has still to read
  (`STags`) and the P of the last store (`PTag`), and O has accumulated exactly
  the steps whose PV has retired, at the running max of the registers (`OTag`).
  That a load, a store or an MMA spoils no tile that is still to be read is what
  the windows of `RInv` say, so each action has one lemma about the tiles it
  writes. `AttentionRow`'s `Steps` is its specification without fairness.

**`FusedBackward`**, for every ring of at least one slot, every number of
elementwise warpgroups from one up, every bound on the row and every combination
of `early_scores`, `split_p` and `serialize_mma`. Safety holds with one slot too:
the deadlock of finding 1 is the only thing wrong there.

* The inductive invariant of `TypeCorrect` (`TypeOK`), `PhasesDistinct`
  (`PhaseLag`), `ExitsClean` (`CleanExit`) and `RaceFree` (`NoRace`) is
  `FInv == TypeOK /\ RingInv`, proved by `SpecRings`. Thirteen families of barriers
  and threads that wait in loops make each of the four too weak alone. The parts
  of `RingInv`:
  - `PcFacts`: what a program counter says of its step and of the specialisation,
    from `MmaTop`, `AfterDk` and the like.
  - `Queue`: the tensor-core queue is sorted by `Key`, the place of an MMA or a
    commit in the order of issue, holds only what the MMA warp's place says was
    issued, and of the commits that are awaited step by step only the newest.
    `Fifo`: a commit is not completed while an MMA issued before it is queued, in
    either order of execution.
  - `Counts` and `Seen`: how often each barrier of one arrival was completed, and
    how often each thread has observed it, as numbers read off the threads' places
    and the queue. `Meetings`: the same for the barriers on which all warpgroups
    arrive, with the arrivals still missing. `Singles`: no other phase is half
    arrived, and no barrier was observed more often than completed.
  - `Rings`: the slots of `q`, `mask`, `consumed` and `aux_consumed` serve the
    `NumStages` steps from `AFree`, the oldest one whose row vectors the TMA warp has
    not seen released (`RingWindow` again). `Flights`: a copy in flight is of a step
    of that window.
  - `Order`: the four places where one thread may be ahead of another that no
    count says. The lemma `Chain` strings the places of all threads together from
    these and the counts, and most later steps cite it.

  `PhasesDistinct` reads the lag of each barrier off these counts, and `ExitsClean`
  puts all threads at their ends. For `RaceFree`, a copy in flight is ahead of
  every reader of its slot (`CopiesApart`); an MMA in flight and a warpgroup are
  separated by the commit or arrival one of them has yet to observe (`MmasApart`,
  `Retirement`, `ScoresDone`); two warpgroups by `loaded` (`WarpgroupsApart`); and in the
  interpreter build two conflicting MMAs by `mma_order` (`MmasOrdered`).
* `GradientsAreExact`: `Spec => []GradientsExact`. The inductive invariant is
  `TInv == FInv /\ TileInv`. A slot holds the step loaded into it (`SlotTags`,
  `KvTag`) and the registers those of the warpgroup's step (`TileTags`). A TMEM union
  holds the scores of a step from their completion to the first store, then what
  each warpgroup stored (`UnionTags`; on hardware it needs `InOrder`, since only the
  order of execution keeps the next S^T off the P^T that dV still has to read),
  and a dS^T buffer the last step stored, or with early scores the last two
  (`DsTags`). The accumulators hold the steps issued but for the one in the queue
  (`SumTags`, `DqTag`), and dQ, dK and dV in memory what was written of them
  (`DqOut`, `SumsOut`). Each operand of an MMA or a store is then shown to be of its
  own step when it is used (`MmaTags`, `ScoresRead`, `RowAwaited`, `MaskAwaited`).

**`Cta`**, for the code of any launch, of any kernel, that is `Ordered`: any number of
threads, instructions, barriers and results, MMAs in issue order or, in the interpreter
builds, in any order. The programs of the ping-pong, dQ and dK/dV kernels are folded
from sequences, so what they contain for every row length is out of the prover's
reach. The proof is divided where that ends. TLC evaluates `Ordered` on the code of
every launch of `kernels`, a question about a program that needs no state; the
theorems say that ordered code is right in every interleaving, with no bound on it.

* `Ordered` (`CtaOrder`) reads the events of a launch off its code: an instruction is
  executed, a copy lands, a queued item retires. `Direct` says which events one must
  wait for (the instruction before it, the arrivals of the phase it awaits, the
  earlier items of the queue), `before` is the transitive closure, and no event may precede
  itself. Code is ordered if, besides, it is well formed and this order is enough: the
  phases of a barrier are complete and follow each other (`PhasesInOrder`); every waiter awaits each
  of them, and no phase can end before its predecessor was awaited by every waiter
  (`PhasesAwaited`); of two conflicting accesses one is over before the other can begin
  (`Apart`); a read follows the write it expects with no other write between
  (`ReadsRight`); and the steps of a result are accumulated one after the other
  (`RowsInOrder`). The faults of `PROJECT.json` in ring reuse, drains, turns and
  awaited commits make the code unordered.
* `OrderInvariant`: `OrderedSpec => []OInv`. The state of a CTA stands for the set `X` of
  events that have happened, and `OInv` says that `X` is closed under `before`. The rest
  ties `X` to the variables: program counters, copies and queue hold the events to
  come (`Happened`, `Running`, `Queued`), a barrier has counted the arrivals in `X` of its
  current phase, all of the earlier phases and none of the later ones (`Counted`), a
  waiter has noticed as many phases as its program awaited (`Noticed`), and a cell
  holds what its last write left (`Remembered`). One lemma per engine: `LandStep`,
  `RetireStep`, `ExecuteStep`. The hard point is the parity: a wait passes when the
  barrier differs from the waiter by an odd number of phases, and only
  `PhasesAwaited` makes that one (`LagBound`).
* `PhasesDistinct` (`PhaseLag`), `RaceFree` (`NoRace`: two open operations wait for nothing
  that has not happened, so neither precedes the other, and `Apart` excludes a
  conflict), `ReadsExpected` (`Deterministic`), `ExitsClean` (`CleanExit`) and `TypeCorrect`
  (`TypeOK`) follow from `OInv`.
* `NoDeadlock`: `OrderedSpec => []NeverStuck`. Since nothing precedes itself, some event that
  has not happened waits for none that has not (`FirstToHappen`, by well-founded
  induction), and it is a copy in flight, an item of the queue or an instruction that
  can pass. Each step takes one of finitely many events, so that the CTA ends is one
  step further, but it is liveness, and TLC checks it (`Termination`).
* `RowsImplemented`: `OrderedSpec => ImplementsRows`. A step that writes an accumulator
  extends it by the next step of the row (`RowTags`), whatever else the CTA does.

**`GpuFarm`**, for every number of GPUs, jobs and stops, every set of priorities
and of broken jobs, from the assumptions on the constants only.

* The inductive invariant is `Inv == TypeOK /\ Shape /\ Jobs /\ Turns /\ NoJobLost /\
  (Quiet => QuietInv)`. `Shape` says which GPUs a loop of `serve` still has to visit: one
  is listed at most once, polling lists only GPUs with a job, and what is left to
  start is idle. `Jobs` ties each job `serve` holds to its file, and says that
  nothing in `queue/` was started by this `serve`; without it `NoJobLost` is not
  inductive, since `Forget` removes a file because its result exists. `Turns` says
  that what was listed is still queued and that a queued job which was passed over
  before is in the listing. `QuietInv`
  holds when `MaxStops = 0` and `Broken = {}`.
* `TypeCorrect`, `JobsKept` (`NoJobLost`) and `StartedOnce` (`RunsOncePerServe`)
  hold without any condition. `GpusExclusive` (`OneJobPerGpu`) and
  `WaitReturnsLate` (`WaitSound`) assume `MaxStops = 0` and `Broken = {}`, and
  `ClaimsInOrder` (`PriorityOrder`) assumes priorities in `0 .. 999`: the
  conditions whose absence `farm_orphans`, `farm_wait` and `farm_priority` show to
  matter. `ClaimsInOrder` is not the strict order, which the code does not keep (see
  the observations): it rests on `Turns`, through every interleaving of clients,
  stops and restarts, and on `NameKey`: up to three digits, names compare like the
  pairs of priority and stamp. That the youngest filler exists (`Max` of a
  finite set of places) is proved by well-founded induction on `Nat`.

**`ScheduledGrid`**, for every mask (any kind in any block of any head), any number
and size of blocks, any number of heads and of heads in a group, every sub-block
that divides its block, both kinds of kernels, stored and computed masks.

* The inductive invariant is `GridInv == Built /\ Progress /\ Once`: the schedule is
  `ProcessMask` of the call's mask, the running CTA is at a step of the block at the
  last launched place of the order, and a pair counts once if a step that the
  launched CTAs have done shows it, else never. Under it are two facts about
  data. `Tables`: for both walks, the steps listed for a block are the blocks in its
  row that are not empty, each once and in order, with its kind and its stored mask.
  `OrderExists`: a finite set has an order that respects a total preorder, which
  makes the launch order a permutation (`MaskSchedule`'s `InOrder` chooses one; the
  sort of TLC's own modules has no definition a proof can use).
* `AttendsOnce`: `Spec => Attention!Steps`, no pair is attended to twice and none that the
  mask hides. A pair determines the head, the block, the step and the part that
  show it (`Unique`, by the uniqueness of quotient and remainder), and the order
  launches no block twice.
* `EndsComplete`: when no CTA runs and none is left to launch, every visible pair
  has been attended to (`Covered`: there is a step that shows it). Together with
  `AttendsOnce` this leaves to TLC only that the grid ends.
* `EmptySkipped`, `HeaviestFirstLaunched`, `ForwardAndBackwardAgree`, `TypeCorrect`
  state the properties of the run `schedule`.

**`Dispatch`**, for every set of positive head dims and every set of ring depths.

* `KernelsFit` (`AllocationFits`): each budget formula bounds the sum of the
  scratch types it stands for. One lemma per kernel compares the two sums; the
  budgets of the ping-pong and the fused kernel are not tight: they count `alpha`
  and a second dS^T buffer, which only some specialisations allocate.
* `SchedulesMatch` (`WalksItsTiles`): the inductive invariant has `Cached` (a cached
  schedule is the one its key stands for, which needs all three components of the
  key) and `Current` (the running call's schedule is in the cache).
* `AutoIsNeverWorse` (`AutoNeverWorse`): 256 rows are chosen for a head
  dim of 128 alone, when they fit the ping-pong kernel, which then accepts the
  call (`AutoAccepted`). `GradientsExist` (`GradientsAvailable`): up to head dim 128 the
  split kernels always fit with sub-blocks of 64 columns.
* `WarpgroupsShare` (`WarpgroupsSplit`): the loop of backward.py:796-801 ends with a
  number of warpgroups that divides the columns into multiples of 16, if it
  starts with at most one per column. With more it may end earlier: 0 columns
  each pass its test, since `(bc // ne) % 16 = 0`. `MCDispatch` asks for 1, 3, 7
  and 64.
* `TypeCorrect`.

Model-checked only: liveness, which is out of the prover's reach (that the row, the
grid and the farm's jobs end, hence the `<>` conjuncts of `AttentionRow` and
`SparseAttention`, and `Termination` of the kernels); and `CodeOrdered`, that the code of
the kernels `Cta` runs is ordered, which TLC evaluates for the launches of `kernels`.

## Not modelled, and the plan

Not modelled: floating-point values (out of reach); the layout and swizzling of
tiles; options for experiments that change no barrier (`SPLASH_ABLATE`,
`SPLASH_EXP_EMU_COLS`, `SPLASH_SOFTMAX_PARTS`, profiling); the reference
implementation and the reshaping of arguments in `splash_attention.py`; the
compilation cache of `jax.jit` (environment variables are read while tracing, so a
change after the first call of a shape has no effect); `status`, tools, tests and
host scripts (input and output only); two farms on one root. One more of the
farm's behaviours has no property: every turn in which a job waits stops another
filler, although the one stopped before may just be ending. It costs work and
breaks no stated promise.

What could follow, in this order:

1. `Ordered` for rows of any length: the order that the rings of a kernel give,
   written as a formula of thread, step and place, instead of computed by TLC.
2. `OnlineSoftmax`: lazy rescaling over small integers against the exact sum.
3. Two farms on one root.
