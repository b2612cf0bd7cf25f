# A TLA+ model of ChampSim

ChampSim is a trace-driven simulator of out-of-order cores and their memory
hierarchy. It is one process and one thread, but what it simulates is a set of
components that run in steps and speak through queues, and its bugs are the
bugs of such systems: requests that are merged away, responses that find nobody
waiting, queues that stand still behind their head, state that is looked at in
one cycle and used in the next, tables that point into tables. This directory
models those components in TLA+, checks them with TLC on small instances, and
proves some of the results with TLAPS for every value of the parameters.

Paths of the form `src/src/cache.cc:128` name the line of the repository
(`src/` is its root).

## 1. The system

### Components, their state, and how they interact

| Component | State | Operations | Interacts with |
| --- | --- | --- | --- |
| main loop (`src/src/champsim.cc`, `operable.cc`) | phase, clocks, stall counter, livelock counters | `do_cycle`, `do_phase`, `operate_on` | operates each component in turn, in the order of their clocks; feeds traces to the cores |
| channel (`src/src/channel.cc`) | `RQ`, `WQ`, `PQ`, `returned` | `add_rq`, `add_wq`, `add_pq`, `check_collision` | the queue between a level and the level below it; both sides work on it directly |
| cache (`src/src/cache.cc`) | blocks, `MSHR`, `inflight_writes`, `inflight_tag_check`, `translation_stash`, `internal_PQ`, the order of `upper_levels` | `operate` and its handlers, `prefetch_line` | channels above, the channel to the level below, the channel to the translating TLB; plug-ins by callbacks |
| page table walker (`src/src/ptw.cc`) | `MSHR`, `finished`, `completed`, page structure caches | `operate`, `handle_read`, `handle_fill`, `finish_packet` | channels above and below; virtual memory |
| virtual memory (`src/src/vmem.cc`) | page map, page table, free pages | `va_to_pa`, `get_pte_pa` | called by the walker |
| DRAM controller (`src/src/dram_controller.cc`) | per channel: `RQ`, `WQ`, banks, bus, refresh, write mode | `operate` and its handlers, the address mapping | the last channel |
| core (`src/src/ooo_cpu.cc`) | `IFETCH_BUFFER`, `DIB`, `DECODE_BUFFER`, `DISPATCH_BUFFER`, `ROB`, `LQ`, `SQ`, fetch stall | the stages of `operate` | L1I and L1D channels; register allocator; branch predictor and BTB by callbacks |
| register allocator (`src/src/register_allocator.cc`) | frontend and backend alias tables, free list, register file | rename, complete, retire | called by the core's stages |
| `lru_table` (`src/inc/msl/lru_table.h`) | a table of blocks with times of use | hit, fill, invalidate | page structure caches, DIB, branch target buffers, prefetchers |
| addresses (`src/inc/address.h`, `extent.h`) | a value and an extent | slicing, splicing, comparing | everything |
| trace reader (`src/inc/tracereader.h`, `repeatable.h`) | a buffer of instructions | reading ahead, branch targets, repetition | the input queues of the cores |
| plug-ins (`src/prefetcher`, `src/replacement`, `src/branch`, `src/btb`) | their own tables | hooks called by caches and cores | decide what is prefetched, evicted, predicted; never whether a request is answered |
| statistics, printers, builders, configuration scripts | | | output and construction |

### What is hard about it

* **Interleaving and ordering.** The components run one after the other, each
  for one of its cycles, with periods of their own. Between two cycles of a
  cache the levels around it may have done anything their queues allow;
  responses come back in any order, and everything merges with everything.
* **Stale state.** A request is looked at on entering a queue, at the collision
  check, at the tag check, at the fill; what was true at one of them need not be
  at the next. Rings of the prefetchers point to entries of tables by index, and
  the entries are evicted and taken again.
* **Partial failure and retry.** Every queue is bounded. A full one refuses, and
  the caller must be left in a state from which trying again is right.
* **Liveness.** Nothing times out but the whole simulation: if a component
  waits for something that never comes, the watchdog of the main loop aborts it.
* **Resource accounting.** Registers, MSHRs, slots of the tag pipeline and pages
  are taken and given back along different paths.
* **Boundaries of numbers.** Slices of slices, hashed fields of addresses,
  counters that are halved, ages and clocks that go round.

`PROJECT.json` lists these hazards line by line with the properties that cover
them.

### What makes each component correct

* channel: a request is never lost or answered twice by merging; a read sees an
  older write that is still in the channel; no duplicates reach the level below.
* cache: it keeps the same promise to the levels above (`MemService`); each miss
  outstanding is awaited exactly once below; a block is in one place; written
  data leaves only by a writeback; demands are answered.
* renaming: each physical register is in exactly one place; a reader gets the
  name of the last older writer and keeps it; renaming never stops for ever.
* load and store queues: a load waits for the last older store of its address;
  each memory operation is counted once; stores leave in order; all drains.
* front end: one queue in program order, on whichever way past the decoder;
  reading is stopped exactly while a mispredicted branch is in flight.
* DRAM: each request is served once; refresh and write mode starve nobody; two
  blocks never share a place.
* walker and virtual memory: each walk ends, along the entries of its own page;
  a translation never changes, and is injective while pages last.
* main loop: clocks stay together; a phase ends once for every core; a run that
  goes on is not aborted, and one that does not is.
* tables: an `lru_table` is a list by recency; a policy finds the victim it is to
  find, also when it is asked twice.
* prefetchers, predictors: what points to an entry means the page that is
  there; what was learnt was seen; there always is a victim; nothing is asked
  for that makes no sense by the prefetcher's own account.
* BTB: the return stack holds the latest calls that have not returned.

## 2. The modules

| Module | What it is | Extends or uses |
| --- | --- | --- |
| `MemService` | the abstract promise of a level of the hierarchy: requests become pending, then answered, once | |
| `ChannelOps`, `Channel` | the operators of a channel, and a channel between two levels; implements `MemService` | |
| `Cache` | one cache level; implements `MemService` | `ChannelOps` |
| `Dram` | a channel of the DRAM controller; implements `MemService` | |
| `VMem`, `Walker` | virtual memory; the page table walker over it; implements `MemService` | `Walker` extends `VMem` |
| `Rename` | the register allocator and the stages of the core that drive it | |
| `LSQ` | the load and store queues and the retirement that waits for them | |
| `FrontEnd` | from the trace to the ROB | |
| `MainLoop` | clocks, phases and watchdogs over any components | |
| `RecencyList`, `LruTable` | a list by recency; `lru_table`, which implements it | |
| `AddressWindow`, `Addresses` | a window on the bits of an address; address slices, which implement it, and the DRAM address mapping | |
| `TraceReader` | reading ahead, branch targets, end and repetition of a trace | |
| `Replacement` | lru, srrip, drrip and ship behind the interface the cache calls | |
| `BTB` | the three predictors of `basic_btb` | |
| `BranchPredictors` | bimodal, gshare, perceptron, hashed perceptron | |
| `Spp`, `Sms`, `Ipcp`, `SmartStride`, `Cmc`, `IpStride`, `Ampm`, `BertiMicro`, `Berti` | a prefetcher each | |
| `Hybrid` | `hybrid_bertiM_cmc`, two prefetchers on one stream of accesses | instances of `BertiMicro` and `Cmc` |
| `RenameProofs`, `LSQProofs`, `FrontEndProofs`, `ChannelProofs`, `CacheProofs`, `DramProofs`, `VMemProofs`, `PartsProofs` | theorems | the module, `TLAPS` |
| `MCCache`, `MCDram`, `MCWalker` | constants of one component | extend the module |
| `MCCore`, `MCPipeline` | two components, each by itself | extend `Rename` and `Channel`, `FrontEnd` and `LSQ` |
| `Parts` | the main loop, `lru_table`, the trace reader, address slices, the replacement policies, the branch target buffer and the renamer, each by itself | extends `MainLoop`; instances of the others |
| `MCParts` | the constants of `Parts` | extends `Parts` |
| `MCPredictors` | the branch predictors and prefetchers, each by itself | instances of the modules |

`MCCore`, `MCPipeline`, `Parts` and `MCPredictors` check several components in one run: `part` says which one a
behaviour is of; the others keep a state in which they can do nothing, so that
no fairness is asked of them. A property of a part is an implication from
`part`, and fails exactly when the part alone would fail it.

Definitions marked `\* mutant` are plausible bugs of the definition below them.
No specification uses them; each makes one of the properties fail when it takes
that definition's place, which shows that the property can be broken.

Each abstract specification is a `PROPERTY` of the detailed one: `ServiceSpec`
(`MemService`, of `Channel`, `Cache`, `Dram` and `Walker`, the four that answer
requests), `ListSpec` (`RecencyList`, of `LruTable`) and `WindowSpec`
(`AddressWindow`, of `Addresses`). `Cache` and `FrontEnd` assume of the levels
below just what `MemService` promises, and `LSQ` of the L1D: this is how the
components compose. `Walker` is composed with `VMem`, and `Hybrid` of two
prefetchers.

### `ChannelOps` and `Channel`

A request keeps its address, whether the address is physical (`tr`), whether a
response is wanted (`resp`), the instructions that wait for it (`deps`) and the
mark of the collision check (`checked`). Its position in the queue is its age.
`CheckStep` is one round of one of the three loops of `check_collision`,
`CheckCollision` the whole of it, for the modules that need no intermediate
states. The two levels take turns: the level above adds requests and collects
responses; the level below starts with the collision check, takes requests off
the heads of the queues and answers, any of them at any time. A channel carries
one kind of request, as in the simulator; the code would accept both and then
miss duplicates (`do_collision_for` looks at the first match only).

### `Cache`

One `operate()` is one pass of `pc` through its steps, in the order of the code:

| `pc` | actions | code |
| --- | --- | --- |
| `idle` | `CheckCollisions` | `check_collision` of every channel above |
| `finish` | `FinishPacket`, `FinishTranslation`, `StartFills` | the loops over both `returned` queues |
| `fill MSHR`, `fill writes` | `FillFromMSHR`, `FillFromWrites`, `EndFills` | the loop over `MSHR` and `inflight_writes`, `handle_fill` |
| `initiate` | `InitiateFromStash` | the bandwidth, the stash, the rotation of the upper levels |
| `channels` | `InitiateFromChannel`, `InitiateFromPrefetches` | each queue of each channel, then the internal prefetch queue |
| `translate` | `IssueTranslation`, `StashUntranslated` | `issue_translation`, `extract_if` |
| `hit` | `TryHit`, `TryMiss`, `StartMisses` | first `stable_partition`, `try_hit` |
| `miss` | `HandleWrite`, `MergeMiss`, `ForwardMiss`, `RetryMiss`, `EndCycle` | second `stable_partition`, `handle_write`, `handle_miss`; the clock |
| `abort` | | the failed assertion of `finish_packet` |

The replacement policy may choose any way (or a bypass, which the code allows
except for writes), the prefetcher may call `prefetch_line` or not whenever one
of its hooks runs. Times are relative to the cycle and counted down at its end.
Left out: data and metadata, statistics, the shorter latencies of warmup,
`asid`, the deprecated calls, and `invalidate_entry`, which nothing calls.

### The core: `Rename`, `LSQ`, `FrontEnd`

`Rename` holds the state of `RegisterAllocator` and, of the core, the ROB with
the operands and flags of each instruction. The loops around
`rename_src_register`, `rename_dest_register` and `retire_dest_register` are
steps of `pc`, so that properties are checked between two registers of one
instruction. Renaming overwrites operands in place; the architectural names are
kept beside them (`asrc`, `adst`) for the properties only. Latencies and widths
only decide when an enabled step is taken, and are nondeterminism, with one
exception: the bandwidth of the scheduling loop (`SCHEDULER_SIZE`), on which the
order of renaming depends.

`LSQ` is the other half of the same stages: what an instruction is here is the
addresses it loads and stores, and register operands only delay `Execute`. A
slot of the LQ is a number, because a store refers to the slots that wait for it
and not to their contents. `ForwardedFrom` is `std::max_element` with the
comparison of the code, which is no strict weak order, element by element.

`FrontEnd` takes each instruction through `do_init_instruction`,
`do_check_dib`, `do_fetch_instruction`, the L1I side of
`handle_memory_return`, `promote_to_decode`, `decode_instruction` and
`dispatch_instruction`. The kind of a branch comes from the classes of registers
it reads and writes, as in the constructor of `ooo_model_instr`; the predictors
may answer anything.

### The memory side: `Dram`, `Walker`, `VMem`

`Dram` is one record `c`; each handler of `DRAM_CHANNEL::operate` is an operator
on it and `Cycle` their composition in the order of the code, so that a step is a
whole cycle after any arrivals. `Walker` is built likewise on the calls of
`VMem`, which is also a specification of its own, about which there are proofs.
Its fairness is stated by states (`[]<>Idle \/ []<><<Operate(MaxRoom)>>_vars`):
it is what `WF_vars(Operate(MaxRoom))` says here, since outside of `Idle` a pass
with room below always does something, without the cost of `ENABLED`.

### The tables: `Replacement`, `BTB`, `BranchPredictors`, the prefetchers

Each hook is one action, because the cache and the core call it from `operate`
and it runs to its end. Hashes of addresses are functions given as constants,
chosen so that entries are shared. A history or a set of blocks that the code
keeps as a word is the set of its bits. Whether `prefetch_line` succeeds is
nondeterministic; it fails only when the internal queue is full, so that of one
call the first few succeed (`room`). Tables built on `lru_table` are lists by
recency, which `TableIsAList` proves them to be.

`BertiMicro`, `Berti` and `Cmc` keep beside each entry of a ring the page or the
time it was made for; nothing but the properties looks at them. They say that what
an index points to still is what it was recorded for.

## 3. What is checked

Symmetry is used only for the instructions that wait in channels, which are
interchangeable and compared by equality alone. Times are of two workers.

| Run | Instance | Shows | States, time |
| --- | --- | --- | --- |
| `core` | renamer: 4 names, 4 physical registers, ROB of 3, scheduler of 2, five kinds of instruction, two of which repeat an operand. Channel: two words of one block and another block, two instructions that wait, queues of 2, 2 and 1 | `OnePlace`, `NoLeak`: each register is in exactly one of the free list, the backend table and the destinations in flight; `OperandsFollowProgramOrder`: a reader names the last older writer, to the end, and runs after it; `RegisterAtHand`; `QueuesKept`: the checked requests are a prefix of each queue and no two of them are duplicates; `WritesSeen`: no write is lost and no read passes one; `ServiceSpec` | 1.2M, 80 s |
| `pipeline` | queues: 4 instructions of five kinds, LQ and SQ of 2, ROB of 3. Front end: 4 instructions in two blocks, every kind of branch, buffers of 2 and 1 | `OpsHeld`: each operation is counted once, retired stores and waiting loads are held; `WaitsForYoungest`; `PartDrains`; `InOrderUntilStopped`; `PartDispatched` | 336k, 130 s |
| `cache_l2_writes` | two levels above, 2 blocks of one set of one way, 2 MSHRs, demands, prefetches, writebacks | `MissesAwaited`: each MSHR without data has exactly one request or response below, and the returned ones are in front; `DirtyLeavesByWriteback`; `ServiceSpec` | 35 s |
| `cache_l1` | a core and a walker above, 2 words of one virtual block, a second physical block, physical prefetches filled here or below | `OneOfEachBlock`: one miss and one copy of a block; `TranslationsKept`: each untranslated request has a translation under way, the pipeline has room, answers carry the block asked for | 714k, 50 s |
| `cache_live` | as `cache_l2_writes`, demands only, one MSHR, hit latency 2 | `DemandsAnswered` | 45 s |
| `dram` | two banks, 3 blocks, 2 reads, prefetches, writes, queues of 2, refresh every 3 cycles, with and without warmup | `BanksAgree`, `WritesKept`, `ServiceSpec`, `EverythingServed`: reads are answered and banks refreshed again and again | 206k, 70 s |
| `walker` | 3 levels, 2 walks from two levels above, 5 pages, one entry in each PSCL | `PagesApart`, `TranslationsStay`, `WalksOnPath`, `WalksAnswered`, `ServiceSpec` | 137k, 65 s |
| `parts` | main loop with two cores, a slower component and two phases; `lru_table` of 2 ways; trace files to 6 records; addresses of 6 bits; four policies over 2 ways; a BTB of 2 ways with a stack of 2 for calls 3 deep; a renamer of 3 registers | `InLockstep`, `PhasesInStep`, `LoopTerminates`; `ListSpec`; `ReadInOrder`; `WindowSpec`, `BlocksApart`; `VictimsRight`; `BranchesRemembered`; `Retires` | 265k, 150 s |
| `predictors` | each of the prefetchers for 4 to 10 calls; each branch predictor | `TablesKept`, `PatternsLearnt`, `AskedOnce` | 411k, 95 s |
| `cache_l1_dirty` | a core above with stores and loads | violation of `DirtyLeavesByWriteback` | seconds |
| `replacement_srrip` | srrip alone | violation of `FillsPredicted` | seconds |
| `predictors_ghr` | spp with tables of one way | violation of `GhrVictimFound` | 12 s |

### Bounds, and why they are enough

* Queues of one or two entries are full, empty and in between within a few
  steps, and two entries are enough for a merge.
* One set of one way: every fill evicts. Two blocks of the set compete for it.
* Two MSHRs are the least for which `finish_packet` swaps two entries; one is
  the least for which misses wait for each other.
* Latencies of one and two cycles distinguish "in this cycle", "in the next" and
  "later". `WRITES_BOUND` limits the write fills of `Cache`, which the code does
  not limit; it is a guard of the environment and not of the cache.
* Four registers for three instructions: the free list runs empty, is refilled
  by retirement, and names are reused while older readers are in the ROB.
* Four instructions through an LQ and an SQ of two: slots are taken again while
  answers for the loads that were in them are under way, and a load has two
  stores of its address to choose from. The L1D takes two reads, the least for
  which one answer finishes two loads and another one is left over.
* Five pages for two walks of three levels: pages run out and are handed out
  again. One entry in a PSCL: every fill evicts.
* `MAX_ACCESS` (`LruTable`, `Replacement`), `TRACE_LENGTH`, `MAX_LENGTH`,
  `MAX_PASSES`, `IN_FLIGHT` and `STEPS` bound what has no bound of its own.
* The prefetchers have unbounded behaviour; `STEPS` is enough for each table to
  evict, each ring to go round and each counter to pass its threshold, which the
  mutants show: each needs one of these cases. `TIME_OVERFLOW` makes the clock
  of berti go round. Simulations of 60 steps with more pages, blocks and
  instructions of `Berti` and `Hybrid` (a million states and more) found no
  violation either.
* The six bits of `Addresses` are a field of every kind in the DRAM mapping but
  rank and column, which are treated alike and are one wide.

### Fairness

`do_cycle` operates every component for ever, so the steps of a pass of a cache,
and the stages of the core, are weakly fair. The levels around a cache act
between its passes; what they can do is enabled again and again rather than
continuously, and they are strongly fair: the level below answers each request,
takes each writeback, and each response is collected. This is the promise those
components themselves are shown to keep. Requests of the levels above, evictions
and prefetches are not fair: nothing forces them. In `Rename`, an instruction
executes and completes if it can do so again and again, because each latency
ends and the widths are shared from the head of the ROB; a scheduling step is
strongly fair, because the loop may meet an instruction before it is ready, but
not for ever. In `LSQ` and `FrontEnd` each stage is weakly fair as a whole; the
trace is finite, so each stage is idle in the end or has something to do for
good. The DRAM channel cycles for ever, and writes from above come to an end:
without that a read may wait for ever behind the write mode. The walker operates
again and again with room below, and the level below answers. The program of
`MainLoop` runs, and no component is promised to make progress: it ends because
the watchdogs end it.

Deadlock is not checked in the runs whose traces or steps come to an end
(`pipeline`, `parts`, `predictors`); the liveness properties say that nothing
stops before.

## 4. What is proved

For every value of the constants, from the assumptions named in the modules:

| Theorem | States |
| --- | --- |
| `RenameProofs!TypeCorrect` | `Spec => []TypeOK` |
| `RenameProofs!RegisterAlwaysAtHand` | `Spec => []RegisterAtHand` |
| `RenameProofs!InvHolds` | `Spec => []Inv` |
| `RenameProofs!RegistersInOnePlace` | `Spec => []OnePlace` |
| `RenameProofs!NothingLeaks` | `Spec => []NoLeak` |
| `RenameProofs!RenamingInOrder` | `Spec => []RenamedInOrder` |
| `RenameProofs!ReadInvHolds` | `Spec => []ReadInv` |
| `RenameProofs!OperandsInProgramOrder` | `Spec => []OperandsFollowProgramOrder` |
| `LSQProofs!LSQInvHolds` | `LSQAssumption => (LSQSpec => []LSQInv)` |
| `LSQProofs!OpsAreHeld` | `LSQAssumption => (LSQSpec => []OpsHeld)` |
| `LSQProofs!LoadsSeeYoungest` | `LSQAssumption => (LSQSpec => []WaitsForYoungest)` |
| `FrontEndProofs!FrontEndInOrder` | `Spec => []InOrderUntilStopped` |
| `ChannelProofs!ChannelKeepsQueues` | `OneKind => (ChannelSpec => []QueuesKept)` |
| `ChannelProofs!ChannelInvHolds` | `OneKind => (ChannelSpec => []ChannelInv)` |
| `ChannelProofs!ChannelWritesSeen` | `OneKind => (ChannelSpec => WritesSeen)` |
| `ChannelProofs!ChannelImplementsService` | `OneKind => (ChannelSpec => ServiceSpec)` |
| `CacheProofs!InvHolds` | `Spec => []Inv` |
| `CacheProofs!MissesAlwaysAwaited` | `Spec => []MissesAwaited` |
| `CacheProofs!OneMissAtATime` | `Spec => []OneMissPerBlock` |
| `CacheProofs!PipelineBounded` | `Spec => []TagCheckBound` |
| `CacheProofs!TranslationsAlwaysKept` | `DistinctPages => (Spec => []TranslationsKept)` |
| `CacheProofs!BlocksAlwaysSingle` | `MATCH_OFFSET_BITS => (Spec => []OneOfEachBlock)` |
| `CacheProofs!CacheServes` | `Spec => ServiceSpec` |
| `CacheProofs!WritesAlwaysKept` | `~MATCH_OFFSET_BITS /\ BlocksMapped => (Spec => DirtyLeavesByWriteback)` |
| `DramProofs!BanksAlwaysAgree` | `Spec => []BanksAgree` |
| `DramProofs!DramWritesKept` | `Spec => WritesKept` |
| `DramProofs!DramServes` | `Spec => ServiceSpec` |
| `VMemProofs!PagesStayApart` | `VMemSpec => []PagesApart` |
| `VMemProofs!TranslationsNeverChange` | `VMemSpec => TranslationsStay` |
| `VMemProofs!WalkerInvHolds` | `Spec => []WalkerInv` |
| `VMemProofs!StepsAlwaysAwaited` | `Spec => []StepAwaited` |
| `VMemProofs!WalksAlwaysOnPath` | `TABLES_PER_PAGE = 1 => (Spec => []WalksOnPath)` |
| `VMemProofs!AnswersAlwaysRight` | `Spec => []AnswersRight` |
| `VMemProofs!WalkerKeepsPagesApart` | `Spec => []PagesApart` |
| `VMemProofs!WalkerKeepsTranslations` | `Spec => TranslationsStay` |
| `VMemProofs!WalkerServes` | `Spec => ServiceSpec` |
| `PartsProofs!ComponentsInLockstep` | `Spec => []InLockstep` |
| `PartsProofs!ComponentsOperatedOnce` | `Spec => OperatedOnce` |
| `PartsProofs!PhasesEndedOnce` | `Spec => []PhasesInStep` |
| `PartsProofs!TraceReadInOrder` | `ReadAssumption => (PartsSpec => ReadInOrder)` |
| `PartsProofs!VictimsAlwaysRight` | `PolicyAssumption => (PartsSpec => []VictimsRight)` |
| `PartsProofs!VictimsUnusedLongest` | `PolicyAssumption => (Policies!Spec => []Policies!VictimUnusedLongest)` |
| `PartsProofs!VictimsAwaited` | `PolicyAssumption => (Policies!Spec => []Policies!VictimAwaited)` |
| `PartsProofs!PredictionsInRange` | `PolicyAssumption => (Policies!Spec => []Policies!RrpvInRange)` |
| `PartsProofs!BlocksSampledOnce` | `PolicyAssumption => (Policies!Spec => []Policies!SampledOnce)` |
| `PartsProofs!TableIsAList` | `TableAssumption => (PartsSpec => ListSpec)` |
| `PartsProofs!BlocksHavePlaces` | `MappingAssumption => (PartsSpec => []BlocksApart)` |
| `PartsProofs!BranchesAlwaysRemembered` | `BtbAssumption => (PartsSpec => []BranchesRemembered)` |

**Rename.** The assumptions: sizes are natural numbers, instructions name
architectural registers, and the file has at most as many registers as the alias
table has entries, which the code needs because it indexes the one with names of
the other. Nothing is inductive alone; there are three layers, each proved with
the help of those below it:

1. **Shape** = `TypeOK /\ Progress /\ Budget`. That the free list is not empty
   at a rename rests on the test made at the head of the loop, several steps
   before. `Budget` carries it through the loop over the operands: the list
   covers the sources still without a name and the destinations still to come. A
   register named twice is counted twice by the code and taken once, so the test
   errs on the safe side. `Progress` says where the renamer is.
2. **Placed** = `OnePlace /\ Mapped /\ NoLeak`. A name leaves the free list at its
   head for exactly one place; a destination in flight becomes the committed name
   of its register and the name it replaces goes to the list. `Mapped` says that
   a register that has a committed name, or a write in flight, has a newest name:
   without it a source could be taken for one nobody has written, and the
   committed name be overwritten, and lost.
3. **InOrder** = `RenamedInOrder /\ OlderRenamed`: where the loop is, all older
   instructions have been renamed.

For each layer there is one lemma per action and a lemma that puts them together.

The second half adds what an instruction reads. That a reader has the name of
the last older writer is not inductive either: `SourcesNamed` says it of the
operands the loop has passed (those it has not passed are still architectural,
`OperandsKept`); a name comes from the frontend table, so `FrontendNewest` says
that the table has the name of the youngest write that has one, or the committed
one if the ROB has no named write of the register; at retirement the committed
name is replaced while the instruction is still the head, for which
`RetiredCommitted` follows the loop over its destinations, and a destination
that is named twice. `FileKept` and `ExecutesAfterProducers` say that a valid
name in flight is the name of a completed write, so that an instruction executes
after the ones it reads from. That `Latest` of a set of positions exists is
proved from the well-foundedness of the naturals, since induction is not to be had.

**LSQ.** `LSQAssumption` gives sizes, addresses and instructions their types; the
run has it as `QueuesAssumption`. `LSQInv` adds four things to the properties
that are checked:

* `ProgramOrder`: identifiers in the ROB ascend, nothing is of a later
  instruction than the last one, and during dispatch the stores of the youngest
  come after all others. Without it a new load could have an older store that is
  younger than the one the search finds, and an identifier could come twice.
* `CompletedDone`: a completed instruction has no operation left, so that
  retirement leaves nothing in the LQ that counts on it.
* `SentAlone`: a load that was sent to the L1D waits for no store. An answer
  finishes every load of its block; it must not take one out of the dependents
  of a store.
* `WaitsForOne`: no load is in the dependents of two waiting stores, or the first
  of them would leave a dangling reference in the other.

The comparison given to `max_element` is no strict weak order, and the search is
a loop over the SQ. That it ends at the youngest older store to the address is
shown for every position of the loop by least counterexample: if the positions
at which the claim fails were not none, there would be a least one, and the round
before it refutes that. Counts of operations are cardinalities of the slots of
the LQ that belong to an instruction, so that each action is a lemma on how such
a set grows or shrinks by one element.

**FrontEnd.** The assumption is that the trace is finite (`LengthAssumption`).
`OneQueue` is about the set of numbers being decoded, which does not say that
`decode_instruction` merges its two inputs in order. The invariant has that each
of them is sorted, that they are disjoint and that together they are the numbers
between what is dispatched and what is fetched (`Merges`): then the smaller head
is the next number, whichever of the two it is in. `Stopped` follows the one
mispredicted branch from buffer to buffer by its number.

**Channel.** The theorems ask for `OneKind`: the requests made on one channel are
all virtual or all physical. It is how channels are used
(`src/src/ooo_cpu.cc:832`, `src/inc/channel.h:54`, `src/src/ptw.cc:111`), the run
assumes it too (`OneKindAssumption`), and without it `NoDuplicates` is false: a
request of the other kind hides a duplicate. `KeptQueue` says of each queue that
the checked requests are a prefix without duplicates at every point of the three
loops and not only at their end, and `CheckInv` that the level below runs only
when everything is checked. That a channel implements `MemService` needs to know
where each instruction waits (`WaitsOnce`): in one request of one queue, or in one
request below, or in one response. With that a merge is a stutter, a forward an
answer of those that wait for one request, and nobody is pending and answered at
once. `WritesSeen` is an action property; each loop round has a lemma of its own.

**Cache.** The assumptions give requests, writes and the mapping their types,
and say that there is a level above and that a level writes through its WQ alone
(what misses of a write asks for below is an RFO, `src/src/cache.cc:335`). A pass through the cache has a score of
steps (the table in section 2), and there is one lemma per step and per part of
the invariant.

* `Inv` is `Typed` (what each queue, the blocks and the locals of the pass can
  hold), `Pipelined` and `Matched`. `Pipelined` carries the bandwidth through the
  loops: the tag checks in flight and the bandwidth left are never more than can
  be started in `HIT_LATENCY` cycles. `Matched` is what makes `MissesAwaited`
  inductive: for each block there is at most one MSHR, at most one request below
  that wants an answer and at most one answer, never two of the latter, and there
  is one exactly if the MSHR has no data. A miss that is merged, retried or
  refused must keep that, as must the rotation that `finish_packet` makes, which
  moves the MSHR with data behind the others that have theirs and has to keep the
  order the fill loop relies on (`ReturnedFirst`). How `extract_if`,
  `stable_partition` and `check_collision` permute a sequence is in lemmas at the
  head of the module.
* `TranslationsAlwaysKept` needs `UnderWay` (a request that has asked for its
  translation waits for one of its page under way in `lower_translate`) and of
  the addresses `DistinctPages`: two virtual blocks have two physical ones, and
  those are not read by their physical address as well. This is what `VMem` gives
  until pages are reused (`PagesStayApart`; page tables, which the walker reads,
  are not mapped). Without it merged answers can carry the virtual address of
  another request (section 5). The constants of the run satisfy it.
* `BlocksAlwaysSingle` is for caches where writes allocate like reads
  (`MATCH_OFFSET_BITS`, the L1D). The others fill a write from above without
  looking at the MSHRs (`src/src/cache.cc:555`), and the block may then be there
  twice; the hazard is listed. `Single` says that the blocks of the MSHRs are not
  there, and neither are those of the tag checks that have missed in this cycle
  and have no MSHR yet (`LookedUp`): between the lookup and the miss nothing is
  filled.
* `CacheServes` needs to know where each read is. `Served` says that it is in one
  of the places where reads wait (a read or prefetch queue of the channel it came
  from, the pipeline, the stash, the MSHRs) or in one response of that channel,
  once and not in two of them (`InOnePlace`), and that whatever takes up a read
  takes up the level to be answered with it (`Owned`: a merged MSHR answers every
  level whose reads it took in). One lemma per step shows that `operate` moves it
  from one to the next, merges it where another waits or answers it (`ServedOn`),
  so that every step is a `Respond` of those who are answered, or a stutter.
* `WritesAlwaysKept` is for the caches below the L1D (`~MATCH_OFFSET_BITS`): where
  writes allocate like reads the property is false, as the run `cache_l1_dirty`
  shows (section 5), because there a write waits in an MSHR, whose type a read that
  is merged with it can replace. `Inside` says where the data of a written block
  can be: a write queue above, the pipeline or the stash, a write fill, a dirty
  line. It follows each of them through every step, to the next place or to the
  writeback of the same block. `Writing` is what that needs to be inductive: only
  writes are in the write queues, and none is in the MSHRs (`handle_write` takes
  them all, and a merge there brings none in). `BlocksMapped` says that two
  addresses of one virtual block have one physical block, as the offset in the
  page is kept (`src/src/cache.cc:694`) and a page is no smaller than a block:
  without it two merged writes could belong to two blocks.

**Dram.** `DramAssumption` asks for a finite set of banks (the choice of the one
that is ready first is a minimum over them), queues of one slot at least and
values for "none" that are no values. A cycle is eight handlers in a row, of which
each may break what the next one relies on. The invariant that holds between any
two of them (`StageInv` in the proofs) is about the record that goes through them;
there is one lemma per handler that it is kept, and the theorems put them
together. `BanksAgree` alone is not inductive: merging empties the slot of a
request, and if it were scheduled, its bank would be left pointing to nothing.
`DramInv` says why it never is: a scheduled request has been checked, and only
unchecked ones are merged away; in warmup nothing waits until it is scheduled.
`ServedInv` adds for the service that the instructions waiting in two slots are
different, and none of them has been answered. The loops of the collision checks
go over the slots as recursive functions, by least counterexample as above, and
for the choices of banks and slots it is shown that the order has a first one in
every nonempty set.

**VMem.** `PagesApart` needs to know of the free list: it has each page once, and
none that is taken (`FreeOnce`, `FreeUnused`), and the page of page tables that is
being filled is filled up to `next` (`ActiveFilled`). All of it holds until the
list is filled again from the start (`refilled`); the types hold always.
`TranslationsNeverChange` follows from the types.

**Walker.** `VMemProofs` extends `Walker` and goes on with it; `Spec` in its
theorems is the walker's. `WalkerAssumption` says that there is something to
translate, that a page table has a level below its highest (the walk begins
there), and that `Upper` is a sequence of levels above. As with `Dram`, a step is
a whole cycle over a record, and the invariant is stated of the record, so that it
can be kept from handler to handler. `Kept` has five parts:

* the type of each queue, and `Sized`: neither the RQs nor the PSCLs outgrow their
  sizes;
* `Paths`: what a walk reads is an entry of its own page's path that exists, what
  it has read is the entry of its level, what it answers the physical page, and a
  PSCL holds entries of the tables of its level (`ReadsPath`, `HasRead`,
  `Translates`, `Remembers`). That this is kept when other walks extend
  the page table is what `Grows` is for: maps are only added to;
* `Awaits`: every walk in an MSHR has its block below, or among the answers of
  this cycle that have not been taken up. An answer takes all walks of its block
  out of the MSHRs at once, and only those; a later one for the same block finds
  nobody;
* `Once`: an identifier is in one queue of the walker at one position. `std::partition`
  (`src/src/ptw.cc:209`) and the moves between the queues are permutations of the
  walks, so that no walk is lost or doubled;
* nobody waits and is answered.

The loops of a cycle (over the answers, the completed and finished walks, the RQs of
all levels above and the requests in each) are recursive functions, taken round by
round by least counterexample. `WalksAlwaysOnPath` asks for `TABLES_PER_PAGE = 1`,
which is `pte_page_size` equal to the page size: with smaller tables it is false
of the code, since the first read after a PSCL hit loses which part of the page
the table is in (section 5), so the invariant says nothing there of the address a
walk reads at. The others hold for every `TABLES_PER_PAGE`; among them
`AnswersAlwaysRight`, that what walks have read, what they answer and what the
PSCLs keep is what the page table and `va_to_pa` have for their pages: the model
asks for both by the page and level of the walk and not by the address it read
at, as `finish_step` and `finish_last_step` do (`src/src/ptw.cc:185`).

**MainLoop.** `InLockstep` speaks of the states between two ticks. The invariant
`Clocks` says of each component whether it has caught up with the global clock,
waits for its turn in this cycle, or is being operated, and how far its clock may
be from the global one in each; the tick is no longer than the shortest period.
`PhasesInStep` adds the types of queues, counters and watchdogs, that the phase
is 0 only before the first one begins (`PhaseInv`). `PhaseAssumption` and `BoundAssumption` say that there is
a phase and that the watchdogs wait for a cycle at least.
`PartsProofs` extends `Parts`, whose behaviours are behaviours of every part at
once (`PartsAlone`: the parts that a behaviour is not of only stutter), so that what
holds of the specification of a part holds of `PartsSpec`.

**TraceReader.** `ReadAssumption` asks for blocks of two records at least
(`READ_SIZE` is 127). `ReadInOrder` is about one call and the one before it; the
invariant says why they fit: the buffer holds the records between the one that was
returned last and the place in the file, each with its target but the last, which
gets its target when the next block is joined to it (`Follows`). A call never
leaves less than one record behind unless the file has ended, so that no record is
returned before its target is known.

**Replacement.** `PolicyAssumption` asks for ways, for counters with bounds that
are natural numbers, and that "no block" is no block. `PolicyInv` gives the tables
their types, has every block once in a sampler (`OneSample`) and says of a refused
fill that its set is aged: ageing brings the largest prediction to the maximum,
leaves the victim the victim and has nothing to add the second time. Which of
several equal ways is the victim is a least position, found by well-foundedness.
`LruInv` is what `VictimUnusedLongest` needs: a block is in one way, of its own
set, and not under way at the same time (`Resident`), and of two blocks of a set
the one with the later time was used after the other (`Ordered`), so that the
smallest time is that of the block all others were used after. `since`, which the
property is stated in, is a history variable of the model: the blocks of its set
that were used after a block. That the sampled sets are as many as the code says and have indices of their
own is no induction either: a leader's number is an index, and that is a bijection
(`LeadersAre`).

**LruTable.** `TableAssumption` says that the set of every element is a set of the
table, and that a block that was not filled has an element like any other.
`ListInv` says of every set that its valid blocks have different tags and were last
used at different times, none later than the count of uses (`RowInv`). The rank of
a valid block, the number of those used no earlier, is then a bijection onto the
places of the list (`RanksAre`), which makes the list the only one that fits the
blocks (`ListingIsOne`). A hit or a fill gives its block rank 1 and lets those
that were before it go one back (`UsedListing`), an invalidation lets those behind
it come one forward (`DropRow`). Whichever ends
`minmax_element` comes upon, the block that is filled is the valid one with the tag;
or one that is not valid, when no valid one has the tag; or, when all are valid and
none has it, the one used longest ago (`FillsAtEnd`): this is where a tag left in an invalid block could have been
mistaken for a hit. So each call is the call of `RecencyList` (`ListRefined`).
`BTB`, `IpStride` and `Ampm` are built on `RecencyList` with this in view.

**Addresses.** `MappingAssumption` says that the memory has a place for every
address: the row, the uppermost field, ends at `bits` or above it. An address past
the end of a smaller memory shares its place with another one, in the code as in the
model. The fields are contiguous whatever their widths (`SlicerContiguous`), so
that an address above its offset is its fields put together. The row is a part of
the place, and what is hashed into the channel, the bank group and the bank is a
function of the row alone: of two addresses of one row both hashes are the same and
cancel, bit by bit, as the parity of a number of segments (`SwizzleKeepsApart`).
This is why the widths and the last, shorter segment do not matter.

**BTB.** `BtbAssumption` gives the tags their sets and the calls addresses and sizes
that are numbers. The invariant (`BtbInv`) says of the stack, place by place from the
top, that it is what the program called last (`StackFollows`): a push forgets the
lowest call where the stack is full, and a return that finds it empty leaves it so. Since the top of both is the same call,
a return learns the size of just that call. A set of the direct predictor has a tag once, of
this set, with what was taken there last (`KeptIn`); the steps use what refreshing
and filling do to a list (`RefreshedFrom`, `FilledFrom`): no element is new but the
one that is filled.

Only model-checked:

* Liveness (`EverythingServed`, `DemandsAnswered`, `PartDrains`, `PartDispatched`,
  `WalksAnswered`, `LoopTerminates`, `Retires`): fairness and `ENABLED` are out of
  the prover's reach.
* Nothing of `Cache` but its liveness. `OneOfEachBlock` and `DirtyLeavesByWriteback`
  are proved where they are checked: the first under `MATCH_OFFSET_BITS`, false of
  the levels that fill writes without a look at the MSHRs, the second without it,
  false where a write can be merged in an MSHR.
* The branch predictors and prefetchers: each of their properties is about what a table holds after any
  history of calls, over tables whose contents are computed by folds. `Spp` and
  `Ipcp` use `Bitwise`, which the prover cannot take.
* `WindowSpec` of `Addresses`: the steps by one (`Plus`) turn a word into a number
  and back by a fold over its bits, and what that computes for every width is an
  induction that cannot be had.

## 5. Where the code disagrees with what it says

* **A store can be lost in a first-level cache** (`cache_l1_dirty`). A store that
  misses in a cache with `match_offset_bits` allocates an MSHR of type `WRITE`.
  A later load of the block that also misses is merged into it, and
  `mshr_type::merge` keeps the type of the successor (`src/src/cache.cc:128`),
  so that `fill_block` fills a clean block and the eviction writes nothing back.
  `test/cpp/src/407-writeback-dirty.cc:7` says "Blocks that have been written
  are marked dirty".
* **srrip is not told of fills** (`replacement_srrip`).
  `docs/src/Modules.rst:287` says that `update_replacement_state` is also called
  when a miss is filled if `replacement_cache_fill` is not defined; the call goes
  through a test of `hit || has_cache_fill` (`src/inc/cache.h:490`).
* **The global register of spp may have no victim** (`predictors_ghr`). The
  assertion at `src/prefetcher/spp_dev/spp_dev.cc:529` is reached: the counts of
  issued and useful prefetches are halved together (lines 86-89), prefetches
  issued before the halving are counted as useful after it, the accuracy passes
  100, and entries are stored with confidences that the search for one below 100
  does not find.

### Remarks on the code

What follows was met while modelling and is kept in the models as the code has
it.

* cache: the upper levels are rotated each cycle, so that with a hit latency of
  one and one tag check a cycle the same of two levels is first in every cycle
  with a free slot, although "upper levels get an equal portion of the remaining
  bandwidth" (`src/src/cache.cc:520`). When the walker's physical read and a load
  of the core share a block of a virtually addressed cache, merged answers carry
  the virtual address of one of them (only once pages are reused,
  `src/src/vmem.cc:98`).
* renaming: the count of sources at `src/src/ooo_cpu.cc:433` is made for renamed
  instructions too, and may stop the scheduling loop for nothing.
* walker: a PSCL hit at a level reads the entry of that level again, as
  `test/cpp/src/600-ptw-path.cc` expects; with `pte_page_size` below the page size the first
  read after a hit loses which part of the page the table is in.
* replacement: the first value of `SampleRate` (32, "1 in 32",
  `src/src/modules.cc:34`) is never kept: caches of 1024 sets and more sample one
  set in 8. ship's first sampled access has the time 0 and is evicted by the
  second. A refused miss is looked up again in each cycle, and policies are told
  each time.
* addresses: splice folds from the right (`src/inc/address.h:626`), so that with
  gaps between the later slices these lay zeros over the first one;
  `swizzle_bits` does not end with one bank in one bank group.
* predictors: `predict_branch` is called for every instruction
  (`src/src/ooo_cpu.cc:152`), so that perceptron's speculative history has
  instructions in it that are no branches.
* spp: `confidence_q` has `MSHR_SIZE` places and the lookahead may write past
  them (the model stops there, `status = "overrun"`); the first confidence is 100,
  so that the block that is asked for is prefetched.
* sms: inserting into the history zeroes the ages of its set.
* ipcp: `ghb_l1`, `num_misses` and `prev_cpu_cycle` are not initialised (any
  value in the model); a count that starts above 256 is never reset. CPLX may ask
  for the current block, and an unaccessed next line may be in the next page.
* smart_stride: `recent_prefetches` is not initialised; the header says ">12" and
  "<3" where the code has `>= 12` and `<= 3`; the window records prefetches that
  were refused.
* cmc: a stream has `MAX_DEGREE + 1` addresses; hits refresh the filter, so that
  a stream shorter than it is never asked for again; refused blocks stay in it.
* va_ampm_lite: the first access to a page is not marked.
* berti: the room it looks for is that of the queue of the first level above
  (`get_pq_occupancy()[0]`), while its prefetches go to the internal queue; the
  latency is not cut to 16 bits (`berti_aux.cc:7`); a burst that runs from both
  sides shifts by negative counts and by 64 and more (undefined; modelled as the
  x86 result, modulo the word) and lays block numbers over the page's; a burst
  that stops at block 0 is not continued.
* berti_micro: `berti[8] = 0` is past the array (`berti_micro.cc:268`); the walk
  round the ring leaves out the entry at the head; the second call of `add_prev`
  (560-562) is never reached; the current delta, the stride and the reuse of an
  entry that is taken again are those of the page before.
* next_line prefetches the block 20 ahead, where
  `test/cpp/src/451-next-line-behavior.cc:45` expects the next one.

## 6. What is not modelled, and why

* `sberti` and `berti_gaze`: variants of `berti` and `berti_micro`, whose tables
  are those of the modelled ones; `pythia`: reinforcement learning on
  floating-point values with random exploration, of which no small instance says
  anything; `next_line`: no state.
* Warmup in the walker (no penalty for page faults) and in the cache (shorter
  latencies): latencies are small or nondeterministic anyway.
* The size of the free list and the penalty's timestamp in `VMem`; the address
  bits of the page table beyond level, table and offset.
* The choice of a DRAM channel in `MEMORY_CONTROLLER` is in `Addresses`; its
  bandwidth statistics are not modelled.
* In `Addresses`: `offset`, and the conversions between static and dynamic
  extents, which are refused at compile time or by exceptions.
* The dispatch of hooks to several modules at once (`src/inc/modules.h`), and the
  constructor of `ooo_model_instr` but for the kind of a branch.
* The decompression of traces (`src/inc/inf_stream.h`), statistics, printers,
  builders, the generated environment, the configuration scripts, tracers and
  converters: input, output and construction.
* Two caches and the channel between them as one model: each is shown to keep the
  promise that the other assumes, and the product of two `Cache` instances is
  beyond what can be enumerated with merges and writes at both levels.
