# Verification of the IJVM garbage collectors and their harness

TLA+ models, TLC runs and TLAPS proofs for `src/gc`: five collectors behind one
vtable, the layer that calls them and counts what they do, the contract of the
virtual machine that hosts them, the generator of the workloads that exercise
them, and the driver that runs the experiments and records the results.

## 1. Inventory

| component | source | state | operations |
|---|---|---|---|
| host heap services | `gc/include/gc_host.h` (the VM itself is an empty submodule) | heap words, headers with tag bits, watermark | bump allocation, split, free block, move, mark and forward bits, heap walk, enumeration of roots and of reference slots |
| GC layer | `gc/src/collectors.c` | the collector's vtable | `gc_alloc` (one retry after a collection), `gc_collect`, `gc_write_barrier`, `gc_create` |
| baseline | `collectors/baseline.c` | none | bump allocation, empty collect |
| mark-sweep | `collectors/mark_sweep.c` | segregated free lists | first-fit allocation with split, recursive mark, coalescing sweep |
| mark-compact | `collectors/mark_compact.c` | forwarding map | mark, compute locations, update references, slide |
| Cheney | `collectors/cheney.c` | two semispaces, top | layout at the first allocation, flip, copy and scan |
| generational | `collectors/generational.c` | boundary, frontier, remembered set, tenured mark-compact | write barrier, router, minor (copy out of the nursery), major (mark-compact, new boundary) |
| statistics | `gc_stats.c` | totals, one record per collection | count, record, dump |
| experiment driver | `gc/harness/driver.py` | on disk: `runs.csv`, the built workloads, a summary, a series and a log per run; in memory: the runs left to do, what was built, the result at hand | enumerate the matrix, skip what `runs.csv` records, generate and assemble a workload once, run the VM, judge its exit code and files, log, append a row |
| workload generator | `gc/harness/gen_workload.py` | none (a program is a function of the arguments and of what is drawn) | four emitters, `churn`, `longlived`, `density`, `mutate`, over shared helpers for tables, indexes, keepers and loops |
| interpreter | a submodule, empty here | code, stack, locals, arrays | the instructions a workload uses |
| build files, report, results | Makefiles, `report/`, CSV files | | not modelled |

**How they interact.** The interpreter is one thread. NEWARRAY and ANEWARRAY
call `gc_alloc`, which calls the collector's `alloc`; when that returns the
sentinel it runs `gc_collect` and calls `alloc` once more. AIASTORE calls
`gc_write_barrier` before the store. A collector calls back into the host: to
walk the heap, and to visit the roots and the reference slots of an array with
a callback that may itself move the array and change the watermark. There is no
other thread: the program is stopped for the whole of a collection.

The driver is a process of its own. It starts the generator, the assembler and
the VM, one after the other, each with a timeout, and shares nothing with them
but files; it shares nothing with the driver of yesterday but files either. At
exit the VM writes the summary (totals and `exit_status`) and the series (one
line per collection), which the driver parses.

**What is hard here.** In the VM nothing runs concurrently and nothing is
persisted. What a test hardly reaches are long sequences of allocations,
stores and collections that leave the heap, the free lists, the forwarding map
or the remembered set subtly wrong; walks over a heap whose headers the walk
itself rewrites; arithmetic at the edges (a rest smaller than a header, 32-bit
differences and sums, less than two headers left); state that is laid out by
the first allocation although a collection may come first; and the early
returns of `gc_alloc` and `major_gc`. In the driver it is the opposite: the code
is a plain loop, but it may be killed anywhere, and what it then finds on disk
may be cut short, left from an earlier attempt or half built. In the generator
it is the programs it writes: relative jumps, tables that wrap around, what a
loop leaves on the stack. `PROJECT.json` lists each hazard at its line.

**What makes each correct.**
- every collector: the program, when it runs again, sees the same arrays with
  the same elements (`ViewPreserved`); no reference dangles and the heap is
  walkable (`HeapIntact`); out of memory is reported only for a reason
  (`OomMeansFull`, `OomTerminal`, `OomMeansNurseryTooSmall`); a collection ends
  (`CollectionEnds`);
- mark-sweep: marking is complete (`TriColour`), the free lists are exact and
  coalesced (`FreeListsExact`), the figures it reports add up (`SweepAccounts`,
  `NetIsOccupied`);
- mark-compact: forwarding is exact and read only where written
  (`ForwardExact`), sliding is safe (`SlideSafe`), nothing but live arrays is
  left (`CompactedExactly`);
- Cheney: the spaces stay apart and survivors fit (`SpacesDisjoint`, part of its
  `HeapIntact`), every array is copied once (`ForwardingSound`, `CopiedExactly`);
- generational: the remembered set is exact (`RememberedExact`), the router
  keeps room for all a minor collection may promote (`MinorHasRoom`,
  `HeadroomKept`);
- driver: a run with a final result is not executed again (`NeverRedone`; of rows that
  are torn less can be said, `RecordedIsSkipped` and finding 4) and does not lose it
  (`RefinesResultsTable`); what a row says is what happened in that very attempt
  (`RowIsTrue`); every run that was to be done is recorded (`EveryRunRecorded`); a sweep
  can be resumed (`ResumesAfterInterruption`, which fails, finding 3);
- generator: no program makes the VM fail (`NoFault`), loops leave the stack as
  they found it (`StackBalanced`), the arrays allocated are those the seed says
  (`AllocationsFollowSeed`), the structure built is the one the family promises
  (`StructureHolds`), and every program ends (`Halts`).

## 2. Modules

```
Host ── Mutator ─┬─ Baseline
                 ├─ Cheney
                 └─ Marking ─┬─ MarkSweep (MCMarkSweep)
                             └─ Compaction ─┬─ MarkCompact
                                            └─ Generational
AbstractHeap      instantiated in Mutator as Abstract, with the ghost view
GenWorkload ─┬─ Workload
IJVM ────────┘
Driver (MCDriver) ── DriverTheorems
ResultsTable      refined by Driver
MutatorTheorems ─┬─ BaselineTheorems
                 ├─ CheneyTheorems
                 └─ MarkingTheorems ─┬─ MarkSweepTheorems
                                     ├─ MarkCompactTheorems
                                     └─ GenerationalTheorems
```

Memory is counted in words of four bytes. A reference is the offset of a
two-word header (length, tags), as in the code divided by four; the tag bits
are a record, `head` tells that a header starts at a word, and `id` is a ghost
identity that no action of a collector reads except to copy it. Words that hold
no chunk any more are set to one value, `Stale`, which is no address and no
length: a collector that read one would leave the type or break an invariant.

- `Host` models every service of `gc_host.h` a collector calls. The VM is not in
  the repository, so this is what `gc/src` relies on: in particular
  `split_block` leaves a rest too small for a header in the array,
  `set_forwarded` may destroy the length, `raw_alloc` checks its bound in 64
  bits.
- `Mutator` is the program and `collectors.c`. `pc` follows `gc_alloc` and
  `gc_collect`: `run`, `collect`, `return`, `retry`, `oom`, with the phases of
  the collector between `collect` and `return`. `net` is `bytes_allocated`
  minus the sum of `bytes_freed`. `view` is a ghost: the heap as the program
  last left it, by identity and not by offset.
- `AbstractHeap` is what a program may observe: arrays it can reach, and their
  contents. A collection is a stuttering step of it. `RefinesAbstract` is checked by
  runs for mark-sweep and the generational collector and proved for all five collectors.
- `Marking` is the mark phase that `mark_sweep.c` and `mark_compact.c` hold in
  identical copies. The C recursion is a stack of frames, one slot per step.
  Like the code it does not test for null: the header at offset 0 is a phantom
  whose mark is set by the first null it meets.
- `MarkSweep`: `SweepStart`, `SweepMarked`, `SweepDead`, `SweepTail`, `SweepEnd`
  are the straight-line parts and the loop bodies of `sweep()`.
- `Compaction`: `LocateStep`, `UpdateStep`, `RelocateStep` are the loop bodies of
  the three walks; `CompactEnd` is the end of `compact()`. `MarkCompact` adds
  its vtable; `Generational` uses it as its tenured collector.
- `Cheney`: `Collect` is `flip`, `ProcessRoot` and `ProcessSlot` are one call of
  `process_obj` each, `NextCopy` the increment of `scan`.
- `Generational` (`FirstBoundary` is the 32-bit product of the code): `LayOut` and `Alloc`, `StoreRef` with `WriteBarrier`,
  `NeedsMajor` (the router), `Minor*` for `minor_gc`, `MajorStart` and `MajorEnd`
  around the tenured collection.

- `Driver` is `main()`, one action per step between two points at which a kill
  would make a difference: `Start`, `NextRun` (the cache), `Generate`,
  `Assemble`, `Execute` (`run_one` after the VM has ended), `WriteLog`,
  `OpenTable` and `WriteRow` (the two halves of `append_row`), `Finish`. `Kill`
  and `TornWrite` are the faults. A row of `runs.csv` keeps its run, its status
  and, as ghosts, what the VM really did (`did`) and which start wrote it (`by`). The rows are those that `csv.DictReader` makes of
  the file, for `load_statuses` reads nothing else. `open` says where the last
  line stops if it has no newline: in its run id, before, in or behind its status,
  or in a quoted reason. `Line` says what a row that is cut there reads as, and
  `Joined` what becomes of that when the next row is written right behind it: the
  field that was cut goes on with the new run id, so a status that is cut off
  before its comma is no status any more, an open quote takes in whole rows up to the
  next quote, and the new row is not a row of its own. It is kept in `lost`, a ghost,
  if all of it was written.
- `ResultsTable` is what `runs.csv` promises: at most one final result per run,
  kept for ever.
- `GenWorkload` has the emitters as operators from the drawn tables to a program,
  `Emit(family, draws)`, with the helpers they share. Labels are resolved to
  relative jumps.
- `IJVM` is the external machine: what the generator and `vm_notes.md` rely on.
  `Ready` says that the next instruction finds operands it is defined for.
- `Workload` executes every program of every family for every draw. Its
  properties compute from the draws alone what the program must have done.

Definitions whose name ends in `_<Variant>` and whose comment says *mutant* are
not used: each is a plausible bug, and replacing the definition after it by the
variant makes the property named in `PROJECT.json` fail.

## 3. Runs

| run | bounds | shows |
|---|---|---|
| `mark_sweep` | 7 words, 2 roots, lengths 0..2, GC anywhere | `TypeOK`, `HeapIntact`, `ViewPreserved`, `TriColour`, `FreeListsExact`, `SweepAccounts`, `NetIsOccupied`, `OomMeansFull`, refinement of `AbstractHeap` |
| `mark_compact` | 7 words, 2 roots | `HeapIntact`, `ViewPreserved`, `ForwardExact`, `SlideSafe`, `CompactedExactly`, `CollectionEnds` (marking included, which is the code mark-sweep has too) |
| `cheney` | semispaces of 7 words, lengths 0..2 and 27 | `HeapIntact`, `ViewPreserved`, `ForwardingSound`, `CopiedExactly`, `OomMeansFull`, `CollectionEnds` |
| `baseline` | 7 words | `HeapIntact`, `OomTerminal` |
| `generational` | 16 words, lengths 2 and 3, one element used per array | `HeapIntact`, `ViewPreserved`, `RememberedExact`, `MinorHasRoom`, `OomMeansNurseryTooSmall`, refinement of `AbstractHeap` |
| `generational_gc` | 16 words, length 2, GC anywhere | `HeadroomKept`, `CollectionEnds` |
| `driver` | two runs that share one program, 3 starts, writes torn at any byte | `NeverRedone`, `RowIsTrue`, `EveryRunRecorded`, refinement of `ResultsTable` |
| `workload` | 5 iterations, tables of 2, sizes 1 and 2, 3 nodes, 2 keeper slots | `NoFault`, `StackBalanced`, `AllocationsFollowSeed`, `StructureHolds`, `Halts` |
| `cheney_early_gc` | GC before the first allocation | finding 1 |
| `generational_small` | 11 words, lengths 1 and 2 | finding 2 |
| `driver_interrupted` | as `driver`, 2 starts, no write is torn | finding 3 |
| `driver_seeds` | two seeds, one of which begins the other, 2 starts | finding 4 |

In the runs of the collectors but `mark_sweep` and `baseline`, `HeapIntact`
includes the type invariant (and in `cheney` that the two spaces are disjoint).

*Why the bounds are enough.* Seven words hold three arrays, or two with a gap:
enough for shared and cyclic structures, runs of dead chunks before, between
and after live ones, splits with and without a rest, and a last array that
reaches the end of the heap. Free list classes are `<<1, 2>>`, so three buckets
are in use. In `cheney` length 27 with W = 32 wraps the 32-bit bound. In
`generational` sixteen words give several minor collections before a major one,
several majors, and a nursery of one to two arrays; the program reads and
writes element 1 only, so that index arithmetic matters and lists and cycles
still form. `MaxRemembered` bounds the remembered set between collections.
`generational` and `generational_gc` leave out arrays shorter than two elements,
because of finding 2: in these configurations the early return either ends the
program or cannot happen, in `generational_small` it can. W is 2048 there, so
that the product for the first boundary does not wrap (see the remarks below).

In `driver` two runs are enough for one to be finished, torn or half done while the
other starts, and because they share a program the second one meets what the first one
built, or failed to build. Three starts are a driver that leaves something
behind, one that adds damage to it, and one that reads the result. A VM that writes its
summary reports `OOM` there. With exit code 0 this is a final result, which the driver
treats like `COMPLETED` in all but the text of the status, and the harder one of the two,
because its beginning `oo` may be completed by another row; with any other exit code it is
the summary that must not be believed. The exit code 2 gives quoted reasons. The other
runs of the driver have `COMPLETED` and `FAULT`.
In `workload` five iterations
over tables of two entries wrap each index twice and use each entry at least
twice, in both phases; the fills 7 and 200 are on either side of the range of
BIPUSH; `MaxArrays` only bounds the heap, and `OutOfMemory` may end a program at
any allocation.

*Deadlock* is not checked: a program may stop, and it stops when it is out of
memory.

*Fairness* is weak fairness of the collector's steps only, in the modules of the
collectors. The program is one
thread and calls the collector synchronously: once `gc_alloc` or `gc_collect` is
entered nothing else runs, so its next step is taken. Nothing is assumed of the
program, which may loop without allocating. For the driver it is weak fairness
of `Step`: each subprocess is started with a timeout (`subprocess.run(...,
timeout=)`), so the driver always goes on; neither a kill nor a start is assumed
to happen or to stop happening. `EveryRunRecorded` therefore excepts a driver
that has ended, killed or by a torn write, before it came to the run. It excepts nothing
else: it asks for a row written in this very start, so that the line of an earlier
attempt does not count, and one that was joined to an open line must be among `lost`.
For a workload it is weak fairness of the next instruction: the
VM executes one while there is one.

## 4. Findings

1. `cheney_early_gc`: `cheney_collect` flips spaces that only `cheney_alloc`
   lays out. After a GC instruction before the first allocation the watermark is
   0 and the next array is allocated at offset 0, which is null.
2. `generational_small`: when a major collection leaves less than two headers,
   `major_gc` returns before it moves the boundary. `old_frontier` is then above
   `nursery_start`, the router's unsigned difference is huge, and the next
   collection is a minor one although there is no room; it sets the watermark
   below old arrays. No shipped workload allocates arrays that small when the
   heap is that full.
3. `driver_interrupted`: `append_row` opens `runs.csv`, which creates it, before it
   writes the header on close. A driver killed in between leaves an empty file,
   and every later start ends with the complaint about its columns.
4. `driver_seeds`: the row of a run whose id ends in `_s13`, cut after `_s1`, is read as
   a row of the run `..._s1` without a status. The finished run of seed 1 is then
   done again, and has two final rows. `matrix.json` has seeds 1 and 13.

Remarks, which no run is about:
- the product for the first boundary of the generational collector is one of 32
  bits. From 57,266,231 bytes of heap on it wraps, the boundary is far below three
  quarters (`implementation.typ:45`), and the first nursery may be nearly the whole
  heap. A collection may then find it full of live arrays, which is the early
  return of finding 2 for arrays of any length: with W = 64 `HeadroomKept` fails in
  `generational_gc`. The budgets of `matrix.json` end at 8 MiB;
- for `gc_stats` the baseline does collect once, when the heap is full; the
  handoff notes say that it never does;
- `append_row` writes right behind whatever the file ends with. A row behind an
  unfinished line becomes part of it, and the run whose whole row is on disk is
  done again: with `RecordedIsSkipped` in `Driver.cfg` TLC shows it after three starts,
  without any seeds that begin one another. Two cases are less obvious. A row cut right
  after its `ok` reads as final until the next row turns the field into `okbaseline_...`;
  and the reason that goes with exit code 2 has a comma, so csv quotes it, and a cut inside
  the quotes makes the reader take all later rows for a part of that field, up to the
  next quoted reason. This is why `Settled` asks for the comma and why `EveryRunRecorded`
  looks among the `lost` rows as well;
- a workload binary is reused if its file exists. One that a killed assembler left half
  written is reused by every later start, and `--rerun-failed` does not build it
  anew. Whether `gojasm` ever leaves one is not for this repository to say, so no property
  is about it;
- the comment at `driver.py:73` calls the `exit_status` column the authority, but
  the exit code is looked at first, and a run whose exit code is not 0 is a
  failure whatever the column says;
- the run id leaves out the iteration count: another count needs another
  results directory;
- an open quote that swallows more than 131072 characters, some hundred rows, makes
  the csv module raise, and every later start ends in `load_statuses`. The model has
  no sizes, so it goes on reading.

## 5. Proofs

The assumptions are those of the modules on their constants: a heap smaller than
W - 2 words (`HeapAssumption`), lengths and element indexes that are natural
numbers (`MutatorAssumption`), increasing size classes (`SizeAssumption`), a
matrix without duplicate runs or empty names (`MatrixAssumption`). The theorems about
Cheney's collector are for `EarlyGC = FALSE`, programs without a GC instruction before
the first allocation; finding 1 is why. Those about the generational collector have two
hypotheses, which the configuration `generational` satisfies:

- `LargeArrays`: the program executes no GC instruction and asks for arrays of at least
  two elements. It excludes finding 2: after the early return of `major_gc` less than
  two headers are left, so such an array does not fit and the program ends; a smaller one
  may fit, and a GC instruction lets the program go on, and both leave it with the
  generations out of order. No workload that `gen_workload.py` emits has a GC instruction.
- `NoWrap`: the product for the first boundary fits in 32 bits (the remark in section 4).
  The budgets of `matrix.json` are far below.

- `MutatorTheorems`, first part, about `Host`: what each service does to the type of the heap and to the words
  outside the chunk it writes; a tiled region (every chunk ends where the next
  begins) can be cut and joined at a header, and stays tiled when chunks are
  merged, split or appended; how many words a set of chunks covers, that the fold
  which adds their sizes computes that number (`SumCovered`), that the chunks of a tiled
  region cover every word of it (`TiledCovers`), and that the heap walk meets exactly
  the headers (`WalkMeets`). It also says
  what `Reachable` computes: on a finite set the recursive function has a solution
  (`ClosureExists`), and any solution maps a set to the least set that holds it and is
  closed under the edges (`ClosureLeast`, by a smallest counterexample).
- `MutatorTheorems`, second part: a set of arrays is `Sound` when they do not overlap and
  no root and no element of one of them dangles; a heap is `WellFormed` when it is tiled and
  its allocated arrays are sound. Stores, loads and pops keep any set of arrays sound
  (`StoreSound`, `RootSound`), and a push of a bump-allocated array keeps the heap well formed, for
  every collector. The generational collector needs the first form, because its heap has
  a gap that no chunk fills. What the program sees is
  compared between two heaps:
  - `CarriedView`: if a map F takes every reached array of one heap to an array of the
    other with the same identity, kind and integers, whose references are
    the images of the old ones (`Carries`), then both show the same view. `UnmovedView`
    is the case where F is the identity.
  - `Seen`: the ghost `view` is the view of the heap, and no two reached arrays share an
    identity. `SoundSees` (for a well formed heap, `ProgramSees`) and `BumpSees` keep it.
  - `SoundIsAbstract`, `ProgramIsAbstract`, `BumpIsNew`: with `Seen`, an instruction is
    the action of `AbstractHeap` with its name. `AbstractLive` shows that what the abstract
    program reaches is, by identity, what the concrete one reaches. `Waiting` is the
    part of `gc_alloc` this needs: the slot a retried allocation is for is empty.
- `BaselineTheorems`: type correctness, `HeapIntact`, `OomTerminal`, `ViewPreserved` and the
  refinement of `AbstractHeap`, for every value of the constants. The inductive invariant
  adds to `WellFormed` that a pending request does not fit, which is why the retry must fail.
- `MarkingTheorems`: what `mark_sweep.c` and `mark_compact.c` share, and the passes of
  `compact()`. The mark phase changes marks only. Its invariant `MarkInv`
  says that only allocated arrays are marked, that a visited root is marked, and
  that a slot of a marked array either holds a marked array or is still pending
  in a frame. When roots and frames are exhausted the marked arrays are closed
  under references (`MarkDoneCloses`), so what is reached is marked. `MarkPrecise` says
  the converse, that what is marked or waits in a frame is reached, and `MarkDoneExact`
  puts both together: at the end exactly what is reached is marked.
  - `Planned`: the marked arrays of a region, in order, get places that do not overlap
    and lie at or below them. `Counted` says in numbers which place: as many words up as
    the marked arrays before it cover.
  - `Locating`, `Updating` and `Sliding` are the loop invariants of the three walks. Each
    names the arrays whose slots hold old references and those whose slots hold places;
    `Sliding` adds that what lies between the arrays already moved and the walk is never
    read again. `LocateKeeps`, `UpdateKeeps` and `SlideKeeps` are one step of each.
  - `CompactInv` joins `MarkInv` and the three loop invariants by phase, and
    `CompactTraced` says in each phase what the heap still holds of what the program saw.
    `CompactStepKeeps`, `CompactStepTraced` and the lemmas about `CompactEnd` do not mention
    who called, so mark-compact and the generational collector both cite them.
- `MarkSweepTheorems`: `TypeOK`, `HeapIntact`, `TriColour`, `FreeListsExact`,
  `SweepAccounts`, `NetIsOccupied`, `OomMeansFull`, `ViewPreserved` and the refinement of
  `AbstractHeap`, for every value of the constants. The argument:
  - `ListsHold(lists, S, h)`: the buckets hold the blocks of S, each once and in
    its own bucket. Pushing, taking and the first-fit search are lemmas about it;
    the search may skip the smaller buckets because a block of a smaller bucket
    is too short (`BucketOrder`).
  - `Consistent`: the heap is well formed and the lists hold exactly its free
    chunks, no two of which are neighbours. Allocation keeps it (`AllocEffect`),
    whether it bumps, takes a whole block or splits one.
  - `HeapIntact` and `FreeListsExact` are not inductive: they say nothing during
    a collection. `Swept(h, rs, lists, walked, bound)` is the sweep's loop
    invariant. `walked` is where the walk stands and `bound` where the run of dead
    chunks before it began; below `bound` the lists are exact, at and above
    `walked` the marks are those of the mark phase, and what the program keeps
    (`Kept`) is what is marked or lies below `bound`. A free chunk below `bound`
    ends below it, or the chunk at `bound` is marked: this is what makes the runs
    maximal, hence no two free chunks neighbours.
  - `SweepBegin` derives it from a finished mark phase, `PassDead`, `PassMarked` and
    `CloseKeeps` are the three things a step does, and `SweepFinish` derives
    `Consistent` from it. The code clears a mark and then closes the run before
    it; `ClearCommutes` lets the proof do it in the other order.
  - `IInv` puts the phases together, one lemma per action. TLC finds it invariant
    on the configuration of `mark_sweep` as well.
  - `Seen` is inductive relative to `IInv`: what is reached is `Kept` (`SweptLive`), and a
    sweep writes outside it only.
  - The figures: `WordsOf(h, S)` is the number of words that the chunks of S cover, and
    chunks that share no word add up (`WordsApart`), so arrays and free chunks make up the
    heap (`WordsAll`). `CountWords` shows that `free_list_words` counts those of the free
    chunks. `Accounts` is inductive relative to `IInv` and `Seen` and says what the figures are
    in each phase: outside a collection `net` is what the arrays cover (`Occupied`), however
    an array was allocated (`AllocOccupies`); while the sweep runs they describe what lies
    below `bound` (`Tallied`), and what is kept is reached, because marking is exact, and
    leaves room for the words that were free before (`Exact`). The last is needed for
    `bytes_freed`: it is a difference of unsigned numbers that the code cuts off at 0, and
    `net` is right only because it is never cut off (`SweepEndCounts`). TLC found `Accounts`
    invariant on the configuration of `mark_sweep` too.
- `MarkCompactTheorems`: `TypeOK`, `HeapIntact`, `ForwardExact`, `SlideSafe`,
  `CompactedExactly`, `ViewPreserved` and the refinement of `AbstractHeap`, for every value
  of the constants.
  `IInv` adds to `CompactInv` what holds between collections. During the last two walks
  the heap shows the program nothing sensible: some references are old and some new.
  `CompactTraced` therefore speaks of the heap h0 and the roots rs0 at the moment
  `update_references` began, which still showed the view: there are such h0 and rs0, and
  every array reached in h0 is now where `Moves` puts it, or still where it was, with
  rewritten slots or with those it had in h0 (`Rewritten`, `Relocated`). When the last
  array has moved, `Moves` carries h0 to the heap (`RelocatingEnds`) and `CarriedView` applies.
  `CompactedExactly` needs the converse as well: nothing survives but the arrays of the
  plan (`Left`), which are those reached in h0 because marking is exact. Its figure, `net`,
  is by `Accounts` the number of words below the watermark, in every phase.
- `CheneyTheorems`: `TypeOK`, `HeapIntact`, `ForwardingSound`, `CopiedExactly`,
  `OomMeansFull`, `ViewPreserved` and the refinement of `AbstractHeap`. The argument:
  - During a collection h0 and rs0 are again the heap and roots it began with, and F is the
    map from the arrays copied so far to their copies. `Evacuating` is the loop invariant:
    F goes from arrays reached in h0 one to one onto the chunks of to-space below the
    watermark; an array is forwarded if and only if F is defined for it, and to F's value;
    a copy that `scan` has passed, or the slots before the one it stands at, and the roots
    already visited hold images under F; every other slot holds what it held in h0; and
    from-space outside the forwarded headers is that of h0.
  - The survivors fit: the arrays copied cover as many words of to-space as their
    originals cover of from-space, where they are disjoint and where the array copied next
    is none of them. This is why `raw_alloc` never fails during a flip.
  - When `scan` meets the watermark, everything reached in h0 has an image, since the
    images are closed under references, so F carries h0 to the new heap and `CarriedView`
    applies. That F is one to one, and defined only for what is reached, gives
    `CopiedExactly`.
  - `IInv` joins the layout of the spaces (`LaidOut`), the state at rest or `Evacuating`,
    and `Accounts`, which says what `net` is in each phase.
- `GenerationalTheorems`: `TypeOK`, `HeapIntact`, `RememberedExact`, `HeadroomKept`,
  `MinorHasRoom`, `OomMeansNurseryTooSmall`, `ViewPreserved` and the refinement of
  `AbstractHeap`, under `LargeArrays` and `NoWrap`, and that a major collection keeps what
  mark-compact keeps (`GenerationalMajorSafe`). None of them is inductive. The argument:
  - `Rest(h, rs, o, n)`: both generations are tiled, a header's room or more apart, hold
    arrays only, and these are `Sound`. `Remembers` is `RememberedExact` of a heap and a
    boundary. Together they are `AtRest`, which every instruction keeps; for a store
    this is the write barrier (`StoreRemembers`), and since array lengths do not change an
    entry stays a slot.
  - The gap may hold remains of earlier arrays, which no walk may meet. Filling
    it with one free block changes no array (`GapUnseen`), makes the whole heap walkable
    (`FilledWalks`), and so begins both collections.
  - `Promoting` is the loop invariant of a minor collection. F maps the nursery arrays
    copied so far, one to one, to the chunks that fill the old generation from where it
    ended; each copied slot that the scan has passed, each root already visited and
    each slot of an old array holds an image under F or an old array, with one
    exception: an old slot that waits in the rest of the remembered set. What is not yet
    visited holds what it held in h0, the heap the collection began with. `RootProcessed`,
    `EntryProcessed`, `SlotProcessed` and `CopyScanned` are one step of each loop.
    Duplicates in the remembered set are harmless because an image under F is already old.
  - The copies cover as many words as their originals, which lie in the nursery, and the
    router found room for all of the nursery and two headers. So the headroom outlives
    every copy, and the branches of `copy` and `split_block` without a remainder are dead.
    That the router's differences do not wrap is `RouterExact`.
  - `PromotionEnds`: when the scan meets the frontier every array reached in h0 is old
    or has an image, so `CarriedView` applies; no old slot leads to the nursery, so
    the empty remembered set is exact.
  - `MajorEnds`: compaction leaves exactly what is reached and no forwarding, so with two
    headers left the generations are at rest again with an empty nursery. Otherwise
    `Full` holds, the retry fails because the array has two elements, and the program ends.
  - `IInv` puts the phases together, one lemma per action; the major phases are those of
    `CompactInv`.

- `DriverTheorems`, for every matrix: `RowIsTrue`, `NeverRedone` and the refinement of
  `ResultsTable`, torn writes included, and `RecordedIsSkipped` on a disk that does not
  fill up (`TornWrites = FALSE`; finding 4 shows that this is needed). `NeverRedone` and
  the refinement speak of results that are `Settled`, those with as much as the comma behind
  the status on disk, and of the runs that are `Unmistakable`: those whose id is not how
  another one begins, in `matrix.json` all but the runs of seed 1. Both restrictions are
  needed (finding 4 and the remark on `append_row`), and both are void if no write is torn.
  The argument:
  - `LineIsPart` says what a row that is cut reads as, and `JoinedFollows` what an open
    line can become: a settled status stays, and no other one becomes final, except
    that `oo`, the beginning of `oom`, may meet the `m` of `mark_sweep`, which is what
    the VM did. `Written` puts them together: all a write makes of the table, finished or
    torn, is nothing, one new line, or another last line.
  - `TrueInv` is inductive: while a result is at hand its status is what the VM
    did (`RunOneTrue`: with exit code 0 the VM has opened its files, so what they
    say is not of an earlier attempt), and a failed one is logged before it is
    appended; rows stay true because a log is never deleted (`WrittenTrue`).
  - That a finished run stays finished is not inductive, because `load_statuses` looks at
    the latest row only. `FinalIsLast` strengthens it: no row of a run follows a settled
    final one. `LatestIsFinal` derives from it that the latest row is settled and final if
    any is, `WrittenGrows` says what a write preserves, and `OnceStep` puts them together.
  - `WholeStep`: where no write is torn every row is a line of its own, so all are settled
    and all runs unmistakable, and `RecordedIsSkipped` follows.
  - `GrownStep` maps a write to `Record` or to a stutter of `ResultsTable`.

The refinements of `AbstractHeap` share one argument: from `Seen` and `Waiting`, each
instruction and each allocation that succeeds is an abstract action, and every other step,
all those of a collection among them, leaves the view unchanged.

Only model-checked: liveness under fairness (`CollectionEnds`, `EveryRunRecorded`, `Halts`),
which the provers cannot do; the workloads (`NoFault`, `StackBalanced`, `AllocationsFollowSeed`,
`StructureHolds`), which are programs put together by folding over their tables, so that
what holds of their instructions is an induction over data; and the generational collector
where the hypotheses above fail: `generational_gc` checks `HeadroomKept` with GC
instructions, in a configuration where the early return cannot happen.

## 6. What is assumed of the outside

- The VM is not in the repository. `Host` and `IJVM` are what the collectors and
  the generator rely on; `VMOutcomes` is what the driver relies on: a VM that
  exits with 0 has opened (and so emptied) its two files, it refuses a program
  that is cut short, and it writes the summary before the series.
- When the driver is killed, so is the subprocess it waits for. Bytes that were
  written and closed survive; a kill between `open` and `close` writes none of the
  buffer, a full disk (`TornWrites`) any prefix of it. The names of the matrix
  have neither commas nor quotes, and no run id is a piece of one run id followed by
  another run id.
- One driver at a time works on a results directory: nothing in the code locks it.

## 7. Not modelled, and what could follow

Not modelled: the depth of the C stack while marking; failure of `malloc` and
`realloc`; time, so pauses have no length and a timeout may come at any moment;
the record array and the dump of `gc_stats.c`, which are sums and maxima that
nothing reads back; what the generational collector reports as freed (its
`bytes_freed` counts the gap that was never allocated); the figures the driver
copies from a summary to a row; the text of the `.jas` files; the interpreter
beyond the instructions of the workloads (methods, input and output); build
files, report and data. That mark-sweep's sweep ends is not checked by a run of
its own: marking is, in `mark_compact`, and the sweep is one walk over a heap that
`HeapIntact` says is walkable.

What could follow: for the generational collector, the condition on heap size and
live words under which the early return cannot happen, which would replace
`LargeArrays`; and a statement of what mark-sweep's fragmentation costs.
