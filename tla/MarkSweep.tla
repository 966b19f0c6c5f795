------------------------------ MODULE MarkSweep ------------------------------
(***************************************************************************)
(* gc/src/collectors/mark_sweep.c: segregated free lists searched first    *)
(* fit, a recursive mark, and a sweep that rebuilds the lists from the     *)
(* coalesced runs of unmarked chunks.                                      *)
(***************************************************************************)
EXTENDS Marking, SequencesExt, FiniteSetsExt

CONSTANT SizeClasses     \* free_list_sizes, <<64, 256, 1024>> in the code

ASSUME SizeAssumption ==
    /\ SizeClasses \in Seq(Nat)
    /\ \A i, j \in DOMAIN SizeClasses : i < j => SizeClasses[i] < SizeClasses[j]

VARIABLES
    free_list,      \* the buckets, each the sequence of its blocks
    current,        \* sweep: the chunk the walk is at, or the sentinel
    run_start,      \* sweep: where the current run of dead chunks began
    free_before     \* sweep: what the lists held when it started

sweepVars == <<free_list, current, run_start, free_before>>
vars == <<mutatorVars, markVars, sweepVars>>

Buckets == 1 .. Len(SizeClasses) + 1

\* The bucket of a length: the first class above it, or the last bucket.
FindFreeListIndex(length) ==
    Min({i \in DOMAIN SizeClasses : length < SizeClasses[i]}
        \cup {Len(SizeClasses) + 1})

Searched_OwnBucketOnly(length) == {FindFreeListIndex(length)}     \* mutant
Searched(length) == {i \in Buckets : i >= FindFreeListIndex(length)}

\* First block that fits, in the first bucket, from the length's own upwards,
\* that has one; it leaves its list.
FindFreeBlock(h, lists, length) ==
    LET Enough(i) == {k \in DOMAIN lists[i] : ObjectLength(h, lists[i][k]) >= length}
        buckets   == {i \in Searched(length) : Enough(i) # {}}
        i         == Min(buckets)
        k         == Min(Enough(i))
    IN  IF buckets = {}
        THEN [ref |-> SENTINEL, lists |-> lists]
        ELSE [ref   |-> lists[i][k],
              lists |-> [lists EXCEPT ![i] = RemoveAt(@, k)]]

FreeBlock(h, lists, ref) ==
    [lists EXCEPT ![FindFreeListIndex(ObjectLength(h, ref))] = <<ref>> \o @]

ClearedLists == [i \in Buckets |-> <<>>]

\* The words on the lists, one by one.
CountFreeListWords(h, lists) ==
    LET Words(i) == {w \in (DOMAIN lists[i]) \X (1 .. HeapEnd) :
                        w[2] <= ObjectWords(h, lists[i][w[1]])}
    IN  Cardinality(UNION {{i} \X Words(i) : i \in Buckets})

\* mark_sweep_alloc.
Alloc(length, is_ref, id) ==
    LET f == FindFreeBlock(heap, free_list, length)
        a == RawAlloc(heap, length, is_ref, id)
        s == SplitBlock(heap, f.ref, length, is_ref, id)
    IN  IF f.ref = SENTINEL
        THEN [ref |-> a.ref, heap |-> a.heap, lists |-> free_list]
        ELSE [ref |-> f.ref, heap |-> s.heap,
              lists |-> IF s.rem = SENTINEL THEN f.lists
                        ELSE FreeBlock(s.heap, f.lists, s.rem)]
-----------------------------------------------------------------------------
Init ==
    /\ MutatorInit
    /\ MarkInit
    /\ free_list = ClearedLists
    /\ current = SENTINEL
    /\ run_start = SENTINEL
    /\ free_before = 0

NewArray(r, length, ref, id) ==
    LET a == Alloc(length, ref, id)
    IN  /\ AllocFirst(r, length, ref, a)
        /\ free_list' = a.lists
        /\ UNCHANGED <<markVars, current, run_start, free_before>>

Retry(id) ==
    LET a == Alloc(req.length, req.ref, id)
    IN  /\ AllocRetry(a)
        /\ free_list' = a.lists
        /\ UNCHANGED <<markVars, current, run_start, free_before>>

\* mark_sweep_collect: mark ...
Collect ==
    /\ pc = "collect"
    /\ pc' = "mark"
    /\ UNCHANGED <<heap, roots, req, out, net, view, markVars, sweepVars>>

\* ... then sweep, up to its loop.
SweepStart ==
    /\ MarkDone
    /\ pc' = "sweep"
    /\ free_before' = CountFreeListWords(heap, free_list)
    /\ free_list' = ClearedLists
    /\ current' = HeapFirst(heap)
    /\ run_start' = SENTINEL
    /\ root' = 1
    /\ UNCHANGED <<heap, roots, req, out, net, view, frames>>

\* One dead run becomes one free block: its header, its bucket, its statistics.
CloseRun(h, end, live) ==
    LET block == MakeFreeBlock(h, run_start, end)
        size  == ObjectWords(block, run_start)
    IN  /\ heap' = block
        /\ free_list' = FreeBlock(block, free_list, run_start)
        /\ out' = [out EXCEPT !.live = @ + live,
                              !.free = @ + size,
                              !.largest = IF size > @ THEN size ELSE @]

Unmarked_Not == heap                        \* mutant: the mark survives
Unmarked == ClearMarked(heap, current)

SweepMarked ==
    /\ pc = "sweep"
    /\ current # SENTINEL
    /\ IsMarked(heap, current)
    /\ LET live == ObjectWords(heap, current)
       IN  IF run_start # SENTINEL
           THEN CloseRun(Unmarked, current, live)
           ELSE /\ heap' = Unmarked
                /\ out' = [out EXCEPT !.live = @ + live]
                /\ UNCHANGED free_list
    /\ run_start' = SENTINEL
    /\ current' = HeapNext(heap, current)
    /\ UNCHANGED <<roots, pc, req, net, view, markVars, free_before>>

\* Mutant: every dead chunk becomes a block of its own.
ExtendRun_NewRun ==
    /\ run_start' = current
    /\ IF run_start = SENTINEL THEN UNCHANGED <<heap, free_list, out>>
                               ELSE CloseRun(heap, current, 0)
ExtendRun ==
    /\ run_start' = IF run_start = SENTINEL THEN current ELSE run_start
    /\ UNCHANGED <<heap, free_list, out>>

SweepDead ==
    /\ pc = "sweep"
    /\ current # SENTINEL
    /\ ~IsMarked(heap, current)
    /\ ExtendRun
    /\ current' = HeapNext(heap, current)
    /\ UNCHANGED <<roots, pc, req, net, view, markVars, free_before>>

\* The run that reaches the watermark becomes a free block too; the watermark
\* stays.
CloseTail_Dropped == UNCHANGED <<heap, free_list, out>>     \* mutant
CloseTail == CloseRun(heap, heap.watermark, 0)

SweepTail ==
    /\ pc = "sweep"
    /\ current = SENTINEL
    /\ run_start # SENTINEL
    /\ CloseTail
    /\ run_start' = SENTINEL
    /\ UNCHANGED <<roots, pc, req, net, view, markVars, current, free_before>>

Freed_CountsOldFree == out.free             \* mutant: free blocks freed again
Freed == IF out.free > free_before THEN out.free - free_before ELSE 0

SweepEnd ==
    /\ pc = "sweep"
    /\ current = SENTINEL
    /\ run_start = SENTINEL
    /\ pc' = "return"
    /\ out' = [out EXCEPT !.freed = Freed]
    /\ free_before' = 0
    /\ UNCHANGED <<heap, roots, req, net, view, markVars, free_list, current, run_start>>

CollectorStep ==
    \/ Collect \/ SweepStart \/ SweepMarked \/ SweepDead \/ SweepTail \/ SweepEnd
    \/ (VisitRoot \/ VisitRef) /\ UNCHANGED sweepVars
    \/ CollectReturn /\ UNCHANGED <<markVars, sweepVars>>
    \/ \E id \in FreshIds : Retry(id)

Program ==
    \/ \E r \in RootSlots, length \in Lengths, ref \in Kinds, id \in FreshIds :
          NewArray(r, length, ref, id)
    \/ /\ \/ \E r, s \in RootSlots, k \in Elements : AIAStore(r, k, s)
          \/ ProgramStep
          \/ GCInstruction
       /\ UNCHANGED <<markVars, sweepVars>>

Next == Program \/ CollectorStep

Spec == Init /\ [][Next]_vars /\ WF_vars(CollectorStep)
-----------------------------------------------------------------------------
TypeOK ==
    /\ MutatorTypeOK
    /\ MarkTypeOK
    /\ pc \in {"run", "collect", "mark", "sweep", "return", "retry", "oom"}
    /\ free_list \in [Buckets -> Seq(Addr)]
    /\ current \in Addr \cup {SENTINEL}
    /\ run_start \in Addr \cup {SENTINEL}
    /\ free_before \in Nat

\* The free chunks below the offset end.
FreeChunks(h, end) == {a \in Headers(h, Base, end) : h.tag[a].free}

Quiet == pc \in {"run", "collect", "retry", "oom"}

\* Between collections the heap is a walkable sequence of arrays and free
\* chunks, no mark is left over, and what the program reaches is allocated
\* (handoff 1 "layout is walkable", 3 "length is sacred during the heap walk").
HeapIntact ==
    Quiet => /\ Tiled(heap, Base, heap.watermark)
             /\ Marked = {}
             /\ ReferencesValid(Allocated(heap, Base, heap.watermark))

\* The free lists hold every free chunk exactly once, each in the bucket of its
\* length, so a block split off or coalesced is neither lost nor given out twice;
\* and no two free chunks are neighbours: the sweep coalesced every run.
FreeListsExact ==
    Quiet =>
        LET Free == FreeChunks(heap, heap.watermark)
            Bucket(a) == FindFreeListIndex(ObjectLength(heap, a))
        IN  /\ \A i \in Buckets : \A k \in DOMAIN free_list[i] :
                  free_list[i][k] \in Free /\ Bucket(free_list[i][k]) = i
            /\ \A a \in Free : \E k \in DOMAIN free_list[Bucket(a)] :
                  free_list[Bucket(a)][k] = a
            /\ \A i \in Buckets : IsInjective(free_list[i])
            /\ \A a \in Free : a + ObjectWords(heap, a) \notin Free

\* Marking sets exactly the marks of the reachable arrays, and the sweep frees
\* exactly the others: the statistics it reports add up to the heap.
SweepAccounts ==
    pc = "return" =>
        /\ out.live + out.free = heap.watermark - Base
        /\ out.live = MapThenSumSet(LAMBDA a : ObjectWords(heap, a), LiveRefs)
        /\ out.largest = FoldSet(LAMBDA a, m : IF ObjectWords(heap, a) > m
                                  THEN ObjectWords(heap, a) ELSE m,
                                 0, FreeChunks(heap, heap.watermark))

\* Words allocated minus words freed, as gc_stats sums them, is what the heap
\* holds outside the free lists.
NetIsOccupied ==
    CountBytes /\ Quiet => net = heap.watermark - Base - CountFreeListWords(heap, free_list)

\* The program runs out of memory only when no free block and no bump room can
\* hold the array.
OomMeansFull ==
    [][(pc = "retry" /\ pc' = "oom") =>
          /\ heap.watermark + Header + req.length > HeapEnd
          /\ \A a \in FreeChunks(heap, heap.watermark) :
                ObjectLength(heap, a) < req.length]_vars

\* Every collection ends and the program resumes, or has run out of memory.
CollectionEnds == pc \notin {"run", "oom"} ~> pc \in {"run", "oom"}
=============================================================================
