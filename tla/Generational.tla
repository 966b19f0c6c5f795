---------------------------- MODULE Generational -----------------------------
(***************************************************************************)
(* gc/src/collectors/generational.c. The old generation is [Base,          *)
(* old_frontier), the nursery [nursery_start, watermark), and the gap      *)
(* between them is free. A minor collection copies the nursery's survivors *)
(* to old_frontier; a major one runs mark-compact over the whole heap and  *)
(* lays the generations out again.                                         *)
(***************************************************************************)
EXTENDS Compaction, SequencesExt

CONSTANT MaxRemembered      \* bound: entries of the remembered set

ASSUME RememberedAssumption == MaxRemembered \in Nat

VARIABLES
    nursery_start, old_frontier,        \* struct generational_state, 0 at first
    remembered,                         \* remember_set: its slots and indexes
    entry,                              \* remset_forward: the next entry
    copy_scan,                          \* minor_gc: the copy being scanned
    copy_slot,                          \* ... and its next slot
    old_before, nursery_used            \* minor_gc: what it found, for its report

genVars == <<nursery_start, old_frontier, remembered>>
minorVars == <<entry, copy_scan, copy_slot, old_before, nursery_used>>
vars == <<mutatorVars, markVars, compactVars, genVars, minorVars>>
collectorVars == <<markVars, compactVars, genVars, minorVars>>

Init ==
    /\ MutatorInit /\ MarkInit /\ CompactInit
    /\ nursery_start = 0 /\ old_frontier = 0 /\ remembered = <<>>
    /\ entry = 1 /\ copy_scan = 0 /\ copy_slot = 0 /\ old_before = 0 /\ nursery_used = 0

\* generational_alloc: the first call puts the boundary at three quarters. The
\* product is one of bytes, in 32 bits.
FirstBoundary == Base + (((4 * (HeapEnd - Base) * 75) % (4 * W)) \div 100) \div 4

LayOut ==
    IF nursery_start = 0
    THEN /\ nursery_start' = FirstBoundary
         /\ old_frontier' = Base
    ELSE UNCHANGED <<nursery_start, old_frontier>>

Alloc(length, is_ref, id) ==
    RawAlloc(IF nursery_start = 0 THEN SetWatermark(heap, nursery_start') ELSE heap,
             length, is_ref, id)

NewArray(r, length, ref, id) ==
    /\ LayOut
    /\ AllocFirst(r, length, ref, Alloc(length, ref, id))
    /\ UNCHANGED <<markVars, compactVars, remembered, minorVars>>

Retry(id) ==
    /\ LayOut
    /\ AllocRetry(Alloc(req.length, req.ref, id))
    /\ UNCHANGED <<markVars, compactVars, remembered, minorVars>>

IsOldGen(a)    == a < nursery_start
IsInNursery(a) == a >= nursery_start

\* generational_write_barrier; the remembered set keeps duplicates.
WriteBarrier(obj, index, new_val) ==
    remembered' = IF IsOldGen(obj) /\ IsInNursery(new_val)
                  THEN Append(remembered, <<obj, index>>) ELSE remembered

StoreRef(r, k, s) ==
    /\ Len(remembered) < MaxRemembered
    /\ AIAStore(r, k, s)
    /\ WriteBarrier(roots[r], k, roots[s])
    /\ UNCHANGED <<markVars, compactVars, nursery_start, old_frontier, minorVars>>
-----------------------------------------------------------------------------
\* generational_collect routes on 32-bit differences.
UsedNursery == (heap.watermark - nursery_start) % W
FreeOld     == (nursery_start - old_frontier) % W
NeedsMajor_NoHeadroom == FreeOld < UsedNursery              \* mutant
NeedsMajor_FreeOnly   == FreeOld < 2 * Header               \* mutant
NeedsMajor == FreeOld < (UsedNursery + 2 * Header) % W

\* Both collections first make the gap a free block of its own.
GapFilled == IF old_frontier < nursery_start
             THEN MakeFreeBlock(heap, old_frontier, nursery_start) ELSE heap

MinorStart ==
    /\ pc = "collect"
    /\ ~NeedsMajor
    /\ pc' = "minor"
    /\ heap' = GapFilled
    /\ root' = 1
    /\ entry' = 1
    /\ copy_scan' = old_frontier
    /\ copy_slot' = old_frontier + Header
    /\ old_before' = old_frontier
    /\ nursery_used' = heap.watermark - nursery_start
    /\ UNCHANGED <<roots, req, out, net, view, frames, compactVars, genVars>>

\* copy(): split_block carves the array out of the free block at old_frontier.
\* When it leaves no remainder only the elements are copied, and the old
\* generation is full.
Copy(from) ==
    LET to    == old_frontier
        len   == ObjectLength(heap, from)
        s     == SplitBlock(heap, to, len, heap.tag[from].ref, heap.tag[from].id)
        elems == (to + Header) .. (to + Header + len - 1)
        h     == IF s.rem = SENTINEL
                 THEN [s.heap EXCEPT !.word = [x \in Addr |->
                         IF x \in elems THEN heap.word[from + (x - to)] ELSE s.heap.word[x]]]
                 ELSE MoveObject(s.heap, from, to)
    IN  [ref      |-> to,
         heap     |-> SetForwarded(h, from, to),
         frontier |-> IF s.rem = SENTINEL THEN nursery_start ELSE s.rem]

\* process_obj and the loop body of remset_forward, on a slot that holds v.
ProcessObj(v) ==
    IF v = GC_NULL \/ v < nursery_start
    THEN [ref |-> v, heap |-> heap, frontier |-> old_frontier]
    ELSE IF IsForwarded(heap, v)
    THEN [ref |-> GetForwarded(heap, v), heap |-> heap, frontier |-> old_frontier]
    ELSE Copy(v)

MinorRoot ==
    /\ pc = "minor"
    /\ root \in RootSlots
    /\ LET p == ProcessObj(roots[root])
       IN  /\ roots' = [roots EXCEPT ![root] = p.ref]
           /\ heap' = p.heap
           /\ old_frontier' = p.frontier
    /\ root' = root + 1
    /\ UNCHANGED <<pc, req, out, net, view, frames, compactVars, nursery_start, remembered,
                   minorVars>>

\* A slot of the heap is processed and its new value stored.
ProcessSlotAt(a) ==
    LET p == ProcessObj(heap.word[a])
    IN  /\ heap' = [p.heap EXCEPT !.word[a] = p.ref]
        /\ old_frontier' = p.frontier

RootsDone == pc = "minor" /\ root > NRoots

\* remset_forward.
RememberedSlot_FirstElement(e) == e[1] + Header            \* mutant
RememberedSlot(e) == e[1] + Header + e[2]

MinorRemembered ==
    /\ RootsDone
    /\ entry <= Len(remembered)
    /\ ProcessSlotAt(RememberedSlot(remembered[entry]))
    /\ entry' = entry + 1
    /\ UNCHANGED <<roots, pc, req, out, net, view, markVars, compactVars, nursery_start,
                   remembered, copy_scan, copy_slot, old_before, nursery_used>>

ScanLoop == RootsDone /\ entry > Len(remembered)

MinorSlot ==
    /\ ScanLoop
    /\ copy_scan < old_frontier
    /\ copy_slot \in RefSlots(heap, copy_scan)
    /\ ProcessSlotAt(copy_slot)
    /\ copy_slot' = copy_slot + 1
    /\ UNCHANGED <<roots, pc, req, out, net, view, markVars, compactVars, nursery_start,
                   remembered, entry, copy_scan, old_before, nursery_used>>

AfterScan_NoHeader == copy_scan + ObjectLength(heap, copy_scan)     \* mutant
AfterScan == copy_scan + ObjectWords(heap, copy_scan)

MinorNextCopy ==
    /\ ScanLoop
    /\ copy_scan < old_frontier
    /\ copy_slot \notin RefSlots(heap, copy_scan)
    /\ copy_scan' = AfterScan
    /\ copy_slot' = copy_scan' + Header
    /\ UNCHANGED <<mutatorVars, markVars, compactVars, genVars, entry, old_before,
                   nursery_used>>

\* The whole nursery is given back and the remembered set forgotten.
RememberedAfter_Kept == remembered          \* mutant
RememberedAfter == <<>>

MinorEnd ==
    /\ ScanLoop
    /\ copy_scan >= old_frontier
    /\ pc' = "return"
    /\ heap' = Vacate(SetWatermark(heap, nursery_start), nursery_start, heap.watermark)
    /\ remembered' = RememberedAfter
    /\ LET promoted == old_frontier - old_before
       IN  out' = [moved   |-> promoted,
                   freed   |-> IF nursery_used > promoted THEN nursery_used - promoted ELSE 0,
                   live    |-> old_frontier - Base,
                   free    |-> HeapEnd - old_frontier,
                   largest |-> HeapEnd - old_frontier]
    /\ root' = 1 /\ entry' = 1 /\ copy_scan' = 0 /\ copy_slot' = 0
    /\ old_before' = 0 /\ nursery_used' = 0
    /\ UNCHANGED <<roots, req, net, view, frames, compactVars, nursery_start, old_frontier>>
-----------------------------------------------------------------------------
\* major_gc up to the call of the tenured collector.
MajorStart ==
    /\ pc = "collect"
    /\ NeedsMajor
    /\ pc' = "mark"
    /\ heap' = GapFilled
    /\ UNCHANGED <<roots, req, out, net, view, collectorVars>>

\* The rest of major_gc. When less than two headers are left it returns
\* without moving the boundary or clearing the remembered set.
MajorEnd ==
    LET frontier == heap.watermark
        room     == HeapEnd - frontier
        boundary == frontier + room \div 2
    IN  /\ pc = "majorEnd"
        /\ pc' = "return"
        /\ old_frontier' = frontier
        /\ out' = [out EXCEPT !.free = room, !.largest = room]
        /\ IF frontier + 2 * Header > HeapEnd
           THEN UNCHANGED <<heap, nursery_start, remembered>>
           ELSE /\ nursery_start' = boundary
                /\ heap' = SetWatermark(heap, boundary)
                /\ remembered' = RememberedAfter
        /\ UNCHANGED <<roots, req, net, view, markVars, compactVars, minorVars>>

CollectorStep ==
    \/ MinorStart \/ MinorRoot \/ MinorRemembered \/ MinorSlot \/ MinorNextCopy \/ MinorEnd
    \/ MajorStart \/ MajorEnd
    \/ (CompactStep \/ CompactEnd("majorEnd")) /\ UNCHANGED <<genVars, minorVars>>
    \/ CollectReturn /\ UNCHANGED collectorVars
    \/ \E id \in FreshIds : Retry(id)

Program ==
    \/ \E r \in RootSlots, length \in Lengths, ref \in Kinds, id \in FreshIds :
          NewArray(r, length, ref, id)
    \/ \E r, s \in RootSlots, k \in Elements : StoreRef(r, k, s)
    \/ (ProgramStep \/ GCInstruction) /\ UNCHANGED collectorVars

Next == Program \/ CollectorStep

Spec == Init /\ [][Next]_vars /\ WF_vars(CollectorStep)
-----------------------------------------------------------------------------
TypeOK ==
    /\ MutatorTypeOK
    /\ CompactTypeOK
    /\ pc \in {"run", "collect", "minor", "mark", "locate", "update", "relocate",
               "majorEnd", "return", "retry", "oom"}
    /\ {nursery_start, old_frontier, copy_scan, copy_slot, old_before, nursery_used}
          \subseteq Word
    /\ remembered \in Seq(Addr \X Nat)
    /\ entry \in 1 .. MaxRemembered + 1

LaidOut == pc = "run" /\ nursery_start # 0

OldArrays   == Allocated(heap, Base, old_frontier)
YoungArrays == Allocated(heap, nursery_start, heap.watermark)

\* While the program runs the generations are in order, with room between them for
\* the free block that a collection makes of the gap, each is walkable, no mark is
\* left over, and references lead to allocated arrays of either.
HeapIntact ==
    /\ TypeOK
    /\ LaidOut =>
            /\ Base <= old_frontier
            /\ old_frontier = nursery_start \/ old_frontier + Header <= nursery_start
            /\ Tiled(heap, Base, old_frontier)
            /\ Tiled(heap, nursery_start, heap.watermark)
            /\ \A a \in OldArrays \cup YoungArrays : ~IsMarked(heap, a) /\ ~IsForwarded(heap, a)
            /\ ReferencesValid(OldArrays \cup YoungArrays)

\* Every slot of an old array that holds a nursery array is remembered, and what
\* is remembered is a slot of an old array.
RememberedExact ==
    LaidOut =>
        /\ \A a \in OldArrays : \A s \in RefSlots(heap, a) :
              heap.word[s] >= nursery_start =>
                 \E e \in ToSet(remembered) : RememberedSlot(e) = s
        /\ \A e \in ToSet(remembered) :
              e[1] \in OldArrays /\ RememberedSlot(e) \in RefSlots(heap, e[1])

\* A minor collection starts only when the old generation has room for the whole
\* nursery and two headers (the router, implementation.typ:58).
MinorHasRoom ==
    [][pc = "collect" /\ pc' = "minor" =>
         heap.watermark - nursery_start + 2 * Header <= nursery_start - old_frontier]_vars

\* Promotion never fills the old generation: the headroom outlives every copy, so
\* split_block always leaves a remainder.
HeadroomKept == pc = "minor" => nursery_start - old_frontier >= 2 * Header

\* The program runs out of memory only when the array does not fit in an empty
\* nursery, or when a major collection has left less than two headers.
OomMeansNurseryTooSmall ==
    [][(pc = "retry" /\ pc' = "oom") =>
          \/ nursery_start + Header + req.length > HeapEnd
          \/ old_frontier + 2 * Header > HeapEnd]_vars

\* Every collection ends and the program resumes, or has run out of memory.
CollectionEnds == pc \notin {"run", "oom"} ~> pc \in {"run", "oom"}
=============================================================================
