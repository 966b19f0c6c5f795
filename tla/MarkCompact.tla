----------------------------- MODULE MarkCompact -----------------------------
(***************************************************************************)
(* gc/src/collectors/mark_compact.c as a collector: bump allocation to the *)
(* budget, and a full mark and compaction for each collection.             *)
(***************************************************************************)
EXTENDS Compaction

vars == <<mutatorVars, markVars, compactVars>>
collectorVars == <<markVars, compactVars>>

Init == MutatorInit /\ MarkInit /\ CompactInit

\* mark_compact_alloc.
Alloc(length, is_ref, id) == RawAlloc(heap, length, is_ref, id)

NewArray(r, length, ref, id) ==
    AllocFirst(r, length, ref, Alloc(length, ref, id)) /\ UNCHANGED collectorVars

Retry(id) == AllocRetry(Alloc(req.length, req.ref, id)) /\ UNCHANGED collectorVars

\* mark_compact_collect: the map was allocated by the first collection.
Collect ==
    /\ pc = "collect"
    /\ pc' = "mark"
    /\ UNCHANGED <<heap, roots, req, out, net, view, collectorVars>>

CollectorStep ==
    \/ Collect \/ CompactStep \/ CompactEnd("return")
    \/ CollectReturn /\ UNCHANGED collectorVars
    \/ \E id \in FreshIds : Retry(id)

Program ==
    \/ \E r \in RootSlots, length \in Lengths, ref \in Kinds, id \in FreshIds :
          NewArray(r, length, ref, id)
    \/ /\ \/ \E r, s \in RootSlots, k \in Elements : AIAStore(r, k, s)
          \/ ProgramStep
          \/ GCInstruction
       /\ UNCHANGED collectorVars

Next == Program \/ CollectorStep

Spec == Init /\ [][Next]_vars /\ WF_vars(CollectorStep)
-----------------------------------------------------------------------------
TypeOK ==
    /\ MutatorTypeOK
    /\ CompactTypeOK
    /\ pc \in {"run", "collect", "mark", "locate", "update", "relocate",
               "return", "retry", "oom"}

Quiet == pc \in {"run", "collect", "retry", "oom"}

\* Between collections the heap is walkable up to the watermark, holds no mark,
\* and the program's references lead to allocated arrays.
HeapIntact ==
    /\ TypeOK
    /\ Quiet => /\ Tiled(heap, Base, heap.watermark)
                /\ Marked = {}
                /\ ReferencesValid(Allocated(heap, Base, heap.watermark))

\* A collection leaves the reachable arrays and nothing between or after them,
\* and reports their size: with what it freed, it is all that was allocated.
CompactedExactly ==
    pc = "return" =>
        /\ Chunks(heap) = LiveRefs
        /\ out.live = heap.watermark - Base
        /\ out.moved <= out.live
        /\ CountBytes => net = out.live + out.freed

\* Every collection ends: the recursive mark on shared and cyclic arrays, and the
\* three walks, the last of which slides the arrays it walks over.
CollectionEnds == pc \notin {"run", "oom"} ~> pc \in {"run", "oom"}
=============================================================================
