----------------------------- MODULE Compaction -----------------------------
(***************************************************************************)
(* gc/src/collectors/mark_compact.c without its vtable: the mark phase and *)
(* the three walks of compact() over the heap. compute_locations gives     *)
(* every marked array its new offset, update_references rewrites the roots *)
(* and the reference slots, relocate slides the arrays down. MarkCompact   *)
(* runs it as a collector of its own, Generational as its tenured one.     *)
(***************************************************************************)
EXTENDS Marking

VARIABLES
    forward_map,    \* one entry per heap word, malloc'ed by the first collection
    scan,           \* the chunk the current walk is at, or the sentinel
    dest            \* compute_locations: where the next marked array goes

compactVars == <<forward_map, scan, dest>>

\* An entry this collection has not written: whatever malloc or an earlier
\* collection left there. The code never clears the map, so the model forgets
\* its entries between collections, and ForwardExact checks that no reference is
\* ever replaced by such an entry.
Unwritten == SENTINEL

CompactInit ==
    /\ forward_map = [i \in Addr |-> Unwritten]
    /\ scan = SENTINEL
    /\ dest = Base

CalculateForwardIndex(ref) == ref - Base
ForwardOf(ref) == forward_map[CalculateForwardIndex(ref)]

\* update_obj_ref on a slot that holds v.
Updated(v) == IF v = GC_NULL THEN GC_NULL ELSE ForwardOf(v)

ToRegion_Watermark == heap.watermark        \* mutant: compact to the wrong end
ToRegion == Base

\* compact() begins: compute_locations up to its loop.
LocateStart ==
    /\ MarkDone
    /\ pc' = "locate"
    /\ root' = 1
    /\ scan' = HeapFirst(heap)
    /\ dest' = ToRegion
    /\ UNCHANGED <<heap, roots, req, out, net, view, frames, forward_map>>

\* Mutant: the header takes no room.
Room_NoHeader(a) == ObjectLength(heap, a)

Located == [forward_map EXCEPT ![CalculateForwardIndex(scan)] = dest]
Room(a) == ObjectWords(heap, a)

LocateStep ==
    /\ pc = "locate"
    /\ scan # SENTINEL
    /\ IF IsMarked(heap, scan)
       THEN forward_map' = Located /\ dest' = dest + Room(scan)
       ELSE UNCHANGED <<forward_map, dest>>
    /\ scan' = HeapNext(heap, scan)
    /\ UNCHANGED <<mutatorVars, markVars>>

\* compute_locations returns; update_references rewrites every root, then
\* starts its walk.
UpdateRoots ==
    /\ pc = "locate"
    /\ scan = SENTINEL
    /\ pc' = "update"
    /\ roots' = [r \in RootSlots |-> Updated(roots[r])]
    /\ scan' = HeapFirst(heap)
    /\ UNCHANGED <<heap, req, out, net, view, markVars, forward_map, dest>>

RefsUpdated_Not(a) == heap                  \* mutant
RefsUpdated(a) ==
    [heap EXCEPT !.word = [x \in Addr |-> IF x \in RefSlots(heap, a)
                                          THEN Updated(heap.word[x]) ELSE heap.word[x]]]

UpdateStep ==
    /\ pc = "update"
    /\ scan # SENTINEL
    /\ heap' = IF IsMarked(heap, scan) THEN RefsUpdated(scan) ELSE heap
    /\ scan' = HeapNext(heap, scan)
    /\ UNCHANGED <<roots, pc, req, out, net, view, markVars, forward_map, dest>>

RelocateStart ==
    /\ pc = "update"
    /\ scan = SENTINEL
    /\ pc' = "relocate"
    /\ scan' = HeapFirst(heap)
    /\ UNCHANGED <<heap, roots, req, out, net, view, markVars, forward_map, dest>>

Slid_KeepsMark(a) == MoveObject(heap, a, ForwardOf(a))      \* mutant
Slid(a) == MoveObject(ClearMarked(heap, a), a, ForwardOf(a))

\* The successor is read before the move, which may overwrite the header.
RelocateStep ==
    /\ pc = "relocate"
    /\ scan # SENTINEL
    /\ IF IsMarked(heap, scan)
       THEN LET to == ForwardOf(scan)
            IN  /\ heap' = Slid(scan)
                /\ out' = [out EXCEPT !.moved =
                             IF scan # to THEN @ + ObjectWords(heap', to) ELSE @]
       ELSE UNCHANGED <<heap, out>>
    /\ scan' = HeapNext(heap, scan)
    /\ UNCHANGED <<roots, pc, req, net, view, markVars, forward_map, dest>>

\* Mutant: the watermark stays.
Trimmed_Not == heap

Trimmed == Vacate(SetWatermark(heap, dest), dest, heap.watermark)
Gap     == heap.watermark - dest

\* The end of compact(): the watermark drops to what compute_locations
\* returned, and the statistics are filled in. next is where control goes.
CompactEnd(next) ==
    /\ pc = "relocate"
    /\ scan = SENTINEL
    /\ pc' = next
    /\ heap' = Trimmed
    /\ out' = [out EXCEPT !.live = dest - Base, !.free = Gap, !.largest = Gap, !.freed = Gap]
    /\ dest' = Base
    /\ forward_map' = [i \in Addr |-> Unwritten]
    /\ UNCHANGED <<roots, req, net, view, markVars, scan>>

CompactStep ==
    \/ (VisitRoot \/ VisitRef) /\ UNCHANGED compactVars
    \/ LocateStart \/ LocateStep \/ UpdateRoots \/ UpdateStep
    \/ RelocateStart \/ RelocateStep
-----------------------------------------------------------------------------
CompactTypeOK ==
    /\ MarkTypeOK
    /\ forward_map \in [Addr -> Addr \cup {Unwritten}]
    /\ scan \in Addr \cup {SENTINEL}
    /\ dest \in Base .. HeapEnd

\* Once computed, the forwarding entry of every marked array is the room the
\* marked arrays before it take, and no reference is ever replaced by an entry
\* that an earlier collection left in the map.
ForwardExact ==
    /\ pc \in {"locate", "update"} =>
        \A a \in Marked :
            (pc = "update" \/ a < scan) =>
                ForwardOf(a) = Base + Cardinality(Covered(heap, {b \in Marked : b < a}))
    /\ pc \in {"locate", "update", "relocate"} =>
        /\ Unwritten \notin RootSet
        /\ \A a \in Marked : \A s \in RefSlots(heap, a) : heap.word[s] # Unwritten

\* Sliding is safe: while arrays move, every chunk from the walk's position on
\* is still where it was, no array moves up, and none onto one yet to move.
SlideSafe ==
    pc = "relocate" =>
        /\ scan # SENTINEL => Tiled(heap, scan, heap.watermark)
        /\ \A a \in Headers(heap, scan, heap.watermark) :
             IsMarked(heap, a) => Base <= ForwardOf(a) /\ ForwardOf(a) <= a
=============================================================================
