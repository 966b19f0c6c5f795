------------------------------- MODULE Cheney --------------------------------
(***************************************************************************)
(* gc/src/collectors/cheney.c: two semispaces, bump allocation in to-space *)
(* up to top, and a collection that flips the spaces, copies what the      *)
(* roots reference and scans the copies, one slot per step.                *)
(***************************************************************************)
EXTENDS Mutator, FiniteSetsExt

CONSTANT EarlyGC   \* may a GC instruction come before the first allocation?

ASSUME EarlyGCAssumption == EarlyGC \in BOOLEAN

VARIABLES
    from_space, to_space, top, extent,  \* struct cheney_state, all 0 at first
    old_watermark,                      \* cheney_collect: the watermark it found
    root,                               \* the next root to process
    scan,                               \* the copy being scanned
    slot                                \* its next slot

spaceVars == <<from_space, to_space, top, extent>>
traceVars == <<old_watermark, root, scan, slot>>
vars == <<mutatorVars, spaceVars, traceVars>>

Init ==
    /\ MutatorInit
    /\ from_space = 0 /\ to_space = 0 /\ top = 0 /\ extent = 0
    /\ old_watermark = 0 /\ root = 1 /\ scan = 0 /\ slot = 0

\* cheney_alloc: the first call lays the spaces out.
LayOut ==
    IF to_space = 0
    THEN LET half == (HeapEnd - Base) \div 2
         IN  /\ to_space' = Base
             /\ extent' = half
             /\ top' = Base + half
             /\ from_space' = Base + half
    ELSE UNCHANGED spaceVars

Exceeds_OffByOne(length) == (length + Header + heap.watermark) % W >= top'   \* mutant
Exceeds(length) == (length + Header + heap.watermark) % W > top'

\* The bound is checked in 32 bits; raw_alloc checks its own in 64.
Alloc(length, is_ref, id) ==
    IF Exceeds(length) THEN [ref |-> SENTINEL, heap |-> heap]
                       ELSE RawAlloc(heap, length, is_ref, id)

NewArray(r, length, ref, id) ==
    /\ LayOut
    /\ AllocFirst(r, length, ref, Alloc(length, ref, id))
    /\ UNCHANGED traceVars

Retry(id) ==
    /\ LayOut
    /\ AllocRetry(Alloc(req.length, req.ref, id))
    /\ UNCHANGED traceVars

NewTop_Stale == top                         \* mutant: the flip leaves top as it is
NewTop == from_space + extent

\* cheney_collect up to the root enumeration: flip, and scan starts at the
\* bottom of the new to-space.
Collect ==
    /\ pc = "collect"
    /\ pc' = "trace"
    /\ from_space' = to_space
    /\ to_space' = from_space
    /\ top' = NewTop
    /\ heap' = SetWatermark(heap, from_space)
    /\ old_watermark' = heap.watermark
    /\ scan' = from_space
    /\ slot' = from_space + Header
    /\ root' = 1
    /\ UNCHANGED <<roots, req, out, net, view, extent>>

Copy(h, from) ==
    LET to == h.watermark
        h1 == MoveObject(h, from, to)
        h2 == SetWatermark(h1, to + ObjectWords(h, from))
    IN  [ref |-> to, heap |-> SetForwarded(h2, from, to)]

\* process_obj on a slot that holds v: the value it leaves there, and the heap.
ProcessObj(v) ==
    IF v = GC_NULL THEN [ref |-> GC_NULL, heap |-> heap]
    ELSE IF IsForwarded(heap, v) THEN [ref |-> GetForwarded(heap, v), heap |-> heap]
    ELSE Copy(heap, v)

ProcessRoot ==
    /\ pc = "trace"
    /\ root \in RootSlots
    /\ LET p == ProcessObj(roots[root])
       IN  /\ roots' = [roots EXCEPT ![root] = p.ref]
           /\ heap' = p.heap
    /\ root' = root + 1
    /\ UNCHANGED <<pc, req, out, net, view, spaceVars, old_watermark, scan, slot>>

ScanLoop_SkipsLastRoot == pc = "trace" /\ root >= NRoots      \* mutant
ScanLoop == pc = "trace" /\ root > NRoots

ProcessSlot ==
    /\ ScanLoop
    /\ scan < heap.watermark
    /\ slot \in RefSlots(heap, scan)
    /\ LET p == ProcessObj(heap.word[slot])
       IN  heap' = [p.heap EXCEPT !.word[slot] = p.ref]
    /\ slot' = slot + 1
    /\ UNCHANGED <<roots, pc, req, out, net, view, spaceVars, old_watermark, root, scan>>

AfterScan_NoHeader == scan + ObjectLength(heap, scan)       \* mutant
AfterScan == scan + ObjectWords(heap, scan)

NextCopy ==
    /\ ScanLoop
    /\ scan < heap.watermark
    /\ slot \notin RefSlots(heap, scan)
    /\ scan' = AfterScan
    /\ slot' = scan' + Header
    /\ UNCHANGED <<mutatorVars, spaceVars, old_watermark, root>>

\* Mutant: the survivors are counted as freed.
Freed_ForgetsLive(live) == old_watermark - from_space
Freed(live) == old_watermark - from_space - live

\* The loop ends when scan meets the watermark; the statistics are filled in.
\* The old copies in from-space are garbage now.
ScanEnd ==
    /\ ScanLoop
    /\ scan >= heap.watermark
    /\ pc' = "return"
    /\ LET live == heap.watermark - to_space
           room == top - heap.watermark
       IN  out' = [live |-> live, moved |-> live, free |-> room, largest |-> room,
                   freed |-> Freed(live)]
    /\ heap' = Vacate(heap, from_space, from_space + extent)
    /\ root' = 1 /\ old_watermark' = 0 /\ scan' = 0 /\ slot' = 0
    /\ UNCHANGED <<roots, req, net, view, spaceVars>>

CollectorStep ==
    \/ Collect \/ ProcessRoot \/ ProcessSlot \/ NextCopy \/ ScanEnd
    \/ CollectReturn /\ UNCHANGED <<spaceVars, traceVars>>
    \/ \E id \in FreshIds : Retry(id)

Program ==
    \/ \E r \in RootSlots, length \in Lengths, ref \in Kinds, id \in FreshIds :
          NewArray(r, length, ref, id)
    \/ /\ \/ \E r, s \in RootSlots, k \in Elements : AIAStore(r, k, s)
          \/ ProgramStep
          \/ (EarlyGC \/ to_space # 0) /\ GCInstruction
       /\ UNCHANGED <<spaceVars, traceVars>>

Next == Program \/ CollectorStep

Spec == Init /\ [][Next]_vars /\ WF_vars(CollectorStep)
-----------------------------------------------------------------------------
TypeOK ==
    /\ MutatorTypeOK
    /\ pc \in {"run", "collect", "trace", "return", "retry", "oom"}
    /\ {from_space, to_space, top, extent, old_watermark, scan, slot} \subseteq Word
    /\ root \in 1 .. NRoots + 1

Quiet == pc \in {"run", "collect", "retry", "oom"}

\* Where the arrays of the program begin.
Bottom == IF to_space = 0 THEN Base ELSE to_space

\* Once laid out, the two spaces are the two halves of the heap, in either
\* order, and the arrays stay below the top of to-space, also while they are
\* being copied there: survivors always fit.
SpacesDisjoint ==
    to_space # 0 =>
        /\ {from_space, to_space} = {Base, Base + extent}
        /\ top = to_space + extent
        /\ top <= HeapEnd
        /\ to_space <= heap.watermark /\ heap.watermark <= top

\* The spaces are disjoint at all times, and between collections to-space is
\* walkable and every reference of the program leads into it.
HeapIntact ==
    /\ TypeOK
    /\ SpacesDisjoint
    /\ Quiet => /\ Tiled(heap, Bottom, heap.watermark)
                /\ ReferencesValid(Allocated(heap, Bottom, heap.watermark))

\* Offset 0 is null; no live array is ever allocated there.
NullNeverAllocated == ~heap.tag[GC_NULL].head

Copies == ChunksFrom(heap, to_space, heap.watermark)

\* During a trace every array is copied at most once, and its old copy forwards
\* to its new one; a copy already scanned references nothing outside to-space.
ForwardingSound ==
    pc = "trace" =>
        LET Moved == {a \in from_space .. (old_watermark - 1) : IsForwarded(heap, a)}
        IN  /\ {GetForwarded(heap, a) : a \in Moved} = Copies
            /\ Cardinality(Moved) = Cardinality(Copies)
            /\ \A a \in Moved : heap.tag[GetForwarded(heap, a)].id = heap.tag[a].id
            /\ \A c \in Copies : c < scan => Children(heap, c) \subseteq Copies

SumWords(h, S) == MapThenSumSet(LAMBDA a : ObjectWords(h, a), S)

\* A collection leaves exactly the reachable arrays, packed, and reports them:
\* with what it freed, they are all that was allocated.
CopiedExactly ==
    pc = "return" =>
        /\ Copies = LiveRefs
        /\ out.live = SumWords(heap, LiveRefs)
        /\ out.live + out.free = extent
        /\ CountBytes => net = out.live + out.freed

\* The program runs out of memory only when the reachable arrays and the one
\* asked for do not fit in one semispace together.
OomMeansFull ==
    [][(pc = "retry" /\ pc' = "oom") =>
          SumWords(heap, LiveRefs) + Header + req.length > extent]_vars

\* Every collection ends and the program resumes, or has run out of memory.
CollectionEnds == pc \notin {"run", "oom"} ~> pc \in {"run", "oom"}
=============================================================================
