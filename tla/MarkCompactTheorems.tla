------------------------- MODULE MarkCompactTheorems -------------------------
(***************************************************************************)
(* The mark-compact collector is correct for every heap size, number of    *)
(* roots and program: its heap stays intact, every reference is replaced   *)
(* by the place its array takes, and sliding never overwrites an array     *)
(* still to be moved. MarkingTheorems has the lemmas about the three walks.*)
(***************************************************************************)
EXTENDS MarkCompact, MarkingTheorems

USE DEF Header, Base, GC_NULL

Types ==
    /\ CompactTypes
    /\ pc \in {"run", "collect", "mark", "locate", "update", "relocate",
               "return", "retry", "oom"}

\* What holds of the heap in each phase, and between collections.
Phase ==
    /\ CompactPhase
    /\ ~heap.tag[GC_NULL].ref
    /\ pc \notin {"mark"} \cup Walking =>
          WellFormed(heap, roots, Base, heap.watermark) /\ NoMarks(heap)
    /\ pc # "mark" => root = 1 /\ frames = <<>>

IInv == Types /\ Phase

LEMMA InitIInv == Init => IInv
<1> SUFFICES ASSUME Init PROVE IInv
  OBVIOUS
<1>1. MutatorInit /\ MarkInit /\ CompactInit
  BY DEF Init
<1>2. /\ WellFormed(heap, roots, Base, heap.watermark) /\ ~heap.tag[GC_NULL].ref
      /\ Headers(heap, Base, heap.watermark) = {}
      /\ pc = "run" /\ req \in Request /\ out \in Outs /\ net \in Int
  BY <1>1, InitHeap
<1>3. root = 1 /\ frames = <<>> /\ scan = SENTINEL /\ dest = Base
      /\ forward_map = [i \in Addr |-> Unwritten]
  BY <1>1 DEF MarkInit, CompactInit
<1>4. Phase
  BY <1>2, <1>3 DEF Phase, CompactPhase, Walking, NoMarks
<1>5. Types
  <2>1. root \in 1 .. NRoots + 1 /\ frames \in Seq(Frame)
    BY <1>3, MutatorAssumption DEF MutatorAssumption
  <2>2. dest \in Base .. HeapEnd
    BY <1>3, Numbers
  <2>3. heap \in Heap
    BY <1>2 DEF WellFormed
  <2> QED
    BY <1>2, <1>3, <2>1, <2>2, <2>3 DEF Types, CompactTypes
<1> QED
  BY <1>4, <1>5 DEF IInv

-----------------------------------------------------------------------------
(* Allocation and the running program.                                      *)

\* The room for an array is bump-allocated.
LEMMA BumpKeeps ==
    ASSUME NEW h, NEW rs, WellFormed(h, rs, Base, h.watermark), NoMarks(h), ~h.tag[GC_NULL].ref,
           NEW length \in Nat, NEW is_ref \in BOOLEAN, NEW id \in Ids \cup {NoId},
           NEW a, a = RawAlloc(h, length, is_ref, id), a.ref # SENTINEL
    PROVE  /\ WellFormed(a.heap, rs, Base, a.heap.watermark) /\ NoMarks(a.heap)
           /\ ~a.heap.tag[GC_NULL].ref
           /\ a.ref \in Allocated(a.heap, Base, a.heap.watermark)
<1>1. h \in Heap /\ Base <= h.watermark /\ h.watermark \in Nat
  BY DEF WellFormed
<1>2. /\ WellFormed(a.heap, rs, Base, a.heap.watermark)
      /\ a.ref \in Allocated(a.heap, Base, a.heap.watermark)
      /\ OneMore(h, a.heap, Base, a.ref)
  BY <1>1, AppendKeeps
<1>3. /\ a.ref = h.watermark /\ a.heap.tag[a.ref] = ArrayTag(is_ref, id)
      /\ \A x \in Addr : x < a.ref \/ x >= a.heap.watermark =>
            a.heap.word[x] = h.word[x] /\ a.heap.tag[x] = h.tag[x]
  <2>1. h \in Heap /\ h.watermark \in Base .. HeapEnd
    BY <1>1 DEF WellFormed
  <2> QED
    BY <2>1, RawAllocEffect
<1>4. \A x \in Headers(h, Base, h.watermark) : x \in Addr /\ x < h.watermark
  BY DEF Headers
<1>5. NoMarks(a.heap)
  BY <1>2, <1>3, <1>4 DEF NoMarks, OneMore, ArrayTag
<1>6. GC_NULL \in Addr /\ GC_NULL < h.watermark
  BY <1>1, Numbers DEF Addr
<1> QED
  BY <1>2, <1>3, <1>5, <1>6

LEMMA NewArrayIInv ==
    ASSUME IInv, NEW r \in RootSlots, NEW length \in Lengths, NEW ref \in Kinds,
           NEW id \in FreshIds, NewArray(r, length, ref, id)
    PROVE  IInv'
<1> DEFINE a == Alloc(length, ref, id)
<1>1. length \in Nat /\ ref \in BOOLEAN /\ id \in Ids \cup {NoId}
  BY AskedTypes
<1>2. /\ pc = "run" /\ heap' = a.heap /\ AllocFirst(r, length, ref, a)
      /\ UNCHANGED <<root, frames, forward_map, scan, dest>>
  BY DEF NewArray, AllocFirst, collectorVars, markVars, compactVars
<1>3. /\ Types /\ root = 1 /\ frames = <<>> /\ ~heap.tag[GC_NULL].ref
      /\ WellFormed(heap, roots, Base, heap.watermark) /\ NoMarks(heap)
  BY <1>2 DEF IInv, Phase, CompactPhase, Walking
<1>4. a = RawAlloc(heap, length, ref, id)
  BY DEF Alloc
<1> HIDE DEF a
<1>5. CASE a.ref = SENTINEL
  <2>1. a.heap = heap
    BY <1>3, <1>4, <1>5, BumpFails
  <2>2. /\ req' = [slot |-> r, length |-> length, ref |-> ref]
        /\ pc' = "collect" /\ out' = ZeroOut /\ UNCHANGED <<roots, net>>
    BY <1>2, <1>5 DEF AllocFirst, Stop
  <2>3. req' \in Request /\ out' \in Outs
    BY <1>1, <2>2 DEF Request, Outs, ZeroOut
  <2>4. Types'
    BY <1>2, <1>3, <2>1, <2>2, <2>3 DEF Types, CompactTypes
  <2>5. Phase'
    BY <1>2, <1>3, <2>1, <2>2 DEF Phase, CompactPhase, Walking
  <2> QED
    BY <2>4, <2>5 DEF IInv
<1>6. CASE a.ref # SENTINEL
  <2>1. /\ WellFormed(a.heap, roots, Base, a.heap.watermark) /\ NoMarks(a.heap)
        /\ ~a.heap.tag[GC_NULL].ref
        /\ a.ref \in Allocated(a.heap, Base, a.heap.watermark)
    BY <1>1, <1>3, <1>4, <1>6, BumpKeeps
  <2>2. Push(r, a) /\ UNCHANGED <<pc, req, out>>
    BY <1>2, <1>6 DEF AllocFirst
  <2>3. WellFormed(heap', roots', Base, heap'.watermark) /\ net' \in Int
    BY <1>2, <1>3, <2>1, <2>2, PushEffect DEF Types, CompactTypes
  <2>4. heap' \in Heap
    BY <2>3 DEF WellFormed
  <2>5. Types'
    BY <1>2, <1>3, <2>2, <2>3, <2>4 DEF Types, CompactTypes
  <2>6. Phase'
    BY <1>2, <1>3, <2>1, <2>2, <2>3 DEF Phase, CompactPhase, Walking
  <2> QED
    BY <2>5, <2>6 DEF IInv
<1> QED
  BY <1>5, <1>6

LEMMA RetryIInv ==
    ASSUME IInv, NEW id \in FreshIds, Retry(id)
    PROVE  IInv'
<1> DEFINE a == Alloc(req.length, req.ref, id)
<1>1. req.length \in Nat /\ req.ref \in BOOLEAN /\ id \in Ids \cup {NoId}
  BY AskedTypes DEF IInv, Types, CompactTypes
<1>2. /\ pc = "retry" /\ heap' = a.heap /\ AllocRetry(a) /\ req' = NoReq
      /\ UNCHANGED <<out, root, frames, forward_map, scan, dest>>
  BY DEF Retry, AllocRetry, collectorVars, markVars, compactVars
<1>3. /\ Types /\ root = 1 /\ frames = <<>> /\ ~heap.tag[GC_NULL].ref
      /\ WellFormed(heap, roots, Base, heap.watermark) /\ NoMarks(heap)
  BY <1>2 DEF IInv, Phase, CompactPhase, Walking
<1>4. a = RawAlloc(heap, req.length, req.ref, id)
  BY DEF Alloc
<1>5. req' \in Request
  BY <1>2 DEF Request
<1> HIDE DEF a
<1>6. CASE a.ref = SENTINEL
  <2>1. a.heap = heap
    BY <1>3, <1>4, <1>6, BumpFails
  <2>2. pc' = "oom" /\ UNCHANGED <<roots, net>>
    BY <1>2, <1>6 DEF AllocRetry
  <2>3. Types'
    BY <1>2, <1>3, <1>5, <2>1, <2>2 DEF Types, CompactTypes
  <2>4. Phase'
    BY <1>2, <1>3, <2>1, <2>2 DEF Phase, CompactPhase, Walking
  <2> QED
    BY <2>3, <2>4 DEF IInv
<1>7. CASE a.ref # SENTINEL
  <2>1. /\ WellFormed(a.heap, roots, Base, a.heap.watermark) /\ NoMarks(a.heap)
        /\ ~a.heap.tag[GC_NULL].ref
        /\ a.ref \in Allocated(a.heap, Base, a.heap.watermark)
    BY <1>1, <1>3, <1>4, <1>7, BumpKeeps
  <2>2. Push(req.slot, a) /\ pc' = "run"
    BY <1>2, <1>7 DEF AllocRetry
  <2>3. WellFormed(heap', roots', Base, heap'.watermark) /\ net' \in Int
    BY <1>2, <1>3, <2>1, <2>2, PushEffect DEF Types, CompactTypes
  <2>4. heap' \in Heap
    BY <2>3 DEF WellFormed
  <2>5. Types'
    BY <1>2, <1>3, <1>5, <2>2, <2>3, <2>4 DEF Types, CompactTypes
  <2>6. Phase'
    BY <1>2, <1>3, <2>1, <2>2, <2>3 DEF Phase, CompactPhase, Walking
  <2> QED
    BY <2>5, <2>6 DEF IInv
<1> QED
  BY <1>6, <1>7

-----------------------------------------------------------------------------
(* A collection.                                                            *)

LEMMA CompactIInv ==
    ASSUME IInv, CompactStep
    PROVE  IInv'
<1>1. CompactInv /\ Types /\ Phase
  BY DEF IInv, Types, Phase, CompactInv
<1>2. CompactInv' /\ pc \in {"mark"} \cup Walking /\ pc' \in {"mark"} \cup Walking
  BY <1>1, CompactStepKeeps
<1>3. pc' # "mark" => pc' \in Walking
  BY <1>2
<1> QED
  BY <1>2, <1>3 DEF IInv, Types, Phase, CompactInv, CompactPhase, Walking

LEMMA CompactEndIInv ==
    ASSUME IInv, CompactEnd("return")
    PROVE  IInv'
<1>1. CompactInv
  BY DEF IInv, Types, Phase, CompactInv
<1>2. /\ WellFormed(heap', roots', Base, heap'.watermark) /\ NoMarks(heap')
      /\ ~heap'.tag[GC_NULL].ref /\ CompactTypes'
      /\ pc' = "return" /\ root = 1 /\ frames = <<>> /\ UNCHANGED <<root, frames>>
  BY <1>1, CompactEndKeeps
<1> QED
  BY <1>2 DEF IInv, Types, Phase, CompactPhase, Walking

\* The instructions: no chunk and no tag changes.
LEMMA ProgramIInv ==
    ASSUME IInv, UNCHANGED collectorVars,
           ProgramStep \/ \E r, s \in RootSlots, k \in Elements : AIAStore(r, k, s)
    PROVE  IInv'
<1>1. pc = "run" /\ UNCHANGED <<root, frames, forward_map, scan, dest>>
  BY DEF collectorVars, markVars, compactVars, ProgramStep, AIALoad, IAStore, Pop, AIAStore
<1>2. /\ Types /\ root = 1 /\ frames = <<>> /\ ~heap.tag[GC_NULL].ref
      /\ WellFormed(heap, roots, Base, heap.watermark) /\ NoMarks(heap)
  BY <1>1 DEF IInv, Phase, CompactPhase, Walking
<1>3. /\ WellFormed(heap', roots', Base, heap.watermark)
      /\ heap'.watermark = heap.watermark
      /\ SameChunks(heap, heap', Base, heap.watermark)
      /\ UNCHANGED <<pc, req, out, net>>
  BY <1>2, ProgramKeeps
<1>4. NoMarks(heap') /\ ~heap'.tag[GC_NULL].ref /\ heap' \in Heap
  BY <1>2, <1>3 DEF SameChunks, NoMarks, Headers, WellFormed
<1> QED
  BY <1>1, <1>2, <1>3, <1>4 DEF IInv, Types, CompactTypes, Phase, CompactPhase, Walking

LEMMA NextIInv == IInv /\ [Next]_vars => IInv'
<1> SUFFICES ASSUME IInv, [Next]_vars PROVE IInv'
  OBVIOUS
<1>1. ASSUME NEW r \in RootSlots, NEW length \in Lengths, NEW ref \in Kinds,
             NEW id \in FreshIds, NewArray(r, length, ref, id)
      PROVE  IInv'
  BY <1>1, NewArrayIInv
<1>2. ASSUME NEW id \in FreshIds, Retry(id)
      PROVE  IInv'
  BY <1>2, RetryIInv
<1>3. CASE Collect
  <2>1. /\ pc = "collect" /\ pc' = "mark"
        /\ UNCHANGED <<heap, roots, req, out, net, root, frames, forward_map, scan, dest>>
    BY <1>3 DEF Collect, collectorVars, markVars, compactVars
  <2>2. /\ Types /\ root = 1 /\ frames = <<>> /\ ~heap.tag[GC_NULL].ref
        /\ WellFormed(heap, roots, Base, heap.watermark) /\ NoMarks(heap)
    BY <2>1 DEF IInv, Phase, CompactPhase, Walking
  <2>3. MarkInv
    BY <2>2, MarkBegins
  <2>4. MarkInv'
    BY <2>1, <2>3 DEF MarkInv, Marked, Arrays
  <2> QED
    BY <2>1, <2>2, <2>4 DEF IInv, Types, CompactTypes, Phase, CompactPhase, Walking
<1>4. CASE CollectReturn /\ UNCHANGED collectorVars
  <2>1. /\ pc = "return" /\ pc' \in {"run", "retry"} /\ out' = ZeroOut
        /\ net' = (IF CountBytes THEN net - out.freed ELSE 0)
        /\ UNCHANGED <<heap, roots, req, root, frames, forward_map, scan, dest>>
    BY <1>4 DEF CollectReturn, collectorVars, markVars, compactVars
  <2>2. /\ Types /\ root = 1 /\ frames = <<>> /\ ~heap.tag[GC_NULL].ref
        /\ WellFormed(heap, roots, Base, heap.watermark) /\ NoMarks(heap)
    BY <2>1 DEF IInv, Phase, CompactPhase, Walking
  <2>3. net' \in Int /\ out' \in Outs
    <3>1. net \in Int /\ out.freed \in Nat
      BY <2>2 DEF Types, CompactTypes, Outs
    <3> QED
      BY <2>1, <3>1 DEF Outs, ZeroOut
  <2> QED
    BY <2>1, <2>2, <2>3 DEF IInv, Types, CompactTypes, Phase, CompactPhase, Walking
<1>5. CASE GCInstruction /\ UNCHANGED collectorVars
  <2>1. /\ pc = "run" /\ pc' = "collect" /\ out' = ZeroOut /\ req' = NoReq
        /\ UNCHANGED <<heap, roots, net, root, frames, forward_map, scan, dest>>
    BY <1>5 DEF GCInstruction, Stop, collectorVars, markVars, compactVars
  <2>2. /\ Types /\ root = 1 /\ frames = <<>> /\ ~heap.tag[GC_NULL].ref
        /\ WellFormed(heap, roots, Base, heap.watermark) /\ NoMarks(heap)
    BY <2>1 DEF IInv, Phase, CompactPhase, Walking
  <2>3. out' \in Outs /\ req' \in Request
    BY <2>1 DEF Outs, ZeroOut, Request
  <2> QED
    BY <2>1, <2>2, <2>3 DEF IInv, Types, CompactTypes, Phase, CompactPhase, Walking
<1>6. CASE /\ ProgramStep \/ \E r, s \in RootSlots, k \in Elements : AIAStore(r, k, s)
           /\ UNCHANGED collectorVars
  BY <1>6, ProgramIInv
<1>7. CASE CompactStep
  BY <1>7, CompactIInv
<1>8. CASE CompactEnd("return")
  BY <1>8, CompactEndIInv
<1>9. CASE UNCHANGED vars
  <2>1. UNCHANGED <<heap, roots, pc, req, out, net, root, frames, forward_map, scan, dest>>
    BY <1>9 DEF vars, mutatorVars, markVars, compactVars
  <2>2. MarkInv => MarkInv'
    BY <2>1 DEF MarkInv, Marked, Arrays
  <2> QED
    BY <2>1, <2>2 DEF IInv, Types, CompactTypes, Phase, CompactPhase
<1> QED
  BY <1>1, <1>2, <1>3, <1>4, <1>5, <1>6, <1>7, <1>8, <1>9 DEF Next, Program, CollectorStep

LEMMA AlwaysIInv == Spec => []IInv
  BY InitIInv, NextIInv, PTL DEF Spec

-----------------------------------------------------------------------------
(* What the program sees.                                                   *)

\* In every phase the heap still holds what the program last saw, and once the
\* collection has returned nothing else. No more words have moved than it holds.
Traced ==
    /\ CompactTraced
    /\ pc \notin {"update", "relocate"} => Seen
    /\ pc = "return" =>
          /\ Headers(heap, Base, heap.watermark) = Live(heap, roots)
          /\ out.moved <= heap.watermark - Base
    /\ pc = "collect" => out.moved = 0

LEMMA NextTraced == IInv /\ Traced /\ [Next]_vars => Traced'
<1> SUFFICES ASSUME IInv, Traced, [Next]_vars PROVE Traced'
  OBVIOUS
<1>0. Types /\ Phase
  BY DEF IInv
<1>1. ASSUME NEW r \in RootSlots, NEW length \in Lengths, NEW ref \in Kinds,
             NEW id \in FreshIds, NewArray(r, length, ref, id)
      PROVE  Traced'
  <2> DEFINE a == Alloc(length, ref, id)
  <2>1. /\ length \in Nat /\ ref \in BOOLEAN
        /\ AllocFirst(r, length, ref, a) /\ heap' = a.heap /\ pc = "run" /\ pc' \in {"run", "collect"}
    BY <1>1, AskedTypes DEF NewArray, AllocFirst, Stop
  <2>2. WellFormed(heap, roots, Base, heap.watermark) /\ Base <= heap.watermark /\ Seen
    BY <1>0, <2>1 DEF Phase, CompactPhase, Walking, Traced, CompactTraced, WellFormed
  <2>3. a = RawAlloc(heap, length, ref, id)
    BY DEF Alloc
  <2> HIDE DEF a
  <2>4. CASE a.ref = SENTINEL
    <3>1. a.heap = heap
      BY <2>2, <2>3, <2>4, BumpFails
    <3>2. pc' = "collect" /\ out' = ZeroOut /\ UNCHANGED <<heap, roots, view>>
      BY <2>1, <2>4, <3>1 DEF AllocFirst, Stop
    <3> QED
      BY <2>2, <3>2 DEF Seen, Traced, CompactTraced, ZeroOut
  <2>5. CASE a.ref # SENTINEL
    <3>1. Push(r, a)
      BY <2>1, <2>5 DEF AllocFirst
    <3>2. Seen'
      BY <2>1, <2>2, <2>3, <2>5, <3>1, BumpSees
    <3>3. pc' = "run"
      BY <2>1, <2>5 DEF AllocFirst
    <3> QED
      BY <3>2, <3>3 DEF Traced, CompactTraced
  <2> QED
    BY <2>4, <2>5
<1>2. ASSUME NEW id \in FreshIds, Retry(id) PROVE Traced'
  <2> DEFINE a == Alloc(req.length, req.ref, id)
  <2>1. /\ req.length \in Nat /\ req.ref \in BOOLEAN
        /\ AllocRetry(a) /\ heap' = a.heap /\ pc = "retry" /\ pc' \in {"run", "oom"}
    BY <1>0, <1>2, AskedTypes DEF Retry, AllocRetry, Types, CompactTypes
  <2>2. WellFormed(heap, roots, Base, heap.watermark) /\ Base <= heap.watermark /\ Seen
    BY <1>0, <2>1 DEF Phase, CompactPhase, Walking, Traced, CompactTraced, WellFormed
  <2>3. a = RawAlloc(heap, req.length, req.ref, id)
    BY DEF Alloc
  <2> HIDE DEF a
  <2>4. CASE a.ref = SENTINEL
    <3>1. a.heap = heap
      BY <2>2, <2>3, <2>4, BumpFails
    <3> QED
      BY <2>1, <2>2, <2>4, <3>1 DEF AllocRetry, Seen, Traced, CompactTraced
  <2>5. CASE a.ref # SENTINEL
    <3>1. Push(req.slot, a)
      BY <2>1, <2>5 DEF AllocRetry
    <3>2. Seen'
      BY <2>1, <2>2, <2>3, <2>5, <3>1, BumpSees
    <3> QED
      BY <2>1, <3>2 DEF Traced, CompactTraced
  <2> QED
    BY <2>4, <2>5
<1>3. CASE ProgramStep \/ \E r, s \in RootSlots, k \in Elements : AIAStore(r, k, s)
  <2>1. pc = "run" /\ pc' = "run"
    BY <1>3 DEF ProgramStep, AIALoad, IAStore, Pop, AIAStore, WriteElement
  <2>2. WellFormed(heap, roots, Base, heap.watermark) /\ Seen
    BY <1>0, <2>1 DEF Phase, CompactPhase, Walking, Traced, CompactTraced
  <2>3. Seen'
    BY <1>3, <2>2, ProgramSees
  <2> QED
    BY <2>1, <2>3 DEF Traced, CompactTraced
<1>4. CASE CompactStep
  <2>1. CompactInv /\ CompactTraced
    BY <1>0 DEF Types, Phase, CompactInv, Traced
  <2>2. CompactTraced' /\ pc' \in {"mark"} \cup Walking
    BY <1>4, <2>1, CompactStepTraced, CompactStepKeeps
  <2> QED
    BY <2>2 DEF Traced, CompactTraced, Walking
<1>5. CASE CompactEnd("return")
  <2>1. CompactInv /\ CompactTraced
    BY <1>0 DEF Types, Phase, CompactInv, Traced
  <2>2. /\ Seen' /\ Headers(heap', Base, heap'.watermark) = Live(heap', roots')
        /\ out'.moved <= heap'.watermark - Base /\ pc' = "return"
    BY <1>5, <2>1, CompactEndTraced DEF CompactEnd
  <2> QED
    BY <2>2 DEF Traced, CompactTraced
<1>6. CASE CollectReturn \/ GCInstruction
  <2>1. /\ UNCHANGED <<heap, roots, view>> /\ out' = ZeroOut
        /\ pc \in {"run", "return"} /\ pc' \in {"run", "retry", "collect"}
    BY <1>6 DEF CollectReturn, GCInstruction, Stop
  <2> QED
    BY <2>1 DEF Traced, CompactTraced, Seen, ZeroOut
<1>7. CASE Collect
  <2>1. /\ UNCHANGED <<heap, roots, view, out, frames>> /\ pc = "collect" /\ pc' = "mark"
    BY <1>7 DEF Collect, collectorVars, markVars
  <2>2. Marked = {} /\ frames = <<>>
    BY <1>0, <2>1 DEF Phase, CompactPhase, Walking, NoMarks, Marked, Headers, IsMarked
  <2>3. MarkPrecise'
    BY <2>1, <2>2, EmptySeq DEF MarkPrecise, Marked
  <2> QED
    BY <2>1, <2>3 DEF Traced, CompactTraced, Seen
<1>8. CASE UNCHANGED vars
  <2>1. UNCHANGED <<heap, roots, pc, out, view, frames, forward_map, scan, dest>>
    BY <1>8 DEF vars, mutatorVars, markVars, compactVars
  <2>2. (Seen => Seen') /\ (MarkPrecise => MarkPrecise') /\ Marked' = Marked
    BY <2>1 DEF Seen, MarkPrecise, Marked
  <2>3. \A h0, rs0 : Began(h0, rs0) => Began(h0, rs0)'
    BY <2>1 DEF Began
  <2> QED
    BY <2>1, <2>2, <2>3 DEF Traced, CompactTraced
<1> QED
  BY <1>1, <1>2, <1>3, <1>4, <1>5, <1>6, <1>7, <1>8 DEF Next, Program, CollectorStep

\* A root that waits for the array stays null while the roots are rewritten.
LEMMA NextWaiting == Waiting /\ [Next]_vars => Waiting'
<1> SUFFICES ASSUME Waiting, [Next]_vars PROVE Waiting'
  OBVIOUS
<1>1. CASE UpdateRoots
  <2>1. /\ req \in Request /\ (req # NoReq => roots[req.slot] = GC_NULL)
        /\ UNCHANGED req /\ pc' = "update"
        /\ roots' = [r \in RootSlots |-> Updated(roots[r])]
    BY <1>1 DEF UpdateRoots, Waiting
  <2>2. req # NoReq => req.slot \in RootSlots
    BY <2>1 DEF Request
  <2>3. req # NoReq => roots'[req.slot] = GC_NULL
    BY <2>1, <2>2 DEF Updated
  <2> QED
    BY <2>1, <2>3 DEF Waiting
<1>2. CASE ~UpdateRoots
  <2>1. \/ \E r \in RootSlots, length \in Lengths, ref \in Kinds : \E a : AllocFirst(r, length, ref, a)
        \/ \E a : AllocRetry(a)
        \/ GCInstruction \/ CollectReturn
        \/ ProgramStep \/ \E r, s \in RootSlots, k \in Elements : AIAStore(r, k, s)
        \/ UNCHANGED <<roots, req>> /\ (pc' = pc \/ pc' \notin {"run", "retry"})
    BY <1>2 DEF Next, Program, CollectorStep, CompactStep, NewArray, Retry, Collect, LocateStart,
           LocateStep, UpdateStep, RelocateStart, RelocateStep, CompactEnd, VisitRoot, VisitRef,
           vars, mutatorVars
  <2> QED
    BY <2>1, WaitingKept
<1> QED
  BY <1>1, <1>2

\* Each step of the program is one of AbstractHeap, and no step of a collection is.
LEMMA NextIsAbstract ==
    IInv /\ Traced /\ Waiting /\ [Next]_vars => [Abstract!Next]_(Abstract!vars)
<1> SUFFICES ASSUME IInv, Traced, Waiting, [Next]_vars
             PROVE  Abstract!Next \/ UNCHANGED view
  BY DEF Abstract!vars
<1>0. Types /\ Phase
  BY DEF IInv
<1>1. ASSUME NEW r \in RootSlots, NEW length \in Lengths, NEW ref \in Kinds,
             NEW id \in FreshIds, NewArray(r, length, ref, id)
      PROVE  Abstract!Next \/ UNCHANGED view
  <2> DEFINE a == Alloc(length, ref, id)
  <2>1. /\ length \in Nat /\ ref \in BOOLEAN /\ AllocFirst(r, length, ref, a)
        /\ heap' = a.heap /\ roots[r] = GC_NULL /\ pc = "run"
    BY <1>1, AskedTypes DEF NewArray, AllocFirst
  <2>2. WellFormed(heap, roots, Base, heap.watermark) /\ Base <= heap.watermark /\ Seen
    BY <1>0, <2>1 DEF Phase, CompactPhase, Walking, Traced, CompactTraced, WellFormed
  <2>3. a = RawAlloc(heap, length, ref, id)
    BY DEF Alloc
  <2> HIDE DEF a
  <2>4. CASE a.ref = SENTINEL
    BY <2>1, <2>4 DEF AllocFirst
  <2>5. CASE a.ref # SENTINEL
    <3>1. Push(r, a)
      BY <2>1, <2>5 DEF AllocFirst
    <3>2. Abstract!New(r)
      BY <2>1, <2>2, <2>3, <2>5, <3>1, BumpIsNew
    <3> QED
      BY <3>2, NewIsAbstract
  <2> QED
    BY <2>4, <2>5
<1>2. ASSUME NEW id \in FreshIds, Retry(id) PROVE Abstract!Next \/ UNCHANGED view
  <2> DEFINE a == Alloc(req.length, req.ref, id)
             r == req.slot
  <2>1. AllocRetry(a) /\ heap' = a.heap /\ pc = "retry"
    BY <1>2 DEF Retry, AllocRetry
  <2>2. /\ r \in RootSlots /\ roots[r] = GC_NULL
        /\ req.length \in Lengths /\ req.length \in Nat /\ req.ref \in BOOLEAN
    BY <2>1, WaitingMeans
  <2>3. WellFormed(heap, roots, Base, heap.watermark) /\ Base <= heap.watermark /\ Seen
    BY <1>0, <2>1 DEF Phase, CompactPhase, Walking, Traced, CompactTraced, WellFormed
  <2>4. a = RawAlloc(heap, req.length, req.ref, id)
    BY DEF Alloc
  <2> HIDE DEF a, r
  <2>5. CASE a.ref = SENTINEL
    BY <2>1, <2>5 DEF AllocRetry
  <2>6. CASE a.ref # SENTINEL
    <3>1. Push(r, a)
      BY <2>1, <2>6 DEF AllocRetry, r
    <3>2. Abstract!New(r)
      BY <2>1, <2>2, <2>3, <2>4, <2>6, <3>1, BumpIsNew
    <3> QED
      BY <2>2, <3>2, NewIsAbstract
  <2> QED
    BY <2>5, <2>6
<1>3. CASE ProgramStep \/ \E r, s \in RootSlots, k \in Elements : AIAStore(r, k, s)
  <2>1. pc = "run"
    BY <1>3 DEF ProgramStep, AIALoad, IAStore, Pop, AIAStore
  <2>2. WellFormed(heap, roots, Base, heap.watermark) /\ Seen
    BY <1>0, <2>1 DEF Phase, CompactPhase, Walking, Traced, CompactTraced
  <2> QED
    BY <1>3, <2>2, ProgramIsAbstract
<1>4. CASE UNCHANGED view
  BY <1>4
<1> QED
  BY <1>1, <1>2, <1>3, <1>4
     DEF Next, Program, CollectorStep, CompactStep, Collect, LocateStart, LocateStep, UpdateRoots,
         UpdateStep, RelocateStart, RelocateStep, CompactEnd, CollectReturn, VisitRoot, VisitRef,
         GCInstruction, Stop, vars, mutatorVars

-----------------------------------------------------------------------------
(* What the runs check, for every value of the constants.                   *)

\* The offsets a root may hold are addresses in every phase.
LEMMA RootsAreAddresses == IInv => roots \in [RootSlots -> Addr]
<1> SUFFICES ASSUME IInv PROVE roots \in [RootSlots -> Addr]
  OBVIOUS
<1>1. CASE pc \notin Walking
  <2>1. WellFormed(heap, roots, Base, heap.watermark)
    BY <1>1 DEF IInv, Phase, CompactPhase, MarkInv, Walking
  <2> QED
    BY <2>1, WellFormedTypes
<1>2. CASE pc \in Walking
  BY <1>2, CompactRoots DEF IInv, Types, Phase, CompactInv
<1> QED
  BY <1>1, <1>2

\* The types the runs check.
LEMMA TypesHold == IInv => TypeOK
<1> SUFFICES ASSUME IInv PROVE TypeOK
  OBVIOUS
<1>1. Types /\ roots \in [RootSlots -> Addr]
  BY RootsAreAddresses DEF IInv
<1>2. DOMAIN out = DOMAIN ZeroOut /\ \A f \in DOMAIN out : out[f] \in Nat
  BY <1>1 DEF Types, CompactTypes, Outs, ZeroOut
<1> QED
  BY <1>1, <1>2 DEF TypeOK, MutatorTypeOK, CompactTypeOK, MarkTypeOK, Types, CompactTypes

\* For every heap size, number of roots and program, the variables of
\* mark_compact.c keep their types.
THEOREM MarkCompactTypeOK == Spec => []TypeOK
  BY TypesHold, AlwaysIInv, PTL

\* Between collections the heap is walkable, carries no mark, and no root and
\* no element of an allocated array dangles: compact() moves every array the
\* program can reach, and redirects every reference to it.
THEOREM MarkCompactHeapIntact == Spec => []HeapIntact
<1>1. IInv => HeapIntact
  <2> SUFFICES ASSUME IInv PROVE HeapIntact
    OBVIOUS
  <2>1. ASSUME Quiet
        PROVE  /\ Tiled(heap, Base, heap.watermark) /\ Marked = {}
               /\ ReferencesValid(Allocated(heap, Base, heap.watermark))
    <3>1. WellFormed(heap, roots, Base, heap.watermark) /\ NoMarks(heap)
      BY <2>1 DEF IInv, Phase, CompactPhase, Quiet, Walking
    <3>2. Marked = {}
      BY <3>1 DEF NoMarks, Marked, IsMarked
    <3> QED
      BY <3>1, <3>2, WellFormedMeans
  <2> QED
    BY <2>1, TypesHold DEF HeapIntact
<1> QED
  BY <1>1, AlwaysIInv, PTL

\* While marking, what is not marked yet is still found from the frames of the
\* recursion and the roots to come.
THEOREM MarkCompactTriColour == Spec => []TriColour
<1>1. IInv => TriColour
  BY MarkInvMeans DEF IInv, Phase, CompactPhase
<1> QED
  BY <1>1, AlwaysIInv, PTL

\* The entry compute_locations gives an array is the room of the marked arrays
\* before it, and no entry of an earlier collection ever becomes a reference.
THEOREM MarkCompactForwardExact == Spec => []ForwardExact
<1>1. IInv => ForwardExact
  BY CompactForwards DEF IInv, Types, Phase, CompactInv
<1> QED
  BY <1>1, AlwaysIInv, PTL

\* While relocate slides the arrays, the walk ahead is intact and no array is
\* moved up or onto one still to be moved.
THEOREM MarkCompactSlideSafe == Spec => []SlideSafe
<1>1. IInv => SlideSafe
  BY CompactSlides DEF IInv, Types, Phase, CompactInv
<1> QED
  BY <1>1, AlwaysIInv, PTL

\* For every heap and program, compaction is invisible: every root leads to the
\* array it led to, whose elements lead to theirs.
THEOREM MarkCompactViewPreserved == Spec => []ViewPreserved
<1>1. Init => Traced
  BY InitSeen DEF Init, MutatorInit, Traced, CompactTraced
<1>2. Traced => ViewPreserved
  BY SeenMeans DEF Traced, CompactTraced, ViewPreserved
<1> QED
  BY <1>1, <1>2, NextTraced, AlwaysIInv, PTL DEF Spec

\* Mark-compact implements AbstractHeap: the program's instructions do there what they
\* do here, and moving every array does nothing there.
THEOREM MarkCompactRefinesAbstract == Spec => RefinesAbstract
<1>1. Init => Traced
  BY InitSeen DEF Init, MutatorInit, Traced, CompactTraced
<1>2. Init => Waiting /\ Abstract!Init
  BY InitWaiting, InitIsAbstract DEF Init
<1> QED
  BY <1>1, <1>2, NextTraced, NextWaiting, NextIsAbstract, AlwaysIInv, PTL
     DEF Spec, RefinesAbstract, Abstract!Spec
-----------------------------------------------------------------------------
(* The totals.                                                              *)

\* What was allocated and not yet freed is what lies below the watermark; when a
\* collection returns, that and what it says it freed.
Accounts ==
    /\ pc # "return" /\ CountBytes => net = heap.watermark - Base
    /\ pc = "return" => /\ out.live = heap.watermark - Base
                        /\ CountBytes => net = out.live + out.freed

LEMMA InitAccounts == Init => Accounts
  BY DEF Init, MutatorInit, EmptyHeap, Accounts

LEMMA NextAccounts == IInv /\ Accounts /\ [Next]_vars => Accounts'
<1> SUFFICES ASSUME IInv, Accounts, [Next]_vars PROVE Accounts'
  OBVIOUS
<1>0. /\ Types /\ Phase /\ net \in Int /\ heap \in Heap /\ out \in Outs
      /\ heap.watermark \in Nat
  BY Numbers DEF IInv, Types, CompactTypes, Heap
<1>1. ASSUME NEW r \in RootSlots, NEW length \in Lengths, NEW ref \in Kinds,
             NEW id \in FreshIds, NewArray(r, length, ref, id)
      PROVE  Accounts'
  <2> DEFINE a == Alloc(length, ref, id)
  <2>1. /\ length \in Nat /\ ref \in BOOLEAN /\ id \in Ids \cup {NoId}
        /\ AllocFirst(r, length, ref, a) /\ heap' = a.heap /\ pc = "run"
    BY <1>1, AskedTypes DEF NewArray, AllocFirst
  <2>2. /\ WellFormed(heap, roots, Base, heap.watermark) /\ Base <= heap.watermark
        /\ CountBytes => net = heap.watermark - Base
    BY <1>0, <2>1 DEF Phase, CompactPhase, Walking, Accounts, WellFormed
  <2>3. a = RawAlloc(heap, length, ref, id)
    BY DEF Alloc
  <2> HIDE DEF a
  <2>4. CASE a.ref = SENTINEL
    <3>1. a.heap = heap
      BY <2>2, <2>3, <2>4, BumpFails
    <3>2. pc' = "collect" /\ UNCHANGED <<heap, net>>
      BY <2>1, <2>4, <3>1 DEF AllocFirst, Stop
    <3> QED
      BY <2>2, <3>2 DEF Accounts
  <2>5. CASE a.ref # SENTINEL
    <3>1. Push(r, a) /\ pc' = "run"
      BY <2>1, <2>5 DEF AllocFirst
    <3>2. CountBytes => net' = a.heap.watermark - Base
      BY <1>0, <2>1, <2>2, <2>3, <2>5, <3>1, PushCounts
    <3> QED
      BY <2>1, <3>1, <3>2 DEF Accounts
  <2> QED
    BY <2>4, <2>5
<1>2. ASSUME NEW id \in FreshIds, Retry(id) PROVE Accounts'
  <2> DEFINE a == Alloc(req.length, req.ref, id)
  <2>1. /\ req.length \in Nat /\ req.ref \in BOOLEAN /\ id \in Ids \cup {NoId}
        /\ AllocRetry(a) /\ heap' = a.heap /\ pc = "retry" /\ pc' \in {"run", "oom"}
    BY <1>0, <1>2, AskedTypes DEF Retry, AllocRetry, Types, CompactTypes
  <2>2. /\ WellFormed(heap, roots, Base, heap.watermark) /\ Base <= heap.watermark
        /\ CountBytes => net = heap.watermark - Base
    BY <1>0, <2>1 DEF Phase, CompactPhase, Walking, Accounts, WellFormed
  <2>3. a = RawAlloc(heap, req.length, req.ref, id)
    BY DEF Alloc
  <2> HIDE DEF a
  <2>4. CASE a.ref = SENTINEL
    <3>1. a.heap = heap
      BY <2>2, <2>3, <2>4, BumpFails
    <3>2. UNCHANGED <<heap, net>>
      BY <2>1, <2>4, <3>1 DEF AllocRetry
    <3> QED
      BY <2>1, <2>2, <3>2 DEF Accounts
  <2>5. CASE a.ref # SENTINEL
    <3>1. Push(req.slot, a)
      BY <2>1, <2>5 DEF AllocRetry
    <3>2. CountBytes => net' = a.heap.watermark - Base
      BY <1>0, <2>1, <2>2, <2>3, <2>5, <3>1, PushCounts
    <3> QED
      BY <2>1, <3>2 DEF Accounts
  <2> QED
    BY <2>4, <2>5
<1>3. CASE CompactEnd("return")
  <2>1. /\ pc = "relocate" /\ pc' = "return" /\ net' = net
        /\ out' = [out EXCEPT !.live = dest - Base, !.free = Gap, !.largest = Gap, !.freed = Gap]
    BY <1>3 DEF CompactEnd
  <2>2. heap'.watermark = dest /\ dest \in Nat
    <3>1. CompactInv
      BY <1>0 DEF Types, Phase, CompactInv
    <3> QED
      BY <1>3, <3>1, TrimEffect, Numbers
  <2>3. out'.live = dest - Base /\ out'.freed = heap.watermark - dest
    BY <1>0, <2>1 DEF Outs, Gap
  <2>4. CountBytes => net' = heap.watermark - Base
    BY <2>1 DEF Accounts
  <2> QED
    BY <1>0, <2>1, <2>2, <2>3, <2>4 DEF Accounts
<1>4. CASE CollectReturn /\ UNCHANGED collectorVars
  <2>1. /\ pc = "return" /\ pc' \in {"run", "retry"} /\ heap' = heap
        /\ CountBytes => net' = net - out.freed
    BY <1>4 DEF CollectReturn
  <2>2. out.live \in Nat /\ out.freed \in Nat
    BY <1>0 DEF Outs
  <2> QED
    BY <1>0, <2>1, <2>2 DEF Accounts
<1>5. CASE /\ ProgramStep \/ \E r, s \in RootSlots, k \in Elements : AIAStore(r, k, s)
           /\ UNCHANGED collectorVars
  <2>1. pc = "run"
    BY <1>5 DEF ProgramStep, AIALoad, IAStore, Pop, AIAStore
  <2>2. WellFormed(heap, roots, Base, heap.watermark)
    BY <1>0, <2>1 DEF Phase, CompactPhase, Walking
  <2>3. heap'.watermark = heap.watermark /\ UNCHANGED <<pc, net>>
    BY <1>5, <2>2, ProgramKeeps
  <2> QED
    BY <2>1, <2>3 DEF Accounts
<1>6. CASE VisitRoot \/ VisitRef
  <2>1. pc = "mark" /\ UNCHANGED <<pc, net>>
    BY <1>6 DEF VisitRoot, VisitRef
  <2>2. SameButMarks(heap, heap')
    BY <1>0, <1>6, <2>1, VisitRootKeeps, VisitRefKeeps DEF Phase, CompactPhase
  <2> QED
    BY <2>1, <2>2 DEF Accounts, SameButMarks
<1>7. CASE UpdateStep
  <2>1. pc = "update" /\ UNCHANGED <<pc, net>>
    BY <1>7 DEF UpdateStep
  <2>2. heap'.watermark = heap.watermark
    BY <1>0, <1>7 DEF UpdateStep, RefsUpdated, Heap
  <2> QED
    BY <2>1, <2>2 DEF Accounts
<1>8. CASE RelocateStep
  <2>1. pc = "relocate" /\ UNCHANGED <<pc, net>>
    BY <1>8 DEF RelocateStep
  <2>2. heap'.watermark = heap.watermark
    BY <1>0, <1>8 DEF RelocateStep, Slid, MoveObject, ClearMarked, Heap
  <2> QED
    BY <2>1, <2>2 DEF Accounts
<1>9. CASE \/ GCInstruction \/ Collect \/ LocateStart \/ LocateStep \/ UpdateRoots
           \/ RelocateStart \/ UNCHANGED vars
  <2>1. /\ UNCHANGED <<heap, net>>
        /\ (pc # "return" /\ pc' # "return") \/ UNCHANGED <<pc, out>>
    BY <1>9 DEF GCInstruction, Stop, Collect, LocateStart, MarkDone, LocateStep, UpdateRoots,
       RelocateStart, vars, mutatorVars
  <2> QED
    BY <2>1 DEF Accounts
<1> QED
  BY <1>1, <1>2, <1>3, <1>4, <1>5, <1>6, <1>7, <1>8, <1>9
     DEF Next, Program, CollectorStep, CompactStep

\* A collection leaves the arrays the program reaches and nothing between or after
\* them, and reports their size; with what it freed, that is all that was allocated.
THEOREM MarkCompactCompactedExactly == Spec => []CompactedExactly
<1>1. IInv /\ Traced /\ Accounts => CompactedExactly
  <2> SUFFICES ASSUME IInv, Traced, Accounts, pc = "return"
               PROVE  /\ Chunks(heap) = LiveRefs
                      /\ out.live = heap.watermark - Base
                      /\ out.moved <= out.live
                      /\ CountBytes => net = out.live + out.freed
    BY DEF CompactedExactly
  <2>1. WellFormed(heap, roots, Base, heap.watermark)
    BY DEF IInv, Phase, CompactPhase, Walking
  <2>2. /\ heap \in Heap /\ heap.watermark \in Nat /\ Base <= heap.watermark
        /\ heap.watermark <= HeapEnd /\ Base \in Nat /\ Tiled(heap, Base, heap.watermark)
    BY <2>1, Numbers DEF WellFormed, Heap
  <2>3. Chunks(heap) = Headers(heap, Base, heap.watermark)
    BY <2>2, WalkMeets DEF Chunks
  <2>4. LiveRefs = Live(heap, roots)
    BY DEF LiveRefs, RootSet, Live
  <2> QED
    BY <2>3, <2>4 DEF Traced, CompactTraced, Accounts
<1>2. Init => Traced
  BY InitSeen DEF Init, MutatorInit, Traced, CompactTraced
<1> QED
  BY <1>1, <1>2, InitAccounts, NextTraced, NextAccounts, AlwaysIInv, PTL DEF Spec
=============================================================================
