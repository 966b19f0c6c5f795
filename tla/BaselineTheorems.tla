-------------------------- MODULE BaselineTheorems ---------------------------
(***************************************************************************)
(* The baseline collector is correct for every heap size and program.      *)
(***************************************************************************)
EXTENDS Baseline, MutatorTheorems

USE DEF Header, Base, GC_NULL

\* The inductive invariant: the heap is well formed up to its watermark, nothing
\* is ever reported freed, and a request is pending only while it does not fit.
IInv ==
    /\ WellFormed(heap, roots, Base, heap.watermark)
    /\ pc \in {"run", "collect", "return", "retry", "oom"}
    /\ req \in Request
    /\ out = ZeroOut
    /\ net \in Int
    /\ CountBytes => net = heap.watermark - Base
    /\ pc \in {"run", "oom"} => req = NoReq
    /\ pc = "retry" => req # NoReq
    /\ req # NoReq => ~Fits(heap, req.length)

LEMMA InitIInv == Init => IInv
<1> SUFFICES ASSUME Init PROVE IInv
  OBVIOUS
<1> USE DEF Init, MutatorInit
<1>1. EmptyHeap \in Heap /\ EmptyHeap.watermark = Base
  <2>1. 0 \in Word /\ Base \in 0 .. HeapEnd /\ Stale \in Word
    BY Numbers DEF Word
  <2>2. [a \in Addr |-> IF a < Base THEN 0 ELSE Stale] \in [Addr -> Word]
    BY <2>1
  <2>3. [a \in Addr |-> NoTag] \in [Addr -> Tag]
    BY TagTypes
  <2> QED
    BY <2>1, <2>2, <2>3 DEF EmptyHeap, Heap
<1>2. WellFormed(heap, roots, Base, heap.watermark)
  BY <1>1, Numbers, TiledEmpty DEF WellFormed, Allocated
<1> QED
  BY <1>1, <1>2 DEF IInv, Request, ZeroOut

\* Allocation, counted and pushed on a slot.
LEMMA PushKeeps ==
    ASSUME IInv, NEW length \in Nat, NEW ref \in BOOLEAN, NEW id \in FreshIds,
           NEW a, a = Alloc(length, ref, id), a.ref # SENTINEL,
           NEW r \in RootSlots, Push(r, a), heap' = a.heap
    PROVE  /\ WellFormed(heap', roots', Base, heap'.watermark)
           /\ net' \in Int /\ (CountBytes => net' = heap'.watermark - Base)
<1>1. /\ WellFormed(heap, roots, Base, heap.watermark)
      /\ net \in Int /\ (CountBytes => net = heap.watermark - Base)
      /\ heap \in Heap /\ heap.watermark \in Nat /\ Base <= heap.watermark
      /\ heap.watermark <= HeapEnd
  BY DEF IInv, WellFormed
<1>2. id \in Ids \cup {NoId}
  BY DEF FreshIds
<1>3. a = RawAlloc(heap, length, ref, id)
  BY DEF Alloc
<1>4. /\ WellFormed(a.heap, roots, Base, a.heap.watermark)
      /\ a.ref \in Allocated(a.heap, Base, a.heap.watermark)
      /\ a.heap.watermark = heap.watermark + Header + length
  <2>1. WellFormed(heap, roots, Base, heap.watermark) /\ Base <= heap.watermark
    BY <1>1
  <2> QED
    BY <2>1, <1>2, <1>3, AppendKeeps
<1>5. roots' = [roots EXCEPT ![r] = a.ref]
  BY DEF Push
<1>6. WellFormed(heap', roots', Base, heap'.watermark)
  BY <1>4, <1>5, RootKeeps
<1>7. a.heap.word[a.ref] = length
  BY <1>1, <1>2, <1>3, RawAllocEffect
<1>8. net' = IF CountBytes THEN net + Header + length ELSE 0
  BY <1>1, <1>7 DEF Push, ObjectWords
<1> QED
  BY <1>1, <1>4, <1>6, <1>8

LEMMA NextIInv == IInv /\ [Next]_vars => IInv'
<1> SUFFICES ASSUME IInv, [Next]_vars PROVE IInv'
  OBVIOUS
<1>0. /\ WellFormed(heap, roots, Base, heap.watermark)
      /\ heap \in Heap /\ heap.watermark \in Nat /\ Base <= heap.watermark
      /\ heap.watermark <= HeapEnd
  BY DEF IInv, WellFormed
<1>1. ASSUME NEW r \in RootSlots, NEW length \in Lengths, NEW ref \in Kinds,
             NEW id \in FreshIds, NewArray(r, length, ref, id)
      PROVE  IInv'
  <2> DEFINE a == Alloc(length, ref, id)
  <2>1. /\ length \in Nat /\ ref \in BOOLEAN /\ id \in Ids \cup {NoId}
        /\ pc = "run" /\ req = NoReq /\ heap' = a.heap
    BY <1>1, MutatorAssumption DEF MutatorAssumption, NewArray, AllocFirst, IInv, FreshIds
  <2>2. CASE a.ref = SENTINEL
    <3>1. heap' = heap /\ ~Fits(heap, length)
      BY <2>1, <2>2, <1>0, Numbers, RawAllocEffect DEF Alloc
    <3>2. /\ req' = [slot |-> r, length |-> length, ref |-> ref]
          /\ pc' = "collect" /\ out' = ZeroOut /\ UNCHANGED <<roots, net>>
      BY <1>1, <2>2 DEF NewArray, AllocFirst, Stop
    <3> QED
      BY <1>0, <2>1, <3>1, <3>2 DEF IInv, Request
  <2>3. CASE a.ref # SENTINEL
    <3>1. Push(r, a) /\ UNCHANGED <<pc, req, out>>
      BY <1>1, <2>3 DEF NewArray, AllocFirst
    <3>2. /\ WellFormed(heap', roots', Base, heap'.watermark)
          /\ net' \in Int /\ (CountBytes => net' = heap'.watermark - Base)
      BY <2>1, <2>3, <3>1, PushKeeps
    <3> QED
      BY <2>1, <3>1, <3>2 DEF IInv
  <2> QED
    BY <2>2, <2>3
<1>2. ASSUME NEW id \in FreshIds, Retry(id)
      PROVE  IInv'
  <2> DEFINE a == Alloc(req.length, req.ref, id)
  <2>1. /\ pc = "retry" /\ heap' = a.heap /\ req \in Request \ {NoReq}
        /\ ~Fits(heap, req.length)
    BY <1>2 DEF Retry, AllocRetry, IInv
  <2>2. a.ref = SENTINEL /\ a.heap = heap
    BY <2>1 DEF Alloc, RawAlloc
  <2>3. pc' = "oom" /\ req' = NoReq /\ UNCHANGED <<roots, net, out>>
    BY <1>2, <2>2 DEF Retry, AllocRetry
  <2> QED
    BY <1>0, <2>1, <2>2, <2>3 DEF IInv, Request
<1>3. CASE Collect
  BY <1>3 DEF Collect, Collected, IInv
<1>4. CASE CollectReturn
  BY <1>4 DEF CollectReturn, IInv, ZeroOut
<1>5. CASE GCInstruction
  BY <1>5 DEF GCInstruction, Stop, IInv
<1>6. CASE ProgramStep \/ \E r, s \in RootSlots, k \in Elements : AIAStore(r, k, s)
  <2>1. /\ WellFormed(heap', roots', Base, heap.watermark)
        /\ heap'.watermark = heap.watermark
        /\ pc = "run" /\ UNCHANGED <<pc, req, out, net>>
    BY <1>0, <1>6, ProgramKeeps
  <2> QED
    BY <2>1 DEF IInv
<1>7. CASE UNCHANGED vars
  BY <1>7 DEF vars, mutatorVars, IInv
<1> QED
  BY <1>1, <1>2, <1>3, <1>4, <1>5, <1>6, <1>7 DEF Next, Program, CollectorStep

LEMMA AlwaysIInv == Spec => []IInv
  BY InitIInv, NextIInv, PTL DEF Spec

\* The program's view changes with its instructions only.
LEMMA NextSeen == IInv /\ Seen /\ [Next]_vars => Seen'
<1> SUFFICES ASSUME IInv, Seen, [Next]_vars PROVE Seen'
  OBVIOUS
<1>0. WellFormed(heap, roots, Base, heap.watermark) /\ Base <= heap.watermark
  BY DEF IInv, WellFormed
<1>1. ASSUME NEW r \in RootSlots, NEW length \in Lengths, NEW ref \in Kinds,
             NEW id \in FreshIds, NewArray(r, length, ref, id)
      PROVE  Seen'
  <2> DEFINE a == RawAlloc(heap, length, ref, id)
  <2>0. a.ref = SENTINEL => a.heap = heap
    BY <1>0, BumpFails
  <2>1. length \in Nat /\ ref \in BOOLEAN /\ AllocFirst(r, length, ref, a) /\ heap' = a.heap
    BY <1>1, AskedTypes DEF NewArray, AllocFirst, Alloc
  <2> HIDE DEF a
  <2>2. CASE a.ref = SENTINEL
    BY <2>0, <2>1, <2>2 DEF AllocFirst, Seen
  <2>3. CASE a.ref # SENTINEL
    BY <1>0, <2>1, <2>3, BumpSees DEF AllocFirst, a
  <2> QED
    BY <2>2, <2>3
<1>2. ASSUME NEW id \in FreshIds, Retry(id) PROVE Seen'
  <2> DEFINE a == RawAlloc(heap, req.length, req.ref, id)
  <2>0. a.ref = SENTINEL => a.heap = heap
    BY <1>0, BumpFails
  <2>1. /\ req.length \in Nat /\ req.ref \in BOOLEAN /\ AllocRetry(a) /\ heap' = a.heap
    BY <1>2, AskedTypes DEF Retry, AllocRetry, Alloc, IInv
  <2> HIDE DEF a
  <2>2. CASE a.ref = SENTINEL
    BY <2>0, <2>1, <2>2 DEF AllocRetry, Seen
  <2>3. CASE a.ref # SENTINEL
    BY <1>0, <2>1, <2>3, BumpSees DEF AllocRetry, a
  <2> QED
    BY <2>2, <2>3
<1>3. CASE Collect \/ CollectReturn \/ GCInstruction \/ UNCHANGED vars
  BY <1>3 DEF Collect, Collected, CollectReturn, GCInstruction, vars, mutatorVars, Seen
<1>4. CASE ProgramStep \/ \E r, s \in RootSlots, k \in Elements : AIAStore(r, k, s)
  BY <1>0, <1>4, ProgramSees
<1> QED
  BY <1>1, <1>2, <1>3, <1>4 DEF Next, Program, CollectorStep

\* For every heap and program, what the program sees is what it last left.
THEOREM BaselineViewPreserved == Spec => []ViewPreserved
<1>1. Init => Seen
  BY InitSeen DEF Init
<1>2. Seen => ViewPreserved
  BY SeenMeans DEF ViewPreserved
<1> QED
  BY <1>1, <1>2, NextSeen, AlwaysIInv, PTL DEF Spec

LEMMA NextWaiting == Waiting /\ [Next]_vars => Waiting'
<1> SUFFICES ASSUME Waiting, [Next]_vars PROVE Waiting'
  OBVIOUS
<1>1. \/ \E r \in RootSlots, length \in Lengths, ref \in Kinds : \E a : AllocFirst(r, length, ref, a)
      \/ \E a : AllocRetry(a)
      \/ GCInstruction \/ CollectReturn
      \/ ProgramStep \/ \E r, s \in RootSlots, k \in Elements : AIAStore(r, k, s)
      \/ UNCHANGED <<roots, req>> /\ (pc' = pc \/ pc' \notin {"run", "retry"})
  BY DEF Next, Program, CollectorStep, NewArray, Retry, Collect, Collected, vars, mutatorVars
<1> QED
  BY <1>1, WaitingKept

\* Each step of the program is one of AbstractHeap, and a collection is none.
LEMMA NextIsAbstract ==
    IInv /\ Seen /\ Waiting /\ [Next]_vars => [Abstract!Next]_(Abstract!vars)
<1> SUFFICES ASSUME IInv, Seen, Waiting, [Next]_vars
             PROVE  Abstract!Next \/ UNCHANGED view
  BY DEF Abstract!vars
<1>0. WellFormed(heap, roots, Base, heap.watermark) /\ Base <= heap.watermark
  BY DEF IInv, WellFormed
<1>1. ASSUME NEW r \in RootSlots, NEW length \in Lengths, NEW ref \in Kinds,
             NEW id \in FreshIds, NewArray(r, length, ref, id)
      PROVE  Abstract!Next \/ UNCHANGED view
  <2> DEFINE a == RawAlloc(heap, length, ref, id)
  <2>1. /\ length \in Nat /\ ref \in BOOLEAN /\ AllocFirst(r, length, ref, a)
        /\ heap' = a.heap /\ roots[r] = GC_NULL
    BY <1>1, AskedTypes DEF NewArray, AllocFirst, Alloc
  <2> HIDE DEF a
  <2>2. CASE a.ref = SENTINEL
    BY <2>1, <2>2 DEF AllocFirst
  <2>3. CASE a.ref # SENTINEL
    <3>1. Push(r, a)
      BY <2>1, <2>3 DEF AllocFirst
    <3>2. Abstract!New(r)
      BY <1>0, <2>1, <2>3, <3>1, BumpIsNew DEF a
    <3> QED
      BY <3>2, NewIsAbstract
  <2> QED
    BY <2>2, <2>3
<1>2. ASSUME NEW id \in FreshIds, Retry(id) PROVE Abstract!Next \/ UNCHANGED view
  <2> DEFINE a == RawAlloc(heap, req.length, req.ref, id)
             r == req.slot
  <2>1. AllocRetry(a) /\ heap' = a.heap /\ pc = "retry"
    BY <1>2 DEF Retry, AllocRetry, Alloc
  <2>2. /\ r \in RootSlots /\ roots[r] = GC_NULL
        /\ req.length \in Lengths /\ req.length \in Nat /\ req.ref \in BOOLEAN
    BY <2>1, WaitingMeans
  <2> HIDE DEF a, r
  <2>3. CASE a.ref = SENTINEL
    BY <2>1, <2>3 DEF AllocRetry
  <2>4. CASE a.ref # SENTINEL
    <3>1. Push(r, a)
      BY <2>1, <2>4 DEF AllocRetry, r
    <3>2. Abstract!New(r)
      BY <1>0, <2>1, <2>2, <2>4, <3>1, BumpIsNew DEF a
    <3> QED
      BY <2>2, <3>2, NewIsAbstract
  <2> QED
    BY <2>3, <2>4
<1>3. CASE Collect \/ CollectReturn \/ GCInstruction \/ UNCHANGED vars
  BY <1>3 DEF Collect, Collected, CollectReturn, GCInstruction, vars, mutatorVars
<1>4. CASE ProgramStep \/ \E r, s \in RootSlots, k \in Elements : AIAStore(r, k, s)
  BY <1>0, <1>4, ProgramIsAbstract
<1> QED
  BY <1>1, <1>2, <1>3, <1>4 DEF Next, Program, CollectorStep

\* For every heap and program, the baseline is an implementation of AbstractHeap:
\* the program's steps are its steps, and nothing else shows.
THEOREM BaselineRefinesAbstract == Spec => RefinesAbstract
<1>1. Init => Seen /\ Waiting /\ Abstract!Init
  BY InitSeen, InitWaiting, InitIsAbstract DEF Init
<1> QED
  BY <1>1, NextSeen, NextWaiting, NextIsAbstract, AlwaysIInv, PTL
     DEF Spec, RefinesAbstract, Abstract!Spec

\* For every heap and program, the variables keep their types.
THEOREM BaselineTypeOK == Spec => []TypeOK
<1>1. IInv => TypeOK
  <2> SUFFICES ASSUME IInv PROVE TypeOK
    OBVIOUS
  <2>1. heap \in Heap /\ roots \in [RootSlots -> Addr]
    <3>1. Allocated(heap, Base, heap.watermark) \cup {GC_NULL} \subseteq Addr
      BY Numbers DEF Allocated, Headers, Addr
    <3> QED
      BY <3>1 DEF IInv, WellFormed
  <2> QED
    BY <2>1 DEF IInv, TypeOK, MutatorTypeOK, ZeroOut
<1> QED
  BY <1>1, AlwaysIInv, PTL

\* For every heap and program, no reference dangles and nothing is reclaimed.
THEOREM BaselineHeapIntact == Spec => []HeapIntact
<1>1. IInv => HeapIntact
  BY WellFormedMeans DEF IInv, HeapIntact
<1> QED
  BY <1>1, AlwaysIInv, PTL

\* For every heap and program, a failed allocation is never followed by another
\* outcome: the retry of the baseline fails as well.
THEOREM BaselineOomTerminal == Spec => OomTerminal
<1>1. IInv /\ [Next]_vars =>
        [pc = "retry" => /\ pc' = "oom"
                         /\ heap.watermark + Header + req.length > HeapEnd]_vars
  <2> SUFFICES ASSUME IInv, Next, pc = "retry"
               PROVE  pc' = "oom" /\ heap.watermark + Header + req.length > HeapEnd
    OBVIOUS
  <2>1. /\ heap.watermark \in Nat /\ req.length \in Nat /\ ~Fits(heap, req.length)
    BY MutatorAssumption DEF IInv, WellFormed, Request, MutatorAssumption
  <2>2. PICK id \in FreshIds : Retry(id)
    BY DEF Next, Program, CollectorStep, NewArray, AllocFirst, AIAStore, ProgramStep, AIALoad,
           IAStore, Pop, GCInstruction, Collect, CollectReturn
  <2>3. Alloc(req.length, req.ref, id).ref = SENTINEL
    BY <2>1 DEF Alloc, RawAlloc
  <2>4. pc' = "oom"
    BY <2>2, <2>3 DEF Retry, AllocRetry
  <2> QED
    BY <2>1, <2>4, Numbers DEF Fits
<1> QED
  BY <1>1, AlwaysIInv, PTL DEF Spec, OomTerminal
=============================================================================
