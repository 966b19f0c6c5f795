------------------------------- MODULE Mutator -------------------------------
(***************************************************************************)
(* The running IJVM program and the collector-independent half of the GC   *)
(* layer (gc/src/collectors.c): NEWARRAY and ANEWARRAY through gc_alloc,   *)
(* AIASTORE, AIALOAD, IASTORE, a popped reference, and the GC instruction. *)
(* The program is one thread that stops while gc_alloc or gc_collect runs; *)
(* pc says where it is:                                                    *)
(*   "run"      the program executes instructions                          *)
(*   "collect"  gc_collect has been called                                 *)
(*   "return"   collector->collect has returned its gc_collect_stats       *)
(*   "retry"    gc_alloc is about to call collector->alloc again           *)
(*   "oom"      gc_alloc returned the sentinel; the program has ended      *)
(* A collector adds phases of its own between "collect" and "return".      *)
(***************************************************************************)
EXTENDS Host

CONSTANTS
    NRoots,     \* operand-stack and local slots that hold references
    Lengths,    \* lengths the program asks for
    Kinds,      \* arrays it asks for: TRUE of references, FALSE of integers
    Elements,   \* element indexes it reads and writes
    Ints,       \* values it stores in integer arrays
    ExplicitGC, \* does it execute GC instructions?
    CountBytes  \* bound: are the byte totals of gc_stats followed?

ASSUME MutatorAssumption ==
    /\ NRoots \in Nat
    /\ Lengths \subseteq Nat
    /\ Kinds \subseteq BOOLEAN
    /\ Elements \subseteq Nat
    /\ Ints \subseteq Word
    /\ ExplicitGC \in BOOLEAN /\ CountBytes \in BOOLEAN

VARIABLES
    heap,
    roots,      \* the tagged stack slots, 0 when null
    pc,
    req,        \* the allocation gc_alloc will retry
    out,        \* the gc_collect_stats of the collection that runs
    net,        \* gc_stats: bytes_allocated minus the sum of bytes_freed
    view        \* ghost: the heap as the program last left it

mutatorVars == <<heap, roots, pc, req, out, net, view>>

RootSlots == 1 .. NRoots
NoReq     == [slot |-> 0, length |-> 0, ref |-> FALSE]
Request   == [slot : RootSlots, length : Lengths, ref : BOOLEAN] \cup {NoReq}
ZeroOut   == [moved |-> 0, freed |-> 0, live |-> 0, free |-> 0, largest |-> 0]

RootSet == {roots[r] : r \in RootSlots}
LiveRefs == Reachable(heap, RootSet)

\* The heap as the program sees it, by ghost identity instead of offset.
IdOf(h, a) == IF a \in Addr \ {GC_NULL} THEN h.tag[a].id ELSE NoId
Contents(h, a) ==
    [ref   |-> h.tag[a].ref,
     elems |-> [k \in {i \in 1 .. h.word[a] : a + Header + i <= HeapEnd} |->
                  LET x == h.word[a + Header + k - 1]
                  IN  IF h.tag[a].ref THEN IdOf(h, x) ELSE x]]
ViewOf(h, rs) ==
    LET live == Reachable(h, {rs[r] : r \in RootSlots})
    IN  [stack |-> [r \in RootSlots |-> IdOf(h, rs[r])],
         store |-> [i \in {h.tag[a].id : a \in live} |->
                      Contents(h, CHOOSE a \in live : h.tag[a].id = i)]]

\* The ghost identity of the next array: the least one not in use.
FreshIds ==
    LET unused == Ids \ DOMAIN view.store
    IN  {i \in unused : \A j \in unused : i <= j}
-----------------------------------------------------------------------------
MutatorInit ==
    /\ heap = EmptyHeap
    /\ roots = [r \in RootSlots |-> GC_NULL]
    /\ pc = "run"
    /\ req = NoReq
    /\ out = ZeroOut
    /\ net = 0
    /\ view = ViewOf(heap, roots)

Stop(request) ==
    /\ req' = request
    /\ out' = ZeroOut
    /\ pc' = "collect"

\* The array a.ref is pushed on slot r and counted (gc_stats_count_alloc).
Push(r, a) ==
    /\ roots' = [roots EXCEPT ![r] = a.ref]
    /\ net' = IF CountBytes THEN net + ObjectWords(a.heap, a.ref) ELSE 0
    /\ view' = ViewOf(a.heap, roots')

\* gc_alloc, first attempt: a is what collector->alloc returned. The array is
\* pushed on an empty slot and counted; on the sentinel the collector runs.
AllocFirst(r, length, ref, a) ==
    /\ pc = "run"
    /\ roots[r] = GC_NULL
    /\ heap' = a.heap
    /\ IF a.ref = SENTINEL
       THEN /\ Stop([slot |-> r, length |-> length, ref |-> ref])
            /\ UNCHANGED <<roots, net, view>>
       ELSE /\ Push(r, a)
            /\ UNCHANGED <<pc, req, out>>

\* gc_alloc, second attempt, after gc_collect: success, or out of memory.
AllocRetry(a) ==
    /\ pc = "retry"
    /\ heap' = a.heap
    /\ req' = NoReq
    /\ IF a.ref = SENTINEL
       THEN /\ pc' = "oom"
            /\ UNCHANGED <<roots, net, view>>
       ELSE /\ pc' = "run"
            /\ Push(req.slot, a)
    /\ UNCHANGED out

\* The GC instruction (0xD4) calls gc_collect outside any allocation.
GCInstruction ==
    /\ ExplicitGC
    /\ pc = "run"
    /\ Stop(NoReq)
    /\ UNCHANGED <<heap, roots, net, view>>

\* gc_collect records the collection and returns to its caller.
CollectReturn ==
    /\ pc = "return"
    /\ net' = IF CountBytes THEN net - out.freed ELSE 0
    /\ out' = ZeroOut
    /\ pc' = IF req = NoReq THEN "run" ELSE "retry"
    /\ UNCHANGED <<heap, roots, req, view>>

\* The array in slot r has an element k (counted from 0) of the given kind.
HasElement(r, k, ref) ==
    /\ roots[r] # GC_NULL
    /\ heap.tag[roots[r]].ref = ref
    /\ k < ObjectLength(heap, roots[r])

SlotAddr(r, k) == roots[r] + Header + k

WriteElement(r, k, x) ==
    /\ heap' = [heap EXCEPT !.word[SlotAddr(r, k)] = x]
    /\ view' = ViewOf(heap', roots)
    /\ UNCHANGED <<roots, pc, req, out, net>>

\* AIASTORE on a reference array; the collector conjoins its write barrier.
AIAStore(r, k, s) ==
    /\ pc = "run"
    /\ HasElement(r, k, TRUE)
    /\ WriteElement(r, k, roots[s])

IAStore(r, k, v) ==
    /\ pc = "run"
    /\ HasElement(r, k, FALSE)
    /\ WriteElement(r, k, v)

AIALoad(r, k, s) ==
    /\ pc = "run"
    /\ HasElement(r, k, TRUE)
    /\ roots' = [roots EXCEPT ![s] = heap.word[SlotAddr(r, k)]]
    /\ view' = ViewOf(heap, roots')
    /\ UNCHANGED <<heap, pc, req, out, net>>

Pop(r) ==
    /\ pc = "run"
    /\ roots[r] # GC_NULL
    /\ roots' = [roots EXCEPT ![r] = GC_NULL]
    /\ view' = ViewOf(heap, roots')
    /\ UNCHANGED <<heap, pc, req, out, net>>

\* The instructions that need no collector: all but AIASTORE and NEWARRAY.
ProgramStep ==
    \/ \E r, s \in RootSlots, k \in Elements : AIALoad(r, k, s)
    \/ \E r \in RootSlots, k \in Elements, v \in Ints : IAStore(r, k, v)
    \/ \E r \in RootSlots : Pop(r)
-----------------------------------------------------------------------------
MutatorTypeOK ==
    /\ heap \in Heap
    /\ roots \in [RootSlots -> Addr]
    /\ req \in Request
    /\ net \in Int
    /\ DOMAIN out = DOMAIN ZeroOut /\ \A f \in DOMAIN out : out[f] \in Nat

\* What the program sees when it runs again is what it saw when it stopped: the
\* same arrays, with the same elements, behind every root, each of them once.
ViewPreserved ==
    pc \in {"run", "retry", "oom"} =>
        /\ view = ViewOf(heap, roots)
        /\ \A a, b \in LiveRefs : heap.tag[a].id = heap.tag[b].id => a = b

\* The program's instructions are those of AbstractHeap, and a collection, which
\* has no counterpart there, changes nothing that the program sees.
Abstract == INSTANCE AbstractHeap WITH stack <- view.stack, store <- view.store
RefinesAbstract == Abstract!Spec

\* Every root and every element of an allocated reference array is null or an
\* array that is allocated: the program can never follow a dangling reference.
\* The set arrays holds the allocated arrays.
ReferencesValid(arrays) ==
    /\ \A r \in RootSlots : roots[r] \in arrays \cup {GC_NULL}
    /\ \A a \in arrays : \A s \in RefSlots(heap, a) :
          heap.word[s] \in arrays \cup {GC_NULL}
=============================================================================
