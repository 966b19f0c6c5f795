------------------------------ MODULE Baseline -------------------------------
(***************************************************************************)
(* gc/src/collectors/baseline.c: bump allocation until the budget is used  *)
(* up, and a collect that does nothing. gc_alloc does not know that: when  *)
(* the heap is full it still calls gc_collect and tries again.             *)
(***************************************************************************)
EXTENDS Mutator

vars == mutatorVars

Init == MutatorInit

\* baseline_alloc.
Alloc(length, is_ref, id) == RawAlloc(heap, length, is_ref, id)

NewArray(r, length, ref, id) == AllocFirst(r, length, ref, Alloc(length, ref, id))

Retry(id) == AllocRetry(Alloc(req.length, req.ref, id))

\* baseline_collect.
Collected_ClearsHeap == SetWatermark(heap, Base)     \* mutant
Collected == heap

Collect ==
    /\ pc = "collect"
    /\ pc' = "return"
    /\ heap' = Collected
    /\ UNCHANGED <<roots, req, out, net, view>>

CollectorStep == Collect \/ CollectReturn \/ \E id \in FreshIds : Retry(id)

Program ==
    \/ \E r \in RootSlots, length \in Lengths, ref \in Kinds, id \in FreshIds :
          NewArray(r, length, ref, id)
    \/ \E r, s \in RootSlots, k \in Elements : AIAStore(r, k, s)
    \/ ProgramStep
    \/ GCInstruction

Next == Program \/ CollectorStep

Spec == Init /\ [][Next]_vars /\ WF_vars(CollectorStep)
-----------------------------------------------------------------------------
TypeOK ==
    /\ MutatorTypeOK
    /\ pc \in {"run", "collect", "return", "retry", "oom"}

\* The control group: the heap only grows, nothing in it is ever reused, and no
\* reference dangles; the bytes counted as allocated are all of it.
HeapIntact ==
    /\ Tiled(heap, Base, heap.watermark)
    /\ ReferencesValid(Allocated(heap, Base, heap.watermark))
    /\ CountBytes => net = heap.watermark - Base

\* An allocation that failed once fails again: out of memory is terminal
\* (handoff 5.3), and it comes only when the bump room is too small.
OomTerminal ==
    [][pc = "retry" => /\ pc' = "oom"
                       /\ heap.watermark + Header + req.length > HeapEnd]_vars
=============================================================================
