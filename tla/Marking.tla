------------------------------- MODULE Marking -------------------------------
(***************************************************************************)
(* The mark phase, which mark_sweep.c and mark_compact.c hold in identical *)
(* copies: visit_root and visit_refs set the mark bit of an unmarked       *)
(* array and recurse into its reference slots. The C recursion is an       *)
(* explicit stack of frames here, one slot visited per step.               *)
(***************************************************************************)
EXTENDS Mutator

VARIABLES
    root,       \* the next root slot gc_host_enumerate_roots visits
    frames      \* the recursion: arrays being enumerated, innermost first

markVars == <<root, frames>>

Frame == [obj : Addr, next : Word]

MarkInit == root = 1 /\ frames = <<>>

\* Mutant: the recursive call is missing.
Visit_NoRecursion(v, below) ==
    /\ heap' = IF IsMarked(heap, v) THEN heap ELSE SetMarked(heap, v)
    /\ frames' = below

\* The visitor on a slot that holds v, with the frames below it. It tests no
\* null: offset 0 is the phantom header, whose mark is set and never cleared.
Visit(v, below) ==
    IF IsMarked(heap, v)
    THEN heap' = heap /\ frames' = below
    ELSE /\ heap' = SetMarked(heap, v)
         /\ frames' = <<[obj |-> v, next |-> v + Header]>> \o below

VisitRoot ==
    /\ pc = "mark"
    /\ frames = <<>>
    /\ root \in RootSlots
    /\ Visit(roots[root], <<>>)
    /\ root' = root + 1
    /\ UNCHANGED <<roots, pc, req, out, net, view>>

VisitRef ==
    /\ pc = "mark"
    /\ frames # <<>>
    /\ LET f == Head(frames)
       IN  IF f.next \in RefSlots(heap, f.obj)
           THEN Visit(heap.word[f.next],
                      <<[f EXCEPT !.next = f.next + 1]>> \o Tail(frames))
           ELSE heap' = heap /\ frames' = Tail(frames)
    /\ UNCHANGED <<root, roots, pc, req, out, net, view>>

\* Mutant: the enumeration stops before slot sp.
MarkDone_SkipsLastRoot == pc = "mark" /\ frames = <<>> /\ root >= NRoots

MarkDone == pc = "mark" /\ frames = <<>> /\ root > NRoots
-----------------------------------------------------------------------------
MarkTypeOK == /\ root \in 1 .. NRoots + 1
              /\ frames \in Seq(Frame)

Marked == {a \in Headers(heap, Base, heap.watermark) : IsMarked(heap, a)}

\* While marking, a slot already visited holds a marked array: what is not yet
\* marked is still found from the frames and the roots to come.
TriColour ==
    pc = "mark" =>
        /\ \A r \in RootSlots : r < root => IsMarked(heap, roots[r])
        /\ \A a \in Marked : \A s \in RefSlots(heap, a) :
              \/ IsMarked(heap, heap.word[s])
              \/ \E i \in DOMAIN frames : frames[i].obj = a /\ s >= frames[i].next
=============================================================================
