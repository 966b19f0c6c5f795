--------------------------- MODULE MarkingTheorems ---------------------------
(***************************************************************************)
(* The mark phase, which mark-sweep and mark-compact share, and compact(), *)
(* which mark-compact and the generational collector share. Marking changes*)
(* marks only, and once its frames and roots are exhausted the marked      *)
(* arrays hold no reference to an unmarked one; compaction replaces every  *)
(* reference by the place its array takes, and sliding never overwrites an *)
(* array still to be moved.                                                *)
(***************************************************************************)
EXTENDS Compaction, MutatorTheorems, SequenceTheorems

USE DEF Header, Base, GC_NULL

-----------------------------------------------------------------------------
(* Sequences.                                                               *)

\* A sequence with one more element in front.
LEMMA ConsEffect ==
    ASSUME NEW S, NEW q \in Seq(S), NEW e \in S, NEW p, p = <<e>> \o q
    PROVE  /\ p \in Seq(S) /\ Len(p) = Len(q) + 1 /\ Len(q) \in Nat
           /\ DOMAIN p = 1 .. Len(p) /\ DOMAIN q = 1 .. Len(q)
           /\ p[1] = e
           /\ \A i \in DOMAIN q : i + 1 \in DOMAIN p /\ p[i + 1] = q[i]
           /\ \A i \in DOMAIN p : i = 1 \/ (i - 1 \in DOMAIN q /\ p[i] = q[i - 1])
  OBVIOUS

\* A sequence without its first element.
LEMMA TailEffect ==
    ASSUME NEW S, NEW q \in Seq(S), q # <<>>, NEW p, p = Tail(q)
    PROVE  /\ p \in Seq(S) /\ Len(p) = Len(q) - 1 /\ Len(q) \in Nat
           /\ DOMAIN p = 1 .. Len(p) /\ DOMAIN q = 1 .. Len(q)
           /\ 1 \in DOMAIN q /\ Head(q) = q[1] /\ Head(q) \in S
           /\ \A i \in DOMAIN p : i + 1 \in DOMAIN q /\ p[i] = q[i + 1]
           /\ \A i \in DOMAIN q : i = 1 \/ (i - 1 \in DOMAIN p /\ q[i] = p[i - 1])
<1>1. Len(q) \in Nat /\ DOMAIN q = 1 .. Len(q) /\ Len(q) > 0
  BY EmptySeq, LenProperties
<1>2. /\ p \in Seq(S) /\ Len(p) = Len(q) - 1 /\ Head(q) \in S
      /\ \A i \in 1 .. Len(p) : p[i] = q[i + 1]
  BY HeadTailProperties
<1>3. DOMAIN p = 1 .. Len(p)
  BY <1>2
<1>4. Head(q) = q[1]
  BY <1>1
<1>5. \A i \in DOMAIN p : i + 1 \in DOMAIN q /\ p[i] = q[i + 1]
  BY <1>1, <1>2, <1>3
<1>6. ASSUME NEW i \in DOMAIN q, i # 1
      PROVE  i - 1 \in DOMAIN p /\ q[i] = p[i - 1]
  BY <1>1, <1>2, <1>3, <1>6
<1> QED
  BY <1>1, <1>2, <1>3, <1>4, <1>5, <1>6

-----------------------------------------------------------------------------
(* Marks.                                                                   *)

\* g is h, but for its marks.
SameButMarks(h, g) ==
    /\ g \in Heap /\ g.word = h.word /\ g.watermark = h.watermark
    /\ \A x \in Addr : /\ g.tag[x].head = h.tag[x].head
                       /\ g.tag[x].ref = h.tag[x].ref
                       /\ g.tag[x].free = h.tag[x].free
                       /\ g.tag[x].fwd = h.tag[x].fwd
                       /\ g.tag[x].id = h.tag[x].id

\* gc_host_set_marked, gc_host_clear_marked.
LEMMA MarkEffect ==
    ASSUME NEW h \in Heap, NEW v \in Addr
    PROVE  /\ SameButMarks(h, SetMarked(h, v)) /\ IsMarked(SetMarked(h, v), v)
           /\ \A x \in Addr \ {v} : SetMarked(h, v).tag[x] = h.tag[x]
           /\ SameButMarks(h, ClearMarked(h, v)) /\ ~IsMarked(ClearMarked(h, v), v)
           /\ \A x \in Addr \ {v} : ClearMarked(h, v).tag[x] = h.tag[x]
<1>1. ASSUME NEW b \in BOOLEAN, NEW g, g = [h EXCEPT !.tag[v].marked = b]
      PROVE  /\ SameButMarks(h, g) /\ g.tag[v].marked = b
             /\ \A x \in Addr \ {v} : g.tag[x] = h.tag[x]
  <2>1. /\ h = [word |-> h.word, tag |-> h.tag, watermark |-> h.watermark]
        /\ h.word \in [Addr -> Word] /\ h.tag \in [Addr -> Tag] /\ h.watermark \in 0 .. HeapEnd
    BY DEF Heap
  <2> DEFINE t == [h.tag[v] EXCEPT !.marked = b]
             tags == [h.tag EXCEPT ![v] = t]
  <2>2. g = [word |-> h.word, tag |-> tags, watermark |-> h.watermark]
    BY <1>1, <2>1
  <2>3. t \in Tag /\ t.marked = b
        /\ t.head = h.tag[v].head /\ t.ref = h.tag[v].ref /\ t.free = h.tag[v].free
        /\ t.fwd = h.tag[v].fwd /\ t.id = h.tag[v].id
    BY <2>1 DEF Tag
  <2> HIDE DEF t
  <2>4. tags \in [Addr -> Tag] /\ tags[v] = t /\ \A x \in Addr \ {v} : tags[x] = h.tag[x]
    BY <2>1, <2>3
  <2> HIDE DEF tags
  <2>5. g \in Heap /\ g.word = h.word /\ g.watermark = h.watermark /\ g.tag = tags
    BY <2>1, <2>2, <2>4 DEF Heap
  <2> QED
    BY <2>3, <2>4, <2>5 DEF SameButMarks
<1>2. SetMarked(h, v).tag[v].marked /\ SameButMarks(h, SetMarked(h, v))
      /\ \A x \in Addr \ {v} : SetMarked(h, v).tag[x] = h.tag[x]
  BY <1>1 DEF SetMarked
<1>3. SetMarked(h, v).tag[v].marked = TRUE
  BY <1>1 DEF SetMarked
<1>4. ClearMarked(h, v).tag[v].marked = FALSE /\ SameButMarks(h, ClearMarked(h, v))
      /\ \A x \in Addr \ {v} : ClearMarked(h, v).tag[x] = h.tag[x]
  BY <1>1 DEF ClearMarked
<1> QED
  BY <1>2, <1>3, <1>4 DEF IsMarked

\* Chunks and slots do not depend on marks.
LEMMA MarksOnly ==
    ASSUME NEW h \in Heap, NEW g, SameButMarks(h, g), NEW start \in Nat, NEW end \in Nat
    PROVE  /\ Headers(g, start, end) = Headers(h, start, end)
           /\ Allocated(g, start, end) = Allocated(h, start, end)
           /\ Tiled(h, start, end) => Tiled(g, start, end)
           /\ \A x \in Addr : RefSlots(g, x) = RefSlots(h, x)
           /\ \A rs : WellFormed(h, rs, start, end) => WellFormed(g, rs, start, end)
<1>1. /\ Headers(g, start, end) = Headers(h, start, end)
      /\ Tiled(h, start, end) => Tiled(g, start, end)
  <2>1. \A x \in Addr : start <= x /\ x < end =>
              /\ g.tag[x].head <=> h.tag[x].head
              /\ h.tag[x].head => g.word[x] = h.word[x]
    BY DEF SameButMarks
  <2> QED
    BY <2>1, TiledSame, Zenon
<1>2. Allocated(g, start, end) = Allocated(h, start, end)
  BY <1>1 DEF Allocated, Headers, SameButMarks
<1>3. \A x \in Addr : RefSlots(g, x) = RefSlots(h, x)
  BY DEF RefSlots, SameButMarks
<1>4. ASSUME NEW rs, WellFormed(h, rs, start, end)
      PROVE  WellFormed(g, rs, start, end)
  <2>1. \A a \in Allocated(h, start, end) : a \in Addr
    BY DEF Allocated, Headers
  <2> QED
    BY <1>1, <1>2, <1>3, <1>4, <2>1 DEF WellFormed, SameButMarks
<1> QED
  BY <1>1, <1>2, <1>3, <1>4

-----------------------------------------------------------------------------
(* The mark phase.                                                          *)

Arrays == Allocated(heap, Base, heap.watermark)

\* The frame can still be returned to: it enumerates an array, or the phantom
\* header at 0, which has no slots.
FrameOk(h, f) ==
    /\ f.obj \in Allocated(h, Base, h.watermark) \cup {GC_NULL}
    /\ f.next >= f.obj + Header

\* A slot s of the array a is still to be visited from the frames q.
Pending(q, a, s) == \E i \in DOMAIN q : q[i].obj = a /\ s >= q[i].next

\* The heap between two visits: only arrays of the program are marked, and the
\* marked are closed under references, pending slots aside.
MarkInv ==
    /\ WellFormed(heap, roots, Base, heap.watermark)
    /\ ~heap.tag[GC_NULL].ref
    /\ root \in 1 .. NRoots + 1
    /\ frames \in Seq(Frame)
    /\ \A i \in DOMAIN frames : FrameOk(heap, frames[i])
    /\ Marked \subseteq Arrays
    /\ \A r \in RootSlots : r < root => IsMarked(heap, roots[r])
    /\ \A a \in Arrays : IsMarked(heap, a) => \A s \in RefSlots(heap, a) :
          IsMarked(heap, heap.word[s]) \/ Pending(frames, a, s)

NoMarks(h) == \A a \in Headers(h, Base, h.watermark) : ~h.tag[a].marked

\* Without marks, the mark phase begins with nothing visited.
LEMMA MarkBegins ==
    ASSUME WellFormed(heap, roots, Base, heap.watermark), ~heap.tag[GC_NULL].ref, NoMarks(heap),
           root = 1, frames = <<>>
    PROVE  MarkInv
<1>2. \A a \in Headers(heap, Base, heap.watermark) : ~IsMarked(heap, a)
  BY DEF NoMarks, IsMarked
<1>3. Marked \subseteq Arrays /\ \A a \in Arrays : ~IsMarked(heap, a)
  BY <1>2 DEF Marked, Arrays, Allocated
<1>4. root \in 1 .. NRoots + 1 /\ \A r \in RootSlots : ~(r < root)
  BY MutatorAssumption DEF MutatorAssumption, RootSlots
<1>5. frames \in Seq(Frame) /\ DOMAIN frames = {}
  OBVIOUS
<1> QED
  BY <1>3, <1>4, <1>5 DEF MarkInv

\* The visitor: the slot's array is marked afterwards, its own slots pending.
LEMMA VisitKeeps ==
    ASSUME WellFormed(heap, roots, Base, heap.watermark), ~heap.tag[GC_NULL].ref,
           Marked \subseteq Arrays,
           NEW v \in Arrays \cup {GC_NULL}, NEW below \in Seq(Frame),
           \A i \in DOMAIN below : FrameOk(heap, below[i]),
           \A a \in Arrays : IsMarked(heap, a) => \A s \in RefSlots(heap, a) :
              IsMarked(heap, heap.word[s]) \/ heap.word[s] = v \/ Pending(below, a, s),
           Visit(v, below), UNCHANGED roots
    PROVE  /\ SameButMarks(heap, heap') /\ IsMarked(heap', v)
           /\ \A x \in Addr : IsMarked(heap, x) => IsMarked(heap', x)
           /\ WellFormed(heap', roots', Base, heap'.watermark) /\ ~heap'.tag[GC_NULL].ref
           /\ frames' \in Seq(Frame)
           /\ \A i \in DOMAIN frames' : FrameOk(heap', frames'[i])
           /\ Marked' \subseteq Arrays' /\ Arrays' = Arrays
           /\ \A a \in Arrays' : IsMarked(heap', a) => \A s \in RefSlots(heap', a) :
                 IsMarked(heap', heap'.word[s]) \/ Pending(frames', a, s)
<1>0. /\ heap \in Heap /\ heap.watermark \in Nat /\ heap.watermark <= HeapEnd
      /\ Arrays \subseteq Addr /\ v \in Addr /\ v \in Nat
  BY WellFormedTypes DEF Arrays
<1>1. ASSUME NEW a \in Arrays, NEW s \in RefSlots(heap, a)
      PROVE  s \in Addr /\ heap.word[s] \in Arrays \cup {GC_NULL} /\ heap.word[s] \in Addr
             /\ s \in Nat /\ s >= a + Header
  BY SlotTypes DEF Arrays
<1>2. SameButMarks(heap, heap')
      /\ IsMarked(heap', v) /\ \A x \in Addr \ {v} : heap'.tag[x] = heap.tag[x]
  <2>1. heap' = heap \/ heap' = SetMarked(heap, v)
    BY DEF Visit
  <2>2. heap' = heap => IsMarked(heap', v)
    BY <1>0, MarkEffect DEF Visit
  <2>3. SameButMarks(heap, heap)
    BY <1>0 DEF SameButMarks
  <2>4. CASE heap' = heap
    BY <1>0, <2>2, <2>3, <2>4
  <2>5. CASE heap' = SetMarked(heap, v)
    <3>1. /\ SameButMarks(heap, SetMarked(heap, v)) /\ IsMarked(SetMarked(heap, v), v)
          /\ \A x \in Addr \ {v} : SetMarked(heap, v).tag[x] = heap.tag[x]
      BY <1>0, MarkEffect
    <3> QED
      BY <2>5, <3>1
  <2> QED
    BY <2>1, <2>4, <2>5
<1>3. \A x \in Addr : IsMarked(heap, x) => IsMarked(heap', x)
  BY <1>2 DEF IsMarked
<1>4. /\ heap'.word = heap.word /\ heap'.watermark = heap.watermark
      /\ Headers(heap', Base, heap'.watermark) = Headers(heap, Base, heap.watermark)
      /\ Arrays' = Arrays
      /\ \A x \in Addr : RefSlots(heap', x) = RefSlots(heap, x)
      /\ WellFormed(heap', roots', Base, heap'.watermark)
      /\ ~heap'.tag[GC_NULL].ref
  <2>1. heap'.watermark = heap.watermark /\ heap'.word = heap.word
    BY <1>2 DEF SameButMarks
  <2>2. GC_NULL \in Addr
    BY WellFormedTypes
  <2>3. /\ Headers(heap', Base, heap.watermark) = Headers(heap, Base, heap.watermark)
        /\ Allocated(heap', Base, heap.watermark) = Allocated(heap, Base, heap.watermark)
        /\ \A x \in Addr : RefSlots(heap', x) = RefSlots(heap, x)
        /\ WellFormed(heap', roots, Base, heap.watermark)
    BY <1>0, <1>2, MarksOnly
  <2> QED
    BY <1>2, <2>1, <2>2, <2>3 DEF Arrays, SameButMarks
<1>5. Marked' \subseteq Arrays'
  <2> SUFFICES ASSUME NEW a \in Marked' PROVE a \in Arrays
    BY <1>4
  <2>1. a \in Headers(heap, Base, heap.watermark) /\ IsMarked(heap', a) /\ a \in Addr /\ a # 0
    BY <1>4, Numbers DEF Marked, Headers
  <2>2. CASE a = v
    BY <2>1, <2>2
  <2>3. CASE a # v
    BY <2>1, <2>3, <1>2 DEF Marked, IsMarked
  <2> QED
    BY <2>2, <2>3
<1>6. \A f \in Frame : FrameOk(heap, f) => FrameOk(heap', f)
  BY <1>4 DEF FrameOk, Arrays
<1>7. CASE IsMarked(heap, v)
  <2>1. heap' = heap /\ frames' = below
    BY <1>7 DEF Visit
  <2> QED
    BY <1>2, <1>3, <1>4, <1>5, <1>7, <2>1
<1>8. CASE ~IsMarked(heap, v)
  <2> DEFINE f == [obj |-> v, next |-> v + Header]
  <2>1. frames' = <<f>> \o below
    BY <1>8 DEF Visit
  <2>2. f \in Frame /\ FrameOk(heap, f) /\ f.obj = v /\ f.next = v + Header
    BY <1>0, Numbers, HeapAssumption DEF Frame, FrameOk, Arrays, Addr, Word, HeapAssumption
  <2> HIDE DEF f
  <2>3. /\ frames' \in Seq(Frame) /\ 1 \in DOMAIN frames' /\ frames'[1] = f
        /\ \A i \in DOMAIN below : i + 1 \in DOMAIN frames' /\ frames'[i + 1] = below[i]
        /\ \A i \in DOMAIN frames' : i = 1 \/ (i - 1 \in DOMAIN below /\ frames'[i] = below[i - 1])
    BY <2>1, <2>2, ConsEffect
  <2>4. \A i \in DOMAIN below : below[i] \in Frame
    BY ElementOfSeq, LenProperties
  <2>5. \A i \in DOMAIN frames' : FrameOk(heap', frames'[i])
    BY <2>2, <2>3, <2>4, <1>6
  <2>6. ASSUME NEW a \in Arrays, IsMarked(heap', a), NEW s \in RefSlots(heap, a)
        PROVE  IsMarked(heap', heap.word[s]) \/ Pending(frames', a, s)
    <3>1. CASE a = v
      BY <3>1, <2>2, <2>3, <1>1 DEF Pending
    <3>2. CASE a # v
      <4>1. IsMarked(heap, a)
        BY <3>2, <2>6, <1>0, <1>2 DEF IsMarked
      <4>2. CASE IsMarked(heap, heap.word[s])
        BY <4>2, <1>1, <1>3
      <4>3. CASE heap.word[s] = v
        BY <4>3, <1>2
      <4>4. CASE Pending(below, a, s)
        BY <4>4, <2>3 DEF Pending
      <4> QED
        BY <4>1, <4>2, <4>3, <4>4
    <3> QED
      BY <3>1, <3>2
  <2> QED
    BY <1>0, <1>2, <1>3, <1>4, <1>5, <2>3, <2>5, <2>6
<1> QED
  BY <1>7, <1>8

\* A root is visited: every earlier one is marked.
LEMMA VisitRootKeeps == MarkInv /\ VisitRoot => MarkInv' /\ SameButMarks(heap, heap')
<1> SUFFICES ASSUME MarkInv, VisitRoot PROVE MarkInv' /\ SameButMarks(heap, heap')
  OBVIOUS
<1>1. /\ root \in RootSlots /\ Visit(roots[root], <<>>) /\ root' = root + 1
      /\ UNCHANGED roots /\ frames = <<>>
  BY DEF VisitRoot
<1>2. /\ WellFormed(heap, roots, Base, heap.watermark) /\ ~heap.tag[GC_NULL].ref
      /\ Marked \subseteq Arrays /\ root \in 1 .. NRoots + 1
  BY DEF MarkInv
<1>3. roots[root] \in Arrays \cup {GC_NULL}
      /\ roots \in [RootSlots -> Arrays \cup {GC_NULL}] /\ Arrays \subseteq Addr /\ GC_NULL \in Addr
  BY <1>1, <1>2, WellFormedTypes DEF WellFormed, Arrays
<1>4. <<>> \in Seq(Frame) /\ DOMAIN <<>> = {}
  BY EmptySeq
<1>5. \A a \in Arrays : IsMarked(heap, a) => \A s \in RefSlots(heap, a) :
         IsMarked(heap, heap.word[s]) \/ heap.word[s] = roots[root] \/ Pending(<<>>, a, s)
  BY <1>1 DEF MarkInv
<1>6. /\ SameButMarks(heap, heap') /\ IsMarked(heap', roots[root])
      /\ \A x \in Addr : IsMarked(heap, x) => IsMarked(heap', x)
      /\ WellFormed(heap', roots', Base, heap'.watermark) /\ ~heap'.tag[GC_NULL].ref
      /\ frames' \in Seq(Frame)
      /\ \A i \in DOMAIN frames' : FrameOk(heap', frames'[i])
      /\ Marked' \subseteq Arrays'
      /\ \A a \in Arrays' : IsMarked(heap', a) => \A s \in RefSlots(heap', a) :
            IsMarked(heap', heap'.word[s]) \/ Pending(frames', a, s)
  BY <1>1, <1>2, <1>3, <1>4, <1>5, VisitKeeps
<1>7. \A r \in RootSlots : r < root' => IsMarked(heap', roots'[r])
  <2> SUFFICES ASSUME NEW r \in RootSlots, r < root + 1 PROVE IsMarked(heap', roots[r])
    BY <1>1
  <2>1. CASE r = root
    BY <2>1, <1>6
  <2>2. CASE r # root
    <3>1. r < root
      BY <2>2, <1>2, MutatorAssumption DEF RootSlots, MutatorAssumption
    <3>2. IsMarked(heap, roots[r]) /\ roots[r] \in Addr
      BY <3>1, <1>3 DEF MarkInv
    <3> QED
      BY <3>2, <1>6
  <2> QED
    BY <2>1, <2>2
<1>8. root' \in 1 .. NRoots + 1
  BY <1>1, MutatorAssumption DEF RootSlots, MutatorAssumption
<1> QED
  BY <1>6, <1>7, <1>8 DEF MarkInv

\* A slot is visited, or the frame of an exhausted array is left.
LEMMA VisitRefKeeps == MarkInv /\ VisitRef => MarkInv' /\ SameButMarks(heap, heap')
<1> SUFFICES ASSUME MarkInv, VisitRef PROVE MarkInv' /\ SameButMarks(heap, heap')
  OBVIOUS
<1> DEFINE f == Head(frames)
           rest == Tail(frames)
           g == [f EXCEPT !.next = f.next + 1]
           below == <<g>> \o rest
<1>1. /\ WellFormed(heap, roots, Base, heap.watermark) /\ ~heap.tag[GC_NULL].ref
      /\ Marked \subseteq Arrays /\ root \in 1 .. NRoots + 1 /\ frames \in Seq(Frame)
      /\ \A i \in DOMAIN frames : FrameOk(heap, frames[i])
      /\ \A r \in RootSlots : r < root => IsMarked(heap, roots[r])
      /\ \A a \in Arrays : IsMarked(heap, a) => \A s \in RefSlots(heap, a) :
            IsMarked(heap, heap.word[s]) \/ Pending(frames, a, s)
  BY DEF MarkInv
<1>2. frames # <<>> /\ root' = root /\ roots' = roots
  BY DEF VisitRef
<1>3. /\ rest \in Seq(Frame) /\ f \in Frame /\ frames[1] = f /\ 1 \in DOMAIN frames
      /\ \A i \in DOMAIN rest : i + 1 \in DOMAIN frames /\ rest[i] = frames[i + 1]
      /\ \A i \in DOMAIN frames : i = 1 \/ (i - 1 \in DOMAIN rest /\ frames[i] = rest[i - 1])
  BY <1>1, <1>2, TailEffect
<1>4. /\ heap \in Heap /\ Arrays \subseteq Addr /\ roots \in [RootSlots -> Addr]
      /\ heap.watermark <= HeapEnd
  BY <1>1, WellFormedTypes DEF Arrays
<1>5. /\ FrameOk(heap, f) /\ f.obj \in Addr /\ f.obj \in Nat /\ f.next \in Nat
      /\ heap.word[f.obj] \in Nat
  BY <1>1, <1>3, <1>4, Numbers, WordTypes DEF Frame
<1>6. CASE f.next \in RefSlots(heap, f.obj)
  <2>1. Visit(heap.word[f.next], below)
    BY <1>6 DEF VisitRef
  <2>2. f.obj \in Arrays
    BY <1>1, <1>5, <1>6 DEF FrameOk, RefSlots, Arrays
  <2>3. heap.word[f.next] \in Arrays \cup {GC_NULL}
    BY <1>1, <1>6, <2>2 DEF WellFormed, Arrays
  <2>4. f.next < HeapEnd
    <3>1. f.next \in Addr
      BY <1>1, <1>6, <2>2, SlotTypes DEF Arrays
    <3> QED
      BY <3>1, Numbers DEF Addr
  <2>5. g \in Frame /\ g.obj = f.obj /\ g.next = f.next + 1
    <3>1. f.next + 1 \in Word
      BY <2>4, <1>5, Numbers, HeapAssumption DEF Word, HeapAssumption
    <3>2. f = [obj |-> f.obj, next |-> f.next] /\ f.obj \in Addr
      BY <1>3, <1>5 DEF Frame
    <3> QED
      BY <3>1, <3>2 DEF Frame
  <2>6. FrameOk(heap, g)
    BY <1>5, <2>5 DEF FrameOk
  <2> HIDE DEF f, g, rest
  <2>7. /\ below \in Seq(Frame) /\ 1 \in DOMAIN below /\ below[1] = g
        /\ \A i \in DOMAIN rest : i + 1 \in DOMAIN below /\ below[i + 1] = rest[i]
        /\ \A i \in DOMAIN below : i = 1 \/ (i - 1 \in DOMAIN rest /\ below[i] = rest[i - 1])
    BY <1>3, <2>5, ConsEffect
  <2> HIDE DEF below
  <2>8. \A i \in DOMAIN below : FrameOk(heap, below[i])
    BY <2>6, <2>7, <1>1, <1>3, ZenonT(30)
  <2>9. ASSUME NEW a \in Arrays, IsMarked(heap, a), NEW s \in RefSlots(heap, a)
        PROVE  IsMarked(heap, heap.word[s]) \/ heap.word[s] = heap.word[f.next]
               \/ Pending(below, a, s)
    <3>0. s \in Nat
      BY <1>4, Numbers, WordTypes DEF RefSlots
    <3>1. CASE IsMarked(heap, heap.word[s])
      BY <3>1
    <3>2. CASE ~IsMarked(heap, heap.word[s])
      <4>1. PICK i \in DOMAIN frames : frames[i].obj = a /\ s >= frames[i].next
        BY <3>2, <2>9, <1>1 DEF Pending
      <4>2. CASE i = 1
        <5>1. s >= f.next /\ f.obj = a
          BY <4>1, <4>2, <1>3
        <5>2. s = f.next \/ s >= g.next
          BY <5>1, <3>0, <1>5, <2>5
        <5> QED
          BY <5>1, <5>2, <2>5, <2>7 DEF Pending
      <4>3. CASE i # 1
        <5>1. i - 1 \in DOMAIN rest /\ frames[i] = rest[i - 1]
          BY <4>3, <1>3
        <5> QED
          BY <5>1, <4>1, <2>7 DEF Pending
      <4> QED
        BY <4>2, <4>3
    <3> QED
      BY <3>1, <3>2
  <2>10. /\ SameButMarks(heap, heap')
         /\ \A x \in Addr : IsMarked(heap, x) => IsMarked(heap', x)
         /\ WellFormed(heap', roots', Base, heap'.watermark) /\ ~heap'.tag[GC_NULL].ref
         /\ frames' \in Seq(Frame)
         /\ \A i \in DOMAIN frames' : FrameOk(heap', frames'[i])
         /\ Marked' \subseteq Arrays'
         /\ \A a \in Arrays' : IsMarked(heap', a) => \A s \in RefSlots(heap', a) :
               IsMarked(heap', heap'.word[s]) \/ Pending(frames', a, s)
    BY <2>1, <2>3, <2>7, <2>8, <2>9, <1>1, <1>2, VisitKeeps
  <2> QED
    BY <2>10, <1>1, <1>2, <1>4 DEF MarkInv
<1>7. CASE f.next \notin RefSlots(heap, f.obj)
  <2>1. heap' = heap /\ frames' = rest
    BY <1>7 DEF VisitRef
  <2>2. \A i \in DOMAIN rest : FrameOk(heap, rest[i])
    BY <1>1, <1>3
  <2>3. ASSUME NEW a \in Arrays, IsMarked(heap, a), NEW s \in RefSlots(heap, a)
        PROVE  IsMarked(heap, heap.word[s]) \/ Pending(rest, a, s)
    <3>1. CASE IsMarked(heap, heap.word[s])
      BY <3>1
    <3>2. CASE ~IsMarked(heap, heap.word[s])
      <4>1. PICK i \in DOMAIN frames : frames[i].obj = a /\ s >= frames[i].next
        BY <3>2, <2>3, <1>1 DEF Pending
      <4>2. CASE i = 1
        <5>1. s >= f.next /\ f.obj = a /\ f.next >= a + 2
          BY <4>1, <4>2, <1>3, <1>5 DEF FrameOk
        <5>2. heap.tag[a].ref /\ s \in (a + 2) .. (a + 2 + heap.word[a] - 1)
          BY <2>3 DEF RefSlots
        <5>3. f.next \in RefSlots(heap, f.obj)
          BY <5>1, <5>2, <1>5 DEF RefSlots
        <5> QED
          BY <5>3, <1>7
      <4>3. CASE i # 1
        <5>1. i - 1 \in DOMAIN rest /\ frames[i] = rest[i - 1]
          BY <4>3, <1>3
        <5> QED
          BY <5>1, <4>1 DEF Pending
      <4> QED
        BY <4>2, <4>3
    <3> QED
      BY <3>1, <3>2
  <2>4. Marked' = Marked /\ Arrays' = Arrays
    BY <2>1 DEF Marked, Arrays
  <2> QED
    <3>1. SameButMarks(heap, heap')
      BY <2>1, <1>4 DEF SameButMarks
    <3> QED
      BY <3>1, <2>1, <2>2, <2>3, <2>4, <1>1, <1>2, <1>3 DEF MarkInv
<1> QED
  BY <1>6, <1>7

\* When the roots and the frames are exhausted, the marked arrays are all the
\* program can still reach: they are closed under references.
LEMMA MarkDoneCloses ==
    ASSUME MarkInv, MarkDone
    PROVE  /\ \A r \in RootSlots : roots[r] \in Marked \cup {GC_NULL}
           /\ \A a \in Marked : \A s \in RefSlots(heap, a) : heap.word[s] \in Marked \cup {GC_NULL}
<1>1. root > NRoots /\ frames = <<>>
  BY DEF MarkDone
<1>2. \A a \in Arrays : IsMarked(heap, a) => a \in Marked
  BY DEF Arrays, Marked, Allocated
<1>3. ASSUME NEW r \in RootSlots PROVE roots[r] \in Marked \cup {GC_NULL}
  <2>1. r < root
    BY <1>1, MutatorAssumption DEF MarkInv, RootSlots, MutatorAssumption
  <2>2. IsMarked(heap, roots[r]) /\ roots[r] \in Arrays \cup {GC_NULL}
    BY <2>1 DEF MarkInv, WellFormed, Arrays
  <2> QED
    BY <2>2, <1>2
<1>4. ASSUME NEW a \in Marked, NEW s \in RefSlots(heap, a)
      PROVE  heap.word[s] \in Marked \cup {GC_NULL}
  <2>1. a \in Arrays /\ IsMarked(heap, a)
    BY DEF MarkInv, Marked
  <2>2. heap.word[s] \in Arrays \cup {GC_NULL}
    BY <2>1 DEF MarkInv, WellFormed, Arrays
  <2>3. ~Pending(frames, a, s)
    BY <1>1 DEF Pending
  <2>4. IsMarked(heap, heap.word[s])
    BY <2>1, <2>3 DEF MarkInv
  <2> QED
    BY <2>2, <2>4, <1>2
<1> QED
  BY <1>3, <1>4

\* A visit changes nothing that the program sees.
LEMMA MarkSees ==
    ASSUME WellFormed(heap, roots, Base, heap.watermark), Seen, SameButMarks(heap, heap'),
           UNCHANGED <<roots, view>>
    PROVE  Seen' /\ Live(heap', roots') = Live(heap, roots)
<1>1. Readable(heap, Live(heap, roots)) /\ roots \in [RootSlots -> Addr]
  BY WellFormedLive
<1>2. \A a \in Live(heap, roots) : Unmoved(heap, heap', a)
  <2>1. Live(heap, roots) \subseteq Addr
    BY <1>1, LiveHolds
  <2> QED
    BY <2>1 DEF Unmoved, SameButMarks
<1>3. /\ ViewOf(heap', roots) = ViewOf(heap, roots) /\ Distinct(heap', Live(heap', roots))
      /\ Live(heap', roots) = Live(heap, roots)
  BY <1>1, <1>2, UnmovedView DEF Seen
<1> QED
  BY <1>3 DEF Seen

\* Only what the program reaches is marked, and only that is enumerated.
MarkPrecise ==
    /\ Marked \subseteq Live(heap, roots)
    /\ \A i \in DOMAIN frames : frames[i].obj \in Live(heap, roots) \cup {GC_NULL}

\* A visit to a slot of the set L marks and enumerates nothing else.
LEMMA VisitWithin ==
    ASSUME heap \in Heap, NEW L, Marked \subseteq L,
           NEW v \in Addr, v \in L \cup {GC_NULL}, NEW below \in Seq(Frame),
           \A i \in DOMAIN below : below[i].obj \in L \cup {GC_NULL},
           Visit(v, below)
    PROVE  /\ Marked' \subseteq L
           /\ \A i \in DOMAIN frames' : frames'[i].obj \in L \cup {GC_NULL}
<1>0. heap.watermark \in Nat /\ v \in Nat
  BY Numbers DEF Heap
<1>1. CASE IsMarked(heap, v)
  BY <1>1 DEF Visit, Marked
<1>2. CASE ~IsMarked(heap, v)
  <2> DEFINE f == [obj |-> v, next |-> v + Header]
  <2>1. heap' = SetMarked(heap, v) /\ frames' = <<f>> \o below
    BY <1>2 DEF Visit
  <2>2. SameButMarks(heap, heap') /\ \A x \in Addr \ {v} : heap'.tag[x] = heap.tag[x]
    BY <2>1, MarkEffect
  <2>3. Headers(heap', Base, heap'.watermark) = Headers(heap, Base, heap.watermark)
    BY <1>0, <2>2, MarksOnly DEF SameButMarks
  <2>4. ASSUME NEW a \in Marked' PROVE a \in L
    <3>1. a \in Headers(heap, Base, heap.watermark) /\ IsMarked(heap', a) /\ a \in Addr /\ a # GC_NULL
      BY <2>3, Numbers DEF Marked, Headers
    <3> QED
      BY <3>1, <2>2 DEF Marked, IsMarked
  <2>5. f \in Frame /\ f.obj = v
    BY <1>0, Numbers, HeapAssumption DEF Frame, Addr, Word, HeapAssumption
  <2> HIDE DEF f
  <2>6. ASSUME NEW i \in DOMAIN frames' PROVE frames'[i].obj \in L \cup {GC_NULL}
    <3>1. frames'[1] = f /\ (i = 1 \/ (i - 1 \in DOMAIN below /\ frames'[i] = below[i - 1]))
      BY <2>1, <2>5, ConsEffect
    <3> QED
      BY <2>5, <3>1
  <2> QED
    BY <2>4, <2>6
<1> QED
  BY <1>1, <1>2

LEMMA VisitPrecise ==
    ASSUME MarkInv, MarkPrecise, Seen, VisitRoot \/ VisitRef
    PROVE  MarkPrecise'
<1> DEFINE L == Live(heap, roots)
<1>1. /\ WellFormed(heap, roots, Base, heap.watermark) /\ frames \in Seq(Frame)
      /\ Marked \subseteq L /\ \A i \in DOMAIN frames : frames[i].obj \in L \cup {GC_NULL}
  BY DEF MarkInv, MarkPrecise
<1>2. /\ heap \in Heap /\ roots \in [RootSlots -> Addr] /\ GC_NULL \in Addr
      /\ L \subseteq Arrays /\ Arrays \subseteq Addr
  BY <1>1, WellFormedTypes, WellFormedLive DEF Arrays
<1>3. /\ \A r \in RootSlots : roots[r] \in L \cup {GC_NULL}
      /\ \A a \in L : \A s \in RefSlots(heap, a) : s \in Addr /\ heap.word[s] \in Addr =>
            heap.word[s] \in L \cup {GC_NULL}
  BY <1>2, LiveHolds
<1>4. SameButMarks(heap, heap') /\ UNCHANGED <<roots, view>>
  BY VisitRootKeeps, VisitRefKeeps DEF VisitRoot, VisitRef
<1>5. Live(heap', roots') = L
  BY <1>1, <1>4, MarkSees
<1> HIDE DEF L
<1>6. CASE VisitRoot
  <2>1. root \in RootSlots /\ Visit(roots[root], <<>>)
    BY <1>6 DEF VisitRoot
  <2>2. roots[root] \in Addr /\ roots[root] \in L \cup {GC_NULL}
    BY <1>2, <1>3, <2>1
  <2>3. <<>> \in Seq(Frame) /\ DOMAIN <<>> = {}
    BY EmptySeq
  <2>4. /\ Marked' \subseteq L /\ \A i \in DOMAIN frames' : frames'[i].obj \in L \cup {GC_NULL}
    BY <1>1, <1>2, <2>1, <2>2, <2>3, VisitWithin
  <2> QED
    BY <1>5, <2>4 DEF MarkPrecise
<1>7. CASE VisitRef
  <2> DEFINE f == Head(frames)
             rest == Tail(frames)
             g == [f EXCEPT !.next = f.next + 1]
             below == <<g>> \o rest
  <2>1. frames # <<>>
    BY <1>7 DEF VisitRef
  <2>2. /\ rest \in Seq(Frame) /\ f \in Frame /\ frames[1] = f /\ 1 \in DOMAIN frames
        /\ \A i \in DOMAIN rest : i + 1 \in DOMAIN frames /\ rest[i] = frames[i + 1]
    BY <1>1, <2>1, TailEffect
  <2>3. f.obj \in L \cup {GC_NULL} /\ \A i \in DOMAIN rest : rest[i].obj \in L \cup {GC_NULL}
    BY <1>1, <2>2
  <2>4. CASE f.next \in RefSlots(heap, f.obj)
    <3>1. Visit(heap.word[f.next], below)
      BY <1>7, <2>4 DEF VisitRef
    <3>2. f.obj \in L
      BY <2>3, <2>4 DEF RefSlots, MarkInv
    <3>3. /\ f.next \in Addr /\ heap.word[f.next] \in Addr
      BY <1>1, <1>2, <2>4, <3>2, SlotTypes DEF Arrays
    <3>4. heap.word[f.next] \in L \cup {GC_NULL}
      BY <1>3, <2>4, <3>2, <3>3
    <3>5. g \in Frame /\ g.obj = f.obj
      <4>1. f.next \in Nat /\ f.next < HeapEnd
        BY <3>3, Numbers DEF Addr
      <4>2. f.next + 1 \in Word
        BY <4>1, Numbers, HeapAssumption DEF Word, HeapAssumption
      <4>3. f = [obj |-> f.obj, next |-> f.next] /\ f.obj \in Addr
        BY <2>2 DEF Frame
      <4> QED
        BY <4>2, <4>3 DEF Frame
    <3> HIDE DEF f, g, rest
    <3>6. /\ below \in Seq(Frame) /\ below[1] = g
          /\ \A i \in DOMAIN below : i = 1 \/ (i - 1 \in DOMAIN rest /\ below[i] = rest[i - 1])
      BY <2>2, <3>5, ConsEffect
    <3> HIDE DEF below
    <3>7. \A i \in DOMAIN below : below[i].obj \in L \cup {GC_NULL}
      BY <2>3, <3>5, <3>6, ZenonT(30)
    <3>8. /\ Marked' \subseteq L /\ \A i \in DOMAIN frames' : frames'[i].obj \in L \cup {GC_NULL}
      BY <1>1, <1>2, <3>1, <3>3, <3>4, <3>6, <3>7, VisitWithin
    <3> QED
      BY <1>5, <3>8 DEF MarkPrecise
  <2>5. CASE f.next \notin RefSlots(heap, f.obj)
    <3>1. heap' = heap /\ frames' = rest
      BY <1>7, <2>5 DEF VisitRef
    <3>2. Marked' = Marked
      BY <3>1 DEF Marked
    <3> QED
      BY <1>1, <1>5, <2>3, <3>1, <3>2 DEF MarkPrecise
  <2> QED
    BY <2>4, <2>5
<1> QED
  BY <1>6, <1>7

\* The finished mark phase has marked exactly what the program reaches.
LEMMA MarkDoneExact ==
    ASSUME MarkInv, MarkPrecise, MarkDone
    PROVE  Marked = Live(heap, roots)
<1>1. /\ \A r \in RootSlots : roots[r] \in Marked \cup {GC_NULL}
      /\ \A a \in Marked : \A s \in RefSlots(heap, a) : heap.word[s] \in Marked \cup {GC_NULL}
  BY MarkDoneCloses
<1>2. Marked \subseteq Addr
  BY DEF Marked, Headers
<1>3. Live(heap, roots) \subseteq Marked
  BY <1>1, <1>2, LiveWithin
<1> QED
  BY <1>3 DEF MarkPrecise

\* What the runs check of the mark phase.
LEMMA MarkInvMeans ==
    ASSUME pc = "mark" => MarkInv
    PROVE  TriColour
<1> SUFFICES ASSUME MarkInv PROVE TriColour
  BY DEF TriColour
<1>1. \A a \in Marked : a \in Arrays /\ IsMarked(heap, a)
  BY DEF MarkInv, Marked
<1> QED
  BY <1>1 DEF MarkInv, TriColour, Pending

-----------------------------------------------------------------------------
(* Compaction. compute_locations gives the surviving arrays places that     *)
(* tile the heap from its start, in the order of the arrays; the two walks  *)
(* that follow rewrite references to these places and move the arrays there.*)

\* The marked chunks of [start, end).
Survivors(h, start, end) == {a \in Headers(h, start, end) : IsMarked(h, a)}

\* The place the map f gives an array, and those it gives a set of arrays.
Place(f, a)  == f[a - Base]
Places(f, S) == {Place(f, a) : a \in S}

\* The places of the arrays of S tile [start, end) in the arrays' order, and no
\* array's place is above the array.
Planned(h, f, S, start, end) ==
    /\ start \in Nat /\ end \in Nat /\ start <= end
    /\ start \in Places(f, S) \cup {end}
    /\ \A a \in S :
          /\ Place(f, a) \in Nat /\ start <= Place(f, a) /\ Place(f, a) <= a
          /\ Place(f, a) + ObjectWords(h, a) \in Places(f, S) \cup {end}
          /\ Place(f, a) + ObjectWords(h, a) <= end
    /\ \A a, b \in S : a < b => Place(f, a) + ObjectWords(h, a) <= Place(f, b)

\* A plan reads the headers of its arrays only.
LEMMA PlanSame ==
    ASSUME NEW h, NEW g, NEW f, NEW S, NEW start, NEW end, Planned(h, f, S, start, end),
           \A a \in S : g.word[a] = h.word[a]
    PROVE  Planned(g, f, S, start, end)
<1>1. \A a \in S : ObjectWords(g, a) = ObjectWords(h, a)
  BY DEF ObjectWords
<1> QED
  BY <1>1 DEF Planned

\* The next array above those planned is placed where their places end.
LEMMA PlanGrows ==
    ASSUME NEW h \in Heap, NEW f \in [Addr -> Word], NEW S, S \subseteq Addr,
           NEW start, NEW end, Planned(h, f, S, start, end), NEW p \in Addr, p >= Base,
           \A a \in S : a >= Base /\ a < p, end <= p,
           NEW g, g = [f EXCEPT ![p - Base] = end]
    PROVE  Planned(h, g, S \cup {p}, start, end + ObjectWords(h, p))
<1> DEFINE P == Places(f, S)
           Q == Places(g, S \cup {p})
           n == end + ObjectWords(h, p)
<1>1. /\ start \in Nat /\ end \in Nat /\ start <= end /\ start \in P \cup {end}
      /\ \A a \in S :
            /\ Place(f, a) \in Nat /\ start <= Place(f, a) /\ Place(f, a) <= a
            /\ Place(f, a) + ObjectWords(h, a) \in P \cup {end}
            /\ Place(f, a) + ObjectWords(h, a) <= end
      /\ \A a, b \in S : a < b => Place(f, a) + ObjectWords(h, a) <= Place(f, b)
  BY DEF Planned
<1>2. p \in Nat /\ p - Base \in Addr /\ \A a \in S : a \in Nat /\ a - Base \in Addr /\ a - Base # p - Base
  BY Numbers DEF Addr
<1>3. Place(g, p) = end /\ \A a \in S : Place(g, a) = Place(f, a)
  BY <1>2 DEF Place
<1>4. Q = P \cup {end}
  BY <1>3 DEF Places
<1>5. \A a \in S \cup {p} : ObjectWords(h, a) \in Nat /\ ObjectWords(h, a) >= 2
  BY ChunkSize
<1>6. n = end + ObjectWords(h, p) /\ n \in Nat /\ start <= n /\ end <= n
  BY <1>1, <1>5
<1> HIDE DEF P, Q, n
<1>7. \A a \in S \cup {p} :
            /\ Place(g, a) \in Nat /\ start <= Place(g, a) /\ Place(g, a) <= a
            /\ Place(g, a) + ObjectWords(h, a) \in Q \cup {n}
            /\ Place(g, a) + ObjectWords(h, a) <= n
  <2>1. ASSUME NEW a \in S
        PROVE  /\ Place(g, a) \in Nat /\ start <= Place(g, a) /\ Place(g, a) <= a
               /\ Place(g, a) + ObjectWords(h, a) \in Q \cup {n}
               /\ Place(g, a) + ObjectWords(h, a) <= n
    <3>1. Place(g, a) \in Nat /\ start <= Place(g, a) /\ Place(g, a) <= a
      BY <1>1, <1>3
    <3>2. Place(g, a) + ObjectWords(h, a) \in Q /\ Place(g, a) + ObjectWords(h, a) <= end
      BY <1>1, <1>3, <1>4
    <3> QED
      BY <3>1, <3>2, <1>1, <1>5, <1>6
  <2>2. /\ Place(g, p) \in Nat /\ start <= Place(g, p) /\ Place(g, p) <= p
        /\ Place(g, p) + ObjectWords(h, p) \in Q \cup {n}
        /\ Place(g, p) + ObjectWords(h, p) <= n
    BY <1>1, <1>3, <1>6
  <2> QED
    BY <2>1, <2>2
<1>8. ASSUME NEW a \in S \cup {p}, NEW b \in S \cup {p}, a < b
      PROVE  Place(g, a) + ObjectWords(h, a) <= Place(g, b)
  <2>1. a \in S
    BY <1>2, <1>8
  <2>2. CASE b \in S
    BY <2>1, <2>2, <1>1, <1>3, <1>8
  <2>3. CASE b = p
    BY <2>1, <2>3, <1>1, <1>3
  <2> QED
    BY <2>2, <2>3
<1> QED
  BY <1>1, <1>4, <1>6, <1>7, <1>8 DEF Planned, Q, n

\* The first array of a plan is placed where the plan starts; the plan of the
\* others starts where its place ends.
LEMMA PlanFirst ==
    ASSUME NEW h \in Heap, NEW f, NEW S, S \subseteq Addr,
           NEW start, NEW end, Planned(h, f, S, start, end), NEW p \in S, \A a \in S : p <= a
    PROVE  /\ Place(f, p) = start /\ start + ObjectWords(h, p) <= end
<1>1. /\ start \in Nat /\ end \in Nat /\ start <= end /\ start \in Places(f, S) \cup {end}
      /\ \A a \in S :
            /\ Place(f, a) \in Nat /\ start <= Place(f, a) /\ Place(f, a) <= a
            /\ Place(f, a) + ObjectWords(h, a) <= end
      /\ \A a, b \in S : a < b => Place(f, a) + ObjectWords(h, a) <= Place(f, b)
  BY DEF Planned
<1>2. \A a \in S : a \in Nat /\ ObjectWords(h, a) \in Nat /\ ObjectWords(h, a) >= 2
  BY ChunkSize, Numbers
<1>3. start # end
  BY <1>1, <1>2
<1>4. PICK a \in S : start = Place(f, a)
  BY <1>1, <1>3 DEF Places
<1>5. a # p => Place(f, p) + ObjectWords(h, p) <= start
  BY <1>1, <1>2, <1>4
<1> QED
  BY <1>1, <1>2, <1>4, <1>5

\* Without it the plan covers the region from where its words end.
LEMMA PlanRest ==
    ASSUME NEW h \in Heap, NEW f, NEW S, S \subseteq Addr,
           NEW start, NEW end, Planned(h, f, S, start, end), NEW p \in S, \A a \in S : p <= a,
           NEW R, R = S \ {p}
    PROVE  /\ Planned(h, f, R, start + ObjectWords(h, p), end)
           /\ Places(f, S) = Places(f, R) \cup {start}
<1> DEFINE P == Places(f, S)
           Q == Places(f, S \ {p})
           n == start + ObjectWords(h, p)
<1>1. /\ start \in Nat /\ end \in Nat /\ start <= end /\ start \in P \cup {end}
      /\ \A a \in S :
            /\ Place(f, a) \in Nat /\ start <= Place(f, a) /\ Place(f, a) <= a
            /\ Place(f, a) + ObjectWords(h, a) \in P \cup {end}
            /\ Place(f, a) + ObjectWords(h, a) <= end
      /\ \A a, b \in S : a < b => Place(f, a) + ObjectWords(h, a) <= Place(f, b)
  BY DEF Planned
<1>2. \A a \in S : a \in Nat /\ ObjectWords(h, a) \in Nat /\ ObjectWords(h, a) >= 2
  BY ChunkSize, Numbers
<1>3. \A a \in S \ {p} : p < a
  BY <1>2
<1>4. \A a \in S \ {p} : Place(f, p) + ObjectWords(h, p) <= Place(f, a)
  BY <1>1, <1>3
<1>5. Place(f, p) = start /\ start + ObjectWords(h, p) <= end
  BY PlanFirst
<1>6. P = Q \cup {start}
  BY <1>5 DEF Places
<1> HIDE DEF P, Q
<1>7. n \in Nat /\ n > start /\ n <= end /\ n \in Q \cup {end}
  BY <1>1, <1>2, <1>5, <1>6
<1>8. \A a \in S \ {p} :
            /\ Place(f, a) \in Nat /\ n <= Place(f, a) /\ Place(f, a) <= a
            /\ Place(f, a) + ObjectWords(h, a) \in Q \cup {end}
            /\ Place(f, a) + ObjectWords(h, a) <= end
  BY <1>1, <1>2, <1>4, <1>5, <1>6, <1>7
<1> QED
  BY <1>1, <1>5, <1>6, <1>7, <1>8 DEF Planned, P, Q

\* The places are offsets, and lie in the region the plan covers.
LEMMA PlacesWithin ==
    ASSUME NEW h \in Heap, NEW f, NEW S, S \subseteq Addr,
           NEW start, NEW end, Planned(h, f, S, start, end)
    PROVE  /\ Places(f, S) \subseteq Addr
           /\ \A x \in Places(f, S) : x \in Nat /\ start <= x /\ x < end
           /\ S = {} => start = end
<1>1. \A a \in S : a \in Nat /\ a < HeapEnd /\ ObjectWords(h, a) \in Nat /\ ObjectWords(h, a) >= 2
  BY ChunkSize, Numbers DEF Addr
<1>2. ASSUME NEW a \in S
      PROVE  Place(f, a) \in Addr /\ Place(f, a) \in Nat /\ start <= Place(f, a) /\ Place(f, a) < end
  BY <1>1, Numbers DEF Planned, Addr
<1>3. S = {} => start = end
  BY DEF Planned, Places
<1> QED
  BY <1>2, <1>3 DEF Places

\* relocate on one array: it is copied to its place q, without its mark; what is
\* below the place and above the array does not change.
LEMMA SlideEffect ==
    ASSUME NEW h \in Heap, NEW p \in Nat, NEW end \in Nat, end <= HeapEnd,
           p \in Headers(h, p, end), Tiled(h, p, end),
           NEW q \in Nat, Base <= q, q <= p,
           NEW n, n = ObjectWords(h, p),
           NEW g, g = MoveObject(ClearMarked(h, p), p, q)
    PROVE  /\ g \in Heap /\ g.watermark = h.watermark
           /\ n \in Nat /\ n >= Header /\ p + n <= end /\ q \in Addr
           /\ g.word[q] = h.word[p] /\ ObjectWords(g, q) = n
           /\ g.tag[q].head /\ ~g.tag[q].marked /\ g.tag[q].id = h.tag[p].id
           /\ g.tag[q].free = h.tag[p].free /\ g.tag[q].ref = h.tag[p].ref
           /\ \A x \in Addr : q < x /\ x < q + n =>
                 p + (x - q) \in Addr /\ g.word[x] = h.word[p + (x - q)] /\ ~g.tag[x].head
           /\ \A x \in Addr : x < q \/ x >= p + n => g.word[x] = h.word[x] /\ g.tag[x] = h.tag[x]
           /\ \A x \in Addr : q + n <= x /\ x < p + n =>
                 /\ g.word[x] = h.word[x]
                 /\ x = p => ~g.tag[x].marked
                 /\ x # p => g.tag[x] = h.tag[x]
<1> DEFINE c == ClearMarked(h, p)
<1>1. /\ p \in Addr /\ n \in Nat /\ n >= Header /\ p + n <= end
      /\ \A x \in Headers(h, p, end) : ~(p < x /\ x < p + n)
  BY TiledWithin
<1>2. /\ SameButMarks(h, c) /\ ~IsMarked(c, p) /\ \A x \in Addr \ {p} : c.tag[x] = h.tag[x]
  BY <1>1, MarkEffect
<1>3. c \in Heap /\ c.word = h.word /\ c.watermark = h.watermark /\ ObjectWords(c, p) = n
  BY <1>2 DEF SameButMarks, ObjectWords
<1>4. /\ c.tag[p].head = h.tag[p].head /\ c.tag[p].id = h.tag[p].id
      /\ c.tag[p].free = h.tag[p].free /\ c.tag[p].ref = h.tag[p].ref
      /\ ~c.tag[p].marked /\ h.tag[p].head
  BY <1>1, <1>2 DEF SameButMarks, IsMarked, Headers
<1> HIDE DEF c
<1>5. /\ g \in Heap /\ g.watermark = c.watermark
      /\ \A x \in Addr : q <= x /\ x < q + n =>
            /\ p + (x - q) \in Addr
            /\ g.word[x] = c.word[p + (x - q)] /\ g.tag[x] = c.tag[p + (x - q)]
      /\ Untouched(c, g, q, q + n)
  <2>1. p + ObjectWords(c, p) <= HeapEnd /\ q + ObjectWords(c, p) <= HeapEnd
    BY <1>1, <1>3, Numbers
  <2>2. g = MoveObject(c, p, q)
    BY DEF c
  <2> QED
    BY <1>1, <1>3, <2>1, <2>2, MoveObjectEffect
<1>6. q \in Addr /\ \A x \in Addr : x \in Nat /\ x < HeapEnd
  BY <1>1, Numbers DEF Addr
<1>7. g.word[q] = c.word[p] /\ g.tag[q] = c.tag[p]
  <2>1. q <= q /\ q < q + n /\ p + (q - q) = p
    BY <1>1
  <2> QED
    BY <1>5, <1>6, <2>1
<1>8. ASSUME NEW x \in Addr, q < x, x < q + n
      PROVE  p + (x - q) \in Addr /\ g.word[x] = h.word[p + (x - q)] /\ ~g.tag[x].head
  <2>1. p + (x - q) \in Addr /\ g.word[x] = c.word[p + (x - q)] /\ g.tag[x] = c.tag[p + (x - q)]
    BY <1>5, <1>6, <1>8
  <2>2. p < p + (x - q) /\ p + (x - q) < p + n /\ p + (x - q) < end
    BY <1>1, <1>6, <1>8
  <2>3. ~h.tag[p + (x - q)].head
    BY <1>1, <1>6, <2>1, <2>2 DEF Headers
  <2>4. c.tag[p + (x - q)] = h.tag[p + (x - q)]
    BY <1>2, <1>6, <2>1, <2>2
  <2> QED
    BY <1>3, <2>1, <2>3, <2>4
<1>9. ASSUME NEW x \in Addr, x < q \/ x >= p + n
      PROVE  g.word[x] = h.word[x] /\ g.tag[x] = h.tag[x]
  <2>1. (x < q \/ x >= q + n) /\ x # p
    BY <1>1, <1>6, <1>9
  <2> QED
    BY <1>2, <1>3, <1>5, <2>1 DEF Untouched
<1>10. ASSUME NEW x \in Addr, q + n <= x, x < p + n
       PROVE  /\ g.word[x] = h.word[x]
              /\ x = p => ~g.tag[x].marked
              /\ x # p => g.tag[x] = h.tag[x]
  BY <1>2, <1>3, <1>4, <1>5, <1>6, <1>10 DEF Untouched
<1>11. ObjectWords(g, q) = n
  BY <1>3, <1>7 DEF ObjectWords
<1> QED
  BY <1>1, <1>3, <1>4, <1>5, <1>6, <1>7, <1>8, <1>9, <1>10, <1>11

\* A survivor is the header of a marked chunk.
LEMMA SurvivorsWithin ==
    ASSUME NEW h, NEW start, NEW end, NEW a \in Survivors(h, start, end)
    PROVE  /\ a \in Headers(h, start, end) /\ a \in Addr /\ a \in Nat /\ IsMarked(h, a)
           /\ start <= a /\ a < end
  BY Numbers DEF Survivors, Headers

\* A root or a slot of an array of S holds null or an offset of T.
References(h, rs, S, T) ==
    /\ rs \in [RootSlots -> T \cup {GC_NULL}]
    /\ \A a \in S : \A s \in RefSlots(h, a) : h.word[s] \in T \cup {GC_NULL}

\* The heap that the walks of compact() go over, one of them at offset p.
Walked(h, p) ==
    /\ h \in Heap /\ Base <= h.watermark /\ Tiled(h, Base, h.watermark)
    /\ p \in Headers(h, Base, h.watermark) \cup {h.watermark}
    /\ \A a \in Survivors(h, Base, h.watermark) : ~h.tag[a].free

\* Every array of S is placed where the words of those before it end, when the
\* first is placed at Base; end is where the words of all of them end.
Counted(h, f, S, end) ==
    /\ \A a \in S : Place(f, a) = Base + Cardinality(Covered(h, {b \in S : b < a}))
    /\ end = Base + Cardinality(Covered(h, S))

\* compute_locations is at p: the arrays below p are planned, up to d.
Locating(h, f, rs, p, d) ==
    LET M == Survivors(h, Base, h.watermark)
    IN  /\ Walked(h, p) /\ d <= p
        /\ Planned(h, f, {a \in M : a < p}, Base, d)
        /\ Counted(h, f, {a \in M : a < p}, d)
        /\ References(h, rs, M, M)

\* update_references is at p: the roots and the slots below p hold places.
Updating(h, f, rs, p, d) ==
    LET M == Survivors(h, Base, h.watermark)
        T == Places(f, M)
    IN  /\ Walked(h, p) /\ d <= h.watermark
        /\ Planned(h, f, M, Base, d)
        /\ Counted(h, f, M, d)
        /\ References(h, rs, {a \in M : a < p}, T)
        /\ \A a \in M : a >= p => \A s \in RefSlots(h, a) : h.word[s] \in M \cup {GC_NULL}

\* relocate is at p: the arrays moved so far tile the heap up to q, those still
\* to move are from p on, and all references lead to moved arrays or to places.
Sliding(h, f, rs, p, q, d) ==
    LET D == Headers(h, Base, q)
        R == Survivors(h, p, h.watermark)
    IN  /\ h \in Heap /\ p \in Nat /\ Base <= q /\ q <= p /\ p <= h.watermark /\ d <= h.watermark
        /\ Tiled(h, Base, q) /\ Tiled(h, p, h.watermark)
        /\ Planned(h, f, R, q, d)
        /\ \A a \in Headers(h, Base, p) : ~h.tag[a].marked
        /\ \A a \in D \cup R : ~h.tag[a].free
        /\ References(h, rs, D \cup R, D \cup Places(f, R))

\* The walk goes on: its position and what it has passed.
LEMMA WalkGoesOn ==
    ASSUME NEW h, NEW c \in Headers(h, Base, h.watermark), Walked(h, c), NEW n, n = HeapNext(h, c)
    PROVE  /\ Walked(h, At(h, n)) /\ At(h, c) = c
           /\ n \in Headers(h, Base, h.watermark) \cup {SENTINEL}
           /\ At(h, n) = c + ObjectWords(h, c) /\ c < At(h, n) /\ At(h, n) \in Nat
           /\ \A a \in Headers(h, Base, h.watermark) : a < At(h, n) <=> a < c \/ a = c
<1>1. h \in Heap /\ Base <= h.watermark /\ Tiled(h, Base, h.watermark)
  BY DEF Walked
<1>2. /\ n \in Headers(h, Base, h.watermark) \cup {SENTINEL}
      /\ At(h, n) = c + ObjectWords(h, c) /\ c < At(h, n) /\ At(h, n) \in Nat
      /\ \A a \in Headers(h, Base, h.watermark) : a < At(h, n) <=> a < c \/ a = c
  BY <1>1, NextEffect
<1>3. At(h, n) \in Headers(h, Base, h.watermark) \cup {h.watermark}
  BY <1>2 DEF At
<1>4. c # SENTINEL
  BY Numbers DEF Headers
<1> QED
  BY <1>2, <1>3, <1>4 DEF Walked, At

\* compute_locations goes over the chunk c.
LEMMA LocateKeeps ==
    ASSUME NEW h, NEW f \in [Addr -> Word], NEW rs, NEW c \in Headers(h, Base, h.watermark), NEW d,
           Locating(h, f, rs, c, d), NEW n, n = HeapNext(h, c),
           NEW g, NEW e,
           \/ IsMarked(h, c) /\ g = [f EXCEPT ![c - Base] = d] /\ e = d + ObjectWords(h, c)
           \/ ~IsMarked(h, c) /\ g = f /\ e = d
    PROVE  Locating(h, g, rs, At(h, n), e)
<1> DEFINE M == Survivors(h, Base, h.watermark)
           S == {a \in M : a < c}
           p == At(h, n)
<1>1. /\ Walked(h, c) /\ h \in Heap /\ d <= c /\ Planned(h, f, S, Base, d) /\ Counted(h, f, S, d)
      /\ References(h, rs, M, M) /\ d \in Nat
  BY DEF Locating, Walked, Planned
<1>2. /\ Walked(h, p) /\ p = c + ObjectWords(h, c) /\ c < p /\ p \in Nat
      /\ \A a \in Headers(h, Base, h.watermark) : a < p <=> a < c \/ a = c
  BY <1>1, WalkGoesOn
<1>3. /\ c \in Addr /\ c \in Nat /\ Base <= c /\ M \subseteq Headers(h, Base, h.watermark)
      /\ \A a \in M : a \in Addr /\ a \in Nat /\ a >= Base
  BY Numbers DEF Survivors, Headers
<1>4. ObjectWords(h, c) \in Nat
  BY <1>1, <1>3, ChunkSize
<1>5. CASE ~IsMarked(h, c)
  <2>1. g = f /\ e = d
    BY <1>5
  <2>2. c \notin M
    BY <1>5 DEF Survivors
  <2>3. {a \in M : a < p} = S
    BY <1>2, <1>3, <2>2
  <2>4. d <= p
    BY <1>1, <1>2, <1>3
  <2> QED
    BY <1>1, <1>2, <2>1, <2>3, <2>4 DEF Locating
<1>6. CASE IsMarked(h, c)
  <2>1. g = [f EXCEPT ![c - Base] = d] /\ e = d + ObjectWords(h, c)
    BY <1>6
  <2>2. c \in M
    BY <1>6 DEF Survivors
  <2>3. {a \in M : a < p} = S \cup {c}
    BY <1>2, <1>3, <2>2
  <2>4. Planned(h, g, S \cup {c}, Base, e)
    <3>1. \A a \in S : a >= Base /\ a < c
      BY <1>3
    <3>2. S \subseteq Addr
      BY <1>3
    <3> HIDE DEF S
    <3> QED
      BY <1>1, <1>3, <2>1, <3>1, <3>2, PlanGrows
  <2>5. Counted(h, g, S \cup {c}, e)
    <3>1. \A a \in S : a + ObjectWords(h, a) <= c
      BY <1>1, <1>3, ChunksApart, ChunkSize DEF Walked, Tiled
    <3>2. Cardinality(Covered(h, S)) \in Nat
          /\ Cardinality(Covered(h, S \cup {c})) = Cardinality(Covered(h, S)) + ObjectWords(h, c)
      <4>1. S \subseteq Addr
        BY <1>3
      <4> HIDE DEF S
      <4> QED
        BY <1>1, <1>3, <3>1, <4>1, CoveredGrows
    <3>3. c - Base \in Addr /\ \A a \in S : a - Base \in Addr /\ a - Base # c - Base
      BY <1>3, Numbers DEF Addr
    <3>4. Place(g, c) = d /\ \A a \in S : Place(g, a) = Place(f, a)
      BY <2>1, <3>3 DEF Place
    <3>5. {b \in S \cup {c} : b < c} = S
      BY <1>3
    <3>6. \A a \in S : {b \in S \cup {c} : b < a} = {b \in S : b < a}
      BY <1>3
    <3>7. d = Base + Cardinality(Covered(h, S))
          /\ \A a \in S : Place(f, a) = Base + Cardinality(Covered(h, {b \in S : b < a}))
      BY <1>1 DEF Counted
    <3> HIDE DEF S
    <3>8. \A a \in S \cup {c} :
             Place(g, a) = Base + Cardinality(Covered(h, {b \in S \cup {c} : b < a}))
      BY <3>4, <3>5, <3>6, <3>7
    <3>9. e = Base + Cardinality(Covered(h, S \cup {c}))
      BY <1>1, <1>4, <2>1, <3>2, <3>7
    <3> QED
      BY <3>8, <3>9 DEF Counted
  <2>6. e <= p
    BY <1>1, <1>2, <1>3, <1>4, <2>1
  <2> QED
    BY <1>1, <1>2, <2>3, <2>4, <2>5, <2>6 DEF Locating
<1> QED
  BY <1>5, <1>6

\* compute_locations begins: nothing is planned, and the next place is Base.
LEMMA LocateBegins ==
    ASSUME NEW h, NEW rs, WellFormed(h, rs, Base, h.watermark),
           NEW M, M = Survivors(h, Base, h.watermark), M \subseteq Allocated(h, Base, h.watermark),
           \A r \in RootSlots : rs[r] \in M \cup {GC_NULL},
           \A a \in M : \A s \in RefSlots(h, a) : h.word[s] \in M \cup {GC_NULL},
           NEW f
    PROVE  Locating(h, f, rs, At(h, HeapFirst(h)), Base)
<1>1. /\ h \in Heap /\ Base <= h.watermark /\ Tiled(h, Base, h.watermark) /\ h.watermark \in Nat
      /\ rs \in [RootSlots -> Allocated(h, Base, h.watermark) \cup {GC_NULL}]
  BY DEF WellFormed
<1>2. /\ HeapFirst(h) \in Headers(h, Base, h.watermark) \cup {SENTINEL}
      /\ At(h, HeapFirst(h)) = Base
  BY <1>1, FirstEffect
<1>3. Walked(h, Base)
  <2>1. Base \in Headers(h, Base, h.watermark) \cup {h.watermark}
    BY <1>1 DEF Tiled
  <2>2. \A a \in M : ~h.tag[a].free
    BY DEF Allocated
  <2> QED
    BY <1>1, <2>1, <2>2 DEF Walked
<1>4. {a \in M : a < Base} = {}
  <2>1. \A a \in M : a \in Nat /\ Base <= a
    BY SurvivorsWithin
  <2> QED
    BY <2>1
<1>5. Planned(h, f, {}, Base, Base)
  BY DEF Planned
<1>6. Counted(h, f, {}, Base)
  BY CoveredBy DEF Counted
<1>7. References(h, rs, M, M)
  BY <1>1 DEF References
<1> QED
  BY <1>2, <1>3, <1>4, <1>5, <1>6, <1>7 DEF Locating

\* The new value of a slot that holds v.
Moved(f, v) == IF v = GC_NULL THEN GC_NULL ELSE Place(f, v)

LEMMA MovedTo ==
    ASSUME NEW f, NEW M, NEW v \in M \cup {GC_NULL}
    PROVE  Moved(f, v) \in Places(f, M) \cup {GC_NULL}
  BY DEF Moved, Places

\* compute_locations returns and the roots are rewritten.
LEMMA LocateEnds ==
    ASSUME NEW h, NEW f, NEW rs, NEW d, Locating(h, f, rs, h.watermark, d),
           NEW new, new = [r \in RootSlots |-> Moved(f, rs[r])]
    PROVE  Updating(h, f, new, At(h, HeapFirst(h)), d)
<1> DEFINE M == Survivors(h, Base, h.watermark)
           T == Places(f, M)
<1>1. /\ Walked(h, h.watermark) /\ d <= h.watermark
      /\ Planned(h, f, {a \in M : a < h.watermark}, Base, d)
      /\ Counted(h, f, {a \in M : a < h.watermark}, d)
      /\ References(h, rs, M, M)
  BY DEF Locating
<1>2. {a \in M : a < h.watermark} = M
  BY DEF Survivors, Headers
<1>3. h \in Heap /\ Base <= h.watermark /\ Tiled(h, Base, h.watermark)
  BY <1>1 DEF Walked
<1>4. /\ HeapFirst(h) \in Headers(h, Base, h.watermark) \cup {SENTINEL}
      /\ At(h, HeapFirst(h)) = Base
  BY <1>3, FirstEffect
<1>5. Walked(h, Base)
  BY <1>1 DEF Walked, Tiled
<1>6. {a \in M : a < Base} = {} /\ \A a \in M : a >= Base
  <2>1. \A a \in M : a \in Nat /\ Base <= a
    BY SurvivorsWithin
  <2> HIDE DEF M
  <2> QED
    BY <2>1
<1>7. new \in [RootSlots -> T \cup {GC_NULL}]
  <2>1. rs \in [RootSlots -> M \cup {GC_NULL}]
    BY <1>1 DEF References
  <2>2. \A r \in RootSlots : Moved(f, rs[r]) \in T \cup {GC_NULL}
    BY <2>1, MovedTo
  <2> HIDE DEF T
  <2> QED
    BY <2>2
<1>8. References(h, new, {}, T)
  BY <1>7 DEF References
<1>9. \A a \in M : \A s \in RefSlots(h, a) : h.word[s] \in M \cup {GC_NULL}
  BY <1>1 DEF References
<1> QED
  BY <1>1, <1>2, <1>4, <1>5, <1>6, <1>8, <1>9 DEF Updating

\* The places of the survivors are offsets that Word holds.
LEMMA PlacesAreAddresses ==
    ASSUME NEW h \in Heap, NEW f, NEW start, NEW d,
           NEW p, NEW end, NEW M, M = Survivors(h, p, end), Planned(h, f, M, start, d)
    PROVE  /\ M \subseteq Addr /\ Places(f, M) \subseteq Addr
           /\ Places(f, M) \cup {GC_NULL} \subseteq Word
<1>1. M \subseteq Addr
  BY DEF Survivors, Headers
<1>2. Places(f, M) \subseteq Addr
  BY <1>1, PlacesWithin
<1>3. GC_NULL \in Word
  BY Numbers DEF Word
<1> QED
  BY <1>1, <1>2, <1>3, Numbers

\* update_references rewrites the slots of the marked array c.
LEMMA UpdateKeeps ==
    ASSUME NEW h, NEW f, NEW rs, NEW c \in Headers(h, Base, h.watermark), NEW d,
           Updating(h, f, rs, c, d), NEW n, n = HeapNext(h, c),
           NEW g,
           \/ /\ IsMarked(h, c)
              /\ g = [h EXCEPT !.word = [x \in Addr |-> IF x \in RefSlots(h, c)
                                                        THEN Moved(f, h.word[x]) ELSE h.word[x]]]
           \/ ~IsMarked(h, c) /\ g = h
    PROVE  Updating(g, f, rs, At(g, n), d) /\ g \in Heap
<1> DEFINE M == Survivors(h, Base, h.watermark)
           T == Places(f, M)
           H == Headers(h, Base, h.watermark)
           p == At(h, n)
<1>1. /\ Walked(h, c) /\ d <= h.watermark /\ h \in Heap /\ Tiled(h, Base, h.watermark)
      /\ Planned(h, f, M, Base, d) /\ Counted(h, f, M, d)
      /\ References(h, rs, {a \in M : a < c}, T)
      /\ \A a \in M : a >= c => \A s \in RefSlots(h, a) : h.word[s] \in M \cup {GC_NULL}
  BY DEF Updating, Walked
<1>2. /\ Walked(h, p) /\ c < p /\ p \in Nat
      /\ \A a \in H : a < p <=> a < c \/ a = c
  BY <1>1, WalkGoesOn
<1>3. /\ c \in Addr /\ c \in Nat /\ M \subseteq H /\ H \subseteq Addr /\ H \subseteq Nat
      /\ h.watermark \in Nat /\ h.watermark <= HeapEnd
  BY <1>1, Numbers DEF Survivors, Headers, Heap
<1>4. CASE ~IsMarked(h, c)
  <2>1. g = h
    BY <1>4
  <2>2. c \notin M
    BY <1>4 DEF Survivors
  <2>3. {a \in M : a < p} = {a \in M : a < c} /\ \A a \in M : a >= p => a >= c
    BY <1>2, <1>3, <2>2
  <2> QED
    BY <1>1, <1>2, <2>1, <2>3 DEF Updating
<1>5. CASE IsMarked(h, c)
  <2> DEFINE word == [x \in Addr |-> IF x \in RefSlots(h, c) THEN Moved(f, h.word[x])
                                                             ELSE h.word[x]]
  <2>1. g = [h EXCEPT !.word = word] /\ c \in M
    BY <1>5 DEF Survivors
  <2>2. /\ h = [word |-> h.word, tag |-> h.tag, watermark |-> h.watermark]
        /\ h.word \in [Addr -> Word] /\ h.tag \in [Addr -> Tag] /\ h.watermark \in 0 .. HeapEnd
    BY <1>1 DEF Heap
  <2>3. T \cup {GC_NULL} \subseteq Word
    BY <1>1, PlacesAreAddresses
  <2>4. \A s \in RefSlots(h, c) : h.word[s] \in M \cup {GC_NULL}
    BY <1>1, <1>3, <2>1
  <2>5. \A s \in RefSlots(h, c) : Moved(f, h.word[s]) \in T \cup {GC_NULL}
    BY <2>4, MovedTo
  <2>6. word \in [Addr -> Word]
    BY <2>2, <2>3, <2>5
  <2>7. /\ g \in Heap /\ g.tag = h.tag /\ g.watermark = h.watermark /\ g.word = word
    BY <2>1, <2>2, <2>6 DEF Heap
  <2>8. \A x \in Addr : /\ x \in RefSlots(h, c) => g.word[x] = Moved(f, h.word[x])
                        /\ x \notin RefSlots(h, c) => g.word[x] = h.word[x]
    BY <2>7
  <2> HIDE DEF word
  <2>9. \A s \in RefSlots(h, c) : s \in Addr /\ s \notin H
    BY <1>1, <1>3, SlotRange
  <2>10. \A a \in H : g.word[a] = h.word[a]
    BY <1>3, <2>8, <2>9
  <2>11. Headers(g, Base, g.watermark) = H /\ Tiled(g, Base, g.watermark)
    <3>1. \A x \in Addr : Base <= x /\ x < h.watermark =>
              /\ g.tag[x].head <=> h.tag[x].head
              /\ h.tag[x].head => g.word[x] = h.word[x]
      BY <2>7, <2>10 DEF Headers
    <3> QED
      BY <1>1, <1>3, <2>7, <3>1, TiledSame
  <2>12. Survivors(g, Base, g.watermark) = M
    BY <2>7, <2>11 DEF Survivors, IsMarked
  <2>13. Walked(g, p) /\ At(g, n) = p
    BY <1>1, <1>2, <2>7, <2>11, <2>12 DEF Walked, At
  <2>14. Planned(g, f, M, Base, d) /\ Counted(g, f, M, d)
    <3>1. \A a \in M : g.word[a] = h.word[a]
      BY <1>3, <2>10
    <3>2. Covered(g, M) = Covered(h, M)
          /\ \A a \in M : Covered(g, {b \in M : b < a}) = Covered(h, {b \in M : b < a})
      BY <3>1, CoveredBy
    <3> HIDE DEF M
    <3> QED
      BY <1>1, <3>1, <3>2, PlanSame DEF Counted
  <2>15. \A a \in M : RefSlots(g, a) = RefSlots(h, a)
    BY <1>3, <2>7, <2>10 DEF RefSlots
  <2>16. ASSUME NEW a \in M, NEW s \in RefSlots(h, a)
         PROVE  /\ a = c => g.word[s] \in T \cup {GC_NULL}
                /\ a # c => g.word[s] = h.word[s]
    <3>1. s \in Addr /\ s \in Nat /\ s >= a + Header /\ s < a + ObjectWords(h, a)
      BY <1>1, <1>3, SlotRange
    <3>2. a = c => g.word[s] \in T \cup {GC_NULL}
      BY <2>5, <2>8, <3>1
    <3>3. ASSUME a # c PROVE s \notin RefSlots(h, c)
      <4>1. SUFFICES ASSUME s \in RefSlots(h, c) PROVE FALSE
        OBVIOUS
      <4>2. s >= c + Header /\ s < c + ObjectWords(h, c)
        BY <1>1, <1>3, <4>1, SlotRange
      <4>3. ObjectWords(h, a) \in Nat /\ ObjectWords(h, c) \in Nat /\ a \in Nat
        BY <1>1, <1>3, ChunkSize
      <4>4. \/ a < c /\ a + ObjectWords(h, a) <= c
            \/ c < a /\ c + ObjectWords(h, c) <= a
        BY <1>1, <1>3, <3>3, ChunksApart
      <4> QED
        BY <1>3, <3>1, <4>2, <4>3, <4>4
    <3> QED
      BY <2>8, <3>1, <3>2, <3>3
  <2>17. References(g, rs, {a \in M : a < p}, T)
    <3>1. rs \in [RootSlots -> T \cup {GC_NULL}]
      BY <1>1 DEF References
    <3>2. \A a \in M : a < c => \A s \in RefSlots(h, a) : h.word[s] \in T \cup {GC_NULL}
      BY <1>1 DEF References
    <3> HIDE DEF T, M
    <3>3. ASSUME NEW a \in M, a < p, NEW s \in RefSlots(g, a)
          PROVE  g.word[s] \in T \cup {GC_NULL}
      BY <1>2, <1>3, <2>15, <2>16, <3>2, <3>3
    <3> QED
      BY <3>1, <3>3 DEF References
  <2>18. \A a \in M : a >= p => \A s \in RefSlots(g, a) : g.word[s] \in M \cup {GC_NULL}
    <3> HIDE DEF T, M
    <3>1. ASSUME NEW a \in M, a >= p PROVE a # c /\ a >= c
      BY <1>2, <1>3, <3>1
    <3> QED
      BY <1>1, <2>15, <2>16, <3>1
  <2> QED
    BY <1>1, <2>7, <2>12, <2>13, <2>14, <2>17, <2>18 DEF Updating
<1> QED
  BY <1>1, <1>4, <1>5

\* update_references returns: nothing has moved yet.
LEMMA UpdateEnds ==
    ASSUME NEW h, NEW f, NEW rs, NEW d, Updating(h, f, rs, h.watermark, d)
    PROVE  /\ Sliding(h, f, rs, At(h, HeapFirst(h)), Base, d)
           /\ HeapFirst(h) \in Headers(h, At(h, HeapFirst(h)), h.watermark) \cup {SENTINEL}
<1> DEFINE M == Survivors(h, Base, h.watermark)
           T == Places(f, M)
<1>1. /\ Walked(h, h.watermark) /\ d <= h.watermark /\ Planned(h, f, M, Base, d)
      /\ References(h, rs, {a \in M : a < h.watermark}, T)
  BY DEF Updating
<1>2. h \in Heap /\ Base <= h.watermark /\ Tiled(h, Base, h.watermark) /\ \A a \in M : ~h.tag[a].free
  BY <1>1 DEF Walked
<1>3. {a \in M : a < h.watermark} = M
  BY DEF Survivors, Headers
<1>4. Headers(h, Base, Base) = {} /\ Tiled(h, Base, Base)
  BY TiledEmpty
<1>5. /\ HeapFirst(h) \in Headers(h, Base, h.watermark) \cup {SENTINEL}
      /\ At(h, HeapFirst(h)) = Base
  BY <1>2, FirstEffect
<1>6. References(h, rs, Headers(h, Base, Base) \cup M, Headers(h, Base, Base) \cup T)
  <2>1. Headers(h, Base, Base) \cup M = M /\ Headers(h, Base, Base) \cup T = T
    BY <1>4
  <2> HIDE DEF M, T
  <2> QED
    BY <1>1, <1>3, <2>1
<1>8. \A a \in Headers(h, Base, Base) \cup M : ~h.tag[a].free
  BY <1>2, <1>4
<1>9. \A a \in Headers(h, Base, Base) : ~h.tag[a].marked
  BY <1>4
<1>7. Sliding(h, f, rs, Base, Base, d)
  BY <1>1, <1>2, <1>4, <1>6, <1>8, <1>9 DEF Sliding
<1> QED
  BY <1>5, <1>7

\* relocate at the chunk c turns h into g, and the moved arrays end at e.
Slide(h, f, c, q, g, e) ==
    \/ /\ IsMarked(h, c)
       /\ g = MoveObject(ClearMarked(h, c), c, Place(f, c))
       /\ e = q + ObjectWords(h, c)
    \/ ~IsMarked(h, c) /\ g = h /\ e = q

\* relocate goes over the chunk c: a marked array is moved, a dead one left behind.
LEMMA SlideLeaves ==
    ASSUME NEW h, NEW f, NEW rs, NEW c, c \in Headers(h, c, h.watermark), NEW q, NEW d,
           Sliding(h, f, rs, c, q, d), NEW n, n = HeapNext(h, c),
           NEW g, NEW e, Slide(h, f, c, q, g, e)
    PROVE  /\ Sliding(g, f, rs, At(g, n), e, d) /\ g.watermark = h.watermark
           /\ n \in Headers(g, At(g, n), h.watermark) \cup {SENTINEL}
           /\ IsMarked(h, c) => /\ c \in Survivors(h, c, h.watermark) /\ Place(f, c) = q
                                /\ ObjectWords(g, q) = ObjectWords(h, c) /\ ObjectWords(h, c) \in Nat
           /\ Survivors(g, At(g, n), h.watermark) \subseteq Survivors(h, c, h.watermark)
           /\ \A x \in Headers(g, Base, e) : x \in Headers(h, Base, q) \/ (IsMarked(h, c) /\ x = q)
<1> DEFINE w == h.watermark
           D == Headers(h, Base, q)
           R == Survivors(h, c, w)
           T == D \cup Places(f, R)
           p == At(h, n)
           k == ObjectWords(h, c)
<1>1. /\ h \in Heap /\ c \in Nat /\ Base <= q /\ q <= c /\ c <= w /\ d <= w
      /\ Tiled(h, Base, q) /\ Tiled(h, c, w)
      /\ Planned(h, f, R, q, d) /\ q \in Nat
      /\ \A a \in Headers(h, Base, c) : ~h.tag[a].marked
      /\ \A a \in D \cup R : ~h.tag[a].free
      /\ References(h, rs, D \cup R, T)
  BY DEF Sliding, Planned
<1>2. /\ w \in Nat /\ w <= HeapEnd /\ HeapEnd \in Nat /\ c \in Addr /\ c \in Nat
      /\ q \in Nat /\ Base <= q /\ q <= c /\ c <= w /\ q <= HeapEnd
  BY <1>1, Numbers DEF Heap, Headers
<1>11. h \in Heap /\ Tiled(h, Base, q) /\ Planned(h, f, R, q, d)
  BY <1>1
<1>3. /\ n \in Headers(h, c, w) \cup {SENTINEL} /\ p = c + k /\ c < p /\ p <= w /\ p \in Nat
  BY <1>1, NextFrom
<1>4. k \in Nat /\ k >= 2
  BY <1>1, <1>2, ChunkSize
<1>5. p \in Headers(h, c, w) \cup {w} /\ Tiled(h, c, p) /\ Tiled(h, p, w)
  <2>1. p \in Headers(h, c, w) \cup {w}
    BY <1>3 DEF At
  <2> QED
    BY <1>1, <1>2, <2>1, TiledCut
<1>6. /\ n \in Headers(h, p, w) \cup {SENTINEL}
      /\ SENTINEL \notin Addr
  BY <1>3, Numbers DEF Headers, At
<1>7. \A x \in Headers(h, c, w) : x = c \/ x >= p
  <2>1. \A x \in Headers(h, c, w) : ~(c < x /\ x < c + k)
    BY <1>1, <1>2, TiledWithin
  <2>2. \A x \in Headers(h, c, w) : x \in Nat /\ c <= x
    BY Numbers DEF Headers
  <2> QED
    BY <1>3, <2>1, <2>2
<1>8. Survivors(h, p, w) = R \ {c}
  <2>1. Headers(h, p, w) = Headers(h, c, w) \ {c}
    <3>1. ASSUME NEW x \in Headers(h, p, w) PROVE x \in Headers(h, c, w) \ {c}
      <4>1. x \in Addr /\ x \in Nat /\ p <= x /\ x < w /\ h.tag[x].head
        BY HeadersWithin
      <4>2. c <= x /\ x # c
        BY <1>2, <1>3, <4>1
      <4> QED
        BY <4>1, <4>2 DEF Headers
    <3>2. ASSUME NEW x \in Headers(h, c, w), x # c PROVE x \in Headers(h, p, w)
      BY <1>7, <3>2 DEF Headers
    <3> QED
      BY <3>1, <3>2
  <2> QED
    BY <2>1 DEF Survivors
<1>9. CASE ~IsMarked(h, c)
  <2>1. g = h /\ e = q
    BY <1>9 DEF Slide
  <2>2. R \ {c} = R
    BY <1>9 DEF Survivors
  <2>3. \A a \in Headers(h, Base, p) : ~h.tag[a].marked
    <3>1. ASSUME NEW a \in Headers(h, Base, p), a # c PROVE a \in Headers(h, Base, c)
      <4>1. a \in Addr /\ a \in Nat /\ Base <= a /\ a < p /\ h.tag[a].head
        BY HeadersWithin
      <4>2. a >= c => a \in Headers(h, c, w)
        BY <1>1, <1>2, <1>3, <4>1 DEF Headers
      <4>3. a < c
        BY <1>1, <1>3, <1>7, <3>1, <4>1, <4>2
      <4> QED
        BY <4>1, <4>3 DEF Headers
    <3> QED
      BY <1>1, <1>9, <3>1 DEF IsMarked
  <2>4. q <= p
    BY <1>1, <1>3
  <2>5. Sliding(h, f, rs, p, q, d)
    BY <1>1, <1>3, <1>5, <1>8, <2>2, <2>3, <2>4 DEF Sliding
  <2>6. At(g, n) = p /\ Survivors(h, p, w) = R
    BY <1>8, <2>1, <2>2
  <2> QED
    BY <1>6, <1>9, <2>1, <2>5, <2>6
<1>10. CASE IsMarked(h, c)
  <2> DEFINE S == R \ {c}
  <2>1. g = MoveObject(ClearMarked(h, c), c, Place(f, c)) /\ e = q + k
    BY <1>10 DEF Slide
  <2>2. c \in R /\ R \subseteq Addr /\ \A a \in R : c <= a
    BY <1>10, SurvivorsWithin DEF Survivors
  <2>3. /\ Place(f, c) = q /\ e <= d
        /\ Planned(h, f, S, e, d)
        /\ Places(f, R) = Places(f, S) \cup {q}
    <3>1. e = q + ObjectWords(h, c)
      BY <2>1
    <3>2. h \in Heap /\ R \subseteq Addr /\ Planned(h, f, R, q, d) /\ c \in R /\ S = R \ {c}
      BY <1>11, <2>2
    <3>3. \A a \in R : c <= a
      BY <2>2
    <3> HIDE DEF R, S, w, D, T, p, k
    <3>4. Place(f, c) = q /\ q + ObjectWords(h, c) <= d
      BY <3>2, <3>3, PlanFirst
    <3>5. /\ Planned(h, f, S, q + ObjectWords(h, c), d)
          /\ Places(f, R) = Places(f, S) \cup {q}
      BY <3>2, <3>3, PlanRest
    <3> QED
      BY <3>1, <3>4, <3>5
  <2>4. /\ g \in Heap /\ g.watermark = w
        /\ c + k <= w /\ q \in Addr
        /\ g.word[q] = h.word[c] /\ ObjectWords(g, q) = k
        /\ g.tag[q].head /\ ~g.tag[q].marked /\ g.tag[q].id = h.tag[c].id
        /\ g.tag[q].free = h.tag[c].free /\ g.tag[q].ref = h.tag[c].ref
        /\ \A x \in Addr : q < x /\ x < q + k =>
              c + (x - q) \in Addr /\ g.word[x] = h.word[c + (x - q)] /\ ~g.tag[x].head
        /\ \A x \in Addr : x < q \/ x >= c + k => g.word[x] = h.word[x] /\ g.tag[x] = h.tag[x]
        /\ \A x \in Addr : q + k <= x /\ x < c + k =>
              /\ g.word[x] = h.word[x]
              /\ x = c => ~g.tag[x].marked
              /\ x # c => g.tag[x] = h.tag[x]
    BY <1>1, <1>2, <2>1, <2>3, SlideEffect
  <2>5. e \in Nat /\ q < e /\ e <= p /\ Base <= e
    BY <1>1, <1>3, <1>4, <2>1
  <2>6. \A x \in Addr : x < q \/ x >= p => g.word[x] = h.word[x] /\ g.tag[x] = h.tag[x]
    BY <1>3, <2>4
  <2>7. Headers(g, Base, q) = D /\ Tiled(g, Base, q)
    <3>1. \A x \in Addr : Base <= x /\ x < q =>
              /\ g.tag[x].head <=> h.tag[x].head
              /\ h.tag[x].head => g.word[x] = h.word[x]
      BY <2>6
    <3>2. Base \in Nat /\ q \in Nat
      BY <1>2
    <3> QED
      BY <1>11, <3>1, <3>2, TiledSame, Zenon
  <2>8. Headers(g, p, w) = Headers(h, p, w) /\ Tiled(g, p, w)
    <3>1. \A x \in Addr : p <= x /\ x < w =>
              /\ g.tag[x].head <=> h.tag[x].head
              /\ h.tag[x].head => g.word[x] = h.word[x]
      BY <2>6
    <3>2. p \in Nat /\ w \in Nat /\ Tiled(h, p, w)
      BY <1>2, <1>3, <1>5
    <3> HIDE DEF p, w
    <3> QED
      BY <3>1, <3>2, TiledSame, Zenon
  <2>9. Headers(g, q, e) = {q} /\ Tiled(g, q, e)
    <3>1. \A x \in Addr : q < x /\ x < e => ~g.tag[x].head
      BY <2>1, <2>4
    <3> QED
      BY <2>1, <2>4, <2>5, <3>1, TiledOne
  <2>10. Headers(g, Base, e) = D \cup {q} /\ Tiled(g, Base, e)
    BY <1>1, <2>4, <2>5, <2>7, <2>9, HeadersJoin, TiledJoin
  <2>11. Survivors(g, p, w) = S
    <3>1. \A a \in Headers(h, p, w) : g.tag[a] = h.tag[a]
      BY <2>6, <1>3, Numbers DEF Headers
    <3> QED
      BY <1>8, <2>8, <3>1 DEF Survivors, IsMarked
  <2>12. \A a \in S : a \in Addr /\ a \in Nat /\ a >= p
    <3>1. \A a \in R : a \in Headers(h, c, w) /\ a \in Addr /\ a \in Nat
      BY SurvivorsWithin
    <3> QED
      BY <1>7, <3>1
  <2>13. Planned(g, f, S, e, d)
    <3>1. \A a \in S : g.word[a] = h.word[a]
      BY <2>6, <2>12
    <3> QED
      BY <2>3, <3>1, PlanSame
  <2>14. ASSUME NEW a \in Headers(g, Base, p) PROVE ~g.tag[a].marked
    <3>1. a \in Addr /\ a \in Nat /\ Base <= a /\ a < p /\ g.tag[a].head
      BY HeadersWithin
    <3>2. CASE a < q
      <4>1. g.tag[a] = h.tag[a] /\ a < c
        BY <1>1, <2>6, <3>1, <3>2
      <4>2. a \in Headers(h, Base, c)
        BY <3>1, <4>1 DEF Headers
      <4> QED
        BY <1>1, <4>1, <4>2
    <3>3. CASE a = q
      BY <2>4, <3>3
    <3>4. CASE q < a /\ a < e
      BY <2>1, <2>4, <3>1, <3>4
    <3>5. CASE e <= a /\ a # c
      <4>1. g.tag[a] = h.tag[a]
        BY <1>3, <2>1, <2>4, <3>1, <3>5
      <4>2. a >= c => a \in Headers(h, c, w)
        BY <1>2, <1>3, <3>1, <4>1 DEF Headers
      <4>3. a < c
        BY <1>1, <1>3, <1>7, <3>1, <3>5, <4>2
      <4>4. a \in Headers(h, Base, c)
        BY <3>1, <4>1, <4>3 DEF Headers
      <4> QED
        BY <1>1, <4>1, <4>4
    <3>6. CASE e <= a /\ a = c
      BY <1>3, <2>1, <2>4, <3>1, <3>6
    <3> QED
      BY <1>1, <2>5, <3>1, <3>2, <3>3, <3>4, <3>5, <3>6
  <2>15. ASSUME NEW a \in D \cup {q} \cup S PROVE ~g.tag[a].free
    <3>1. CASE a \in D
      <4>1. a \in Addr /\ a < q
        BY <3>1 DEF Headers
      <4> QED
        BY <1>1, <2>6, <3>1, <4>1
    <3>2. CASE a = q
      BY <1>1, <2>2, <2>4, <3>2
    <3>3. CASE a \in S
      BY <1>1, <2>6, <2>12, <3>3
    <3> QED
      BY <3>1, <3>2, <3>3
  <2>16. (D \cup {q}) \cup Places(f, S) = T
    BY <2>3
  <2>17. ASSUME NEW a \in D \cup {q} \cup S, NEW s \in RefSlots(g, a)
         PROVE  g.word[s] \in T \cup {GC_NULL}
    <3>0. \A b \in D \cup R : \A t \in RefSlots(h, b) : h.word[t] \in T \cup {GC_NULL}
      BY <1>1 DEF References
    <3>1. CASE a \in D
      <4>1. a \in Addr /\ a < q
        BY <3>1 DEF Headers
      <4>2. RefSlots(g, a) = RefSlots(h, a)
        BY <2>6, <4>1 DEF RefSlots
      <4>3. s \in Addr /\ s < q
        BY <1>1, <1>2, <3>1, <4>2, SlotRange
      <4> QED
        BY <2>6, <3>0, <3>1, <4>2, <4>3
    <3>2. CASE a = q
      <4>1. h.tag[c].ref /\ h.word[c] \in Nat /\ k = 2 + h.word[c]
            /\ s \in (q + 2) .. (q + 2 + h.word[c] - 1)
        BY <1>2, <1>11, <2>4, <3>2, WordTypes DEF RefSlots
      <4>2. s \in Nat /\ q < s /\ s < q + k
        <5> HIDE DEF k
        <5> QED
          BY <1>2, <4>1
      <4>3. s \in Addr
        <5> HIDE DEF k
        <5> QED
          BY <1>2, <1>3, <1>4, <4>2 DEF Addr
      <4>4. g.word[s] = h.word[c + (s - q)]
        BY <2>4, <4>2, <4>3
      <4>5. c + (s - q) \in (c + 2) .. (c + 2 + h.word[c] - 1)
        BY <1>2, <4>1, <4>2
      <4>6. c + (s - q) \in RefSlots(h, c)
        BY <4>1, <4>5 DEF RefSlots
      <4> QED
        BY <2>2, <3>0, <4>4, <4>6
    <3>3. CASE a \in S
      <4>1. a \in Addr /\ a \in Nat /\ a >= p /\ g.word[a] = h.word[a] /\ g.tag[a] = h.tag[a]
        BY <2>6, <2>12, <3>3
      <4>2. RefSlots(g, a) = RefSlots(h, a)
        BY <4>1 DEF RefSlots
      <4>3. s \in Addr /\ s \in Nat /\ s >= a + Header
        <5>1. a \in Headers(h, c, w)
          BY <3>3, SurvivorsWithin
        <5> QED
          BY <1>1, <1>2, <4>2, <5>1, SlotRange
      <4>4. s >= p
        BY <1>3, <4>1, <4>3
      <4> QED
        BY <2>6, <3>0, <3>3, <4>2, <4>3, <4>4
    <3> QED
      BY <3>1, <3>2, <3>3
  <2>18. rs \in [RootSlots -> T \cup {GC_NULL}]
    BY <1>1 DEF References
  <2>19. At(g, n) = p
    BY <2>4 DEF At
  <2> HIDE DEF S, T, D
  <2>20. References(g, rs, (D \cup {q}) \cup S, (D \cup {q}) \cup Places(f, S))
    BY <2>16, <2>17, <2>18 DEF References
  <2>21. Sliding(g, f, rs, p, e, d)
    BY <1>1, <1>3, <2>4, <2>5, <2>8, <2>10, <2>11, <2>13, <2>14, <2>15, <2>20 DEF Sliding
  <2>22. Survivors(g, p, w) \subseteq R /\ Headers(g, Base, e) = D \cup {q} /\ c \in R
    BY <2>2, <2>10, <2>11 DEF S
  <2> QED
    BY <1>4, <1>6, <1>10, <2>3, <2>4, <2>8, <2>19, <2>21, <2>22 DEF D
<1> QED
  BY <1>9, <1>10

\* What that says of where the walk stands.
LEMMA SlideKeeps ==
    ASSUME NEW h, NEW f, NEW rs, NEW c, c \in Headers(h, c, h.watermark), NEW q, NEW d,
           Sliding(h, f, rs, c, q, d), NEW n, n = HeapNext(h, c),
           NEW g, NEW e, Slide(h, f, c, q, g, e)
    PROVE  /\ Sliding(g, f, rs, At(g, n), e, d) /\ g.watermark = h.watermark
           /\ n \in Headers(g, At(g, n), h.watermark) \cup {SENTINEL}
           /\ IsMarked(h, c) => Place(f, c) = q /\ ObjectWords(g, q) \in Nat
  BY ONLY SlideLeaves, c \in Headers(h, c, h.watermark), Sliding(h, f, rs, c, q, d),
          n = HeapNext(h, c), Slide(h, f, c, q, g, e)

\* The slid heap h, cut at d, is g: the heap is well formed, and holds the moved
\* arrays and nothing else.
Cut(h, rs, q, d, g) ==
    /\ WellFormed(g, rs, Base, d) /\ g.watermark = d /\ q = d /\ d \in Base .. HeapEnd
    /\ \A a \in Headers(g, Base, d) : ~g.tag[a].marked
    /\ Headers(g, Base, d) = Headers(h, Base, d)
    /\ \A x \in Addr : x < d => g.word[x] = h.word[x] /\ g.tag[x] = h.tag[x]

\* relocate returns and the watermark drops.
LEMMA SlideEnds ==
    ASSUME NEW h, NEW f, NEW rs, NEW q, NEW d, Sliding(h, f, rs, h.watermark, q, d),
           NEW g, g = Vacate(SetWatermark(h, d), d, h.watermark)
    PROVE  Cut(h, rs, q, d, g)
<1> DEFINE w == h.watermark
           D == Headers(h, Base, q)
           R == Survivors(h, w, w)
           i == SetWatermark(h, d)
<1>1. /\ h \in Heap /\ w \in Nat /\ Base <= q /\ q <= w /\ d <= w
      /\ Tiled(h, Base, q)
      /\ Planned(h, f, R, q, d) /\ q \in Nat /\ d \in Nat /\ q <= d
      /\ \A a \in Headers(h, Base, w) : ~h.tag[a].marked
      /\ \A a \in D \cup R : ~h.tag[a].free
      /\ References(h, rs, D \cup R, D \cup Places(f, R))
  BY DEF Sliding, Planned
<1>2. /\ h \in Heap /\ w \in Nat /\ d \in Nat /\ q \in Nat /\ q <= w /\ d <= w /\ Base <= q
      /\ w <= HeapEnd /\ HeapEnd \in Nat /\ Tiled(h, Base, q)
  BY <1>1, Numbers DEF Heap
<1>3. R = {}
  BY <1>1, TiledEmpty DEF Survivors
<1>4. q = d
  BY <1>1, <1>3 DEF Planned, Places
<1>5. D \cup Places(f, R) = D /\ D \cup R = D
  BY <1>3 DEF Places
<1>6. d \in 0 .. HeapEnd /\ d \in Base .. HeapEnd
  BY <1>2, <1>4
<1>7. i \in Heap /\ i.watermark = d /\ i.word = h.word /\ i.tag = h.tag
  BY <1>2, <1>6, SetWatermarkType
<1> HIDE DEF i
<1>8. g \in Heap /\ g.watermark = d /\ Untouched(i, g, d, w)
  <2>1. g = Vacate(i, d, w)
    BY DEF i
  <2>2. d \in Nat /\ w \in Nat /\ i \in Heap
    BY <1>2, <1>7
  <2> HIDE DEF w
  <2>3. g \in Heap /\ g.watermark = i.watermark /\ Untouched(i, g, d, w)
    BY <2>1, <2>2, VacateEffect
  <2> QED
    BY <1>7, <2>3
<1>9. \A x \in Addr : x < d => g.word[x] = h.word[x] /\ g.tag[x] = h.tag[x]
  BY <1>7, <1>8 DEF Untouched
<1>10. Headers(g, Base, d) = D /\ Tiled(g, Base, d)
  <2>1. \A x \in Addr : Base <= x /\ x < q =>
            /\ g.tag[x].head <=> h.tag[x].head
            /\ h.tag[x].head => g.word[x] = h.word[x]
    BY <1>4, <1>9
  <2>2. Base \in Nat /\ q \in Nat /\ Tiled(h, Base, q)
    BY <1>2
  <2>3. Headers(g, Base, q) = D /\ Tiled(g, Base, q)
    BY <2>1, <2>2, TiledSame, Zenon
  <2> QED
    BY <1>4, <2>3
<1>11. \A a \in D : a \in Addr /\ a < d /\ ~h.tag[a].marked /\ g.tag[a] = h.tag[a] /\ g.word[a] = h.word[a]
  <2>1. ASSUME NEW a \in D PROVE a \in Addr /\ a < d /\ a \in Headers(h, Base, w)
    BY <1>1, <1>4, Numbers DEF Headers
  <2> QED
    BY <1>1, <1>9, <2>1
<1>12. Allocated(g, Base, d) = D
  BY <1>1, <1>10, <1>11 DEF Allocated
<1>13. ASSUME NEW a \in D, NEW s \in RefSlots(g, a) PROVE g.word[s] \in D \cup {GC_NULL}
  <2>1. RefSlots(g, a) = RefSlots(h, a)
    BY <1>11 DEF RefSlots
  <2>2. s \in Addr /\ s < d
    <3>1. s \in Addr /\ s < q
      BY <1>2, <2>1, SlotRange
    <3> QED
      BY <1>4, <3>1
  <2>3. h.word[s] \in D \cup {GC_NULL}
    BY <1>1, <1>5, <2>1 DEF References
  <2> QED
    BY <1>9, <2>2, <2>3
<1>14. rs \in [RootSlots -> D \cup {GC_NULL}]
  BY <1>1, <1>5 DEF References
<1>15. WellFormed(g, rs, Base, d)
  BY <1>1, <1>6, <1>8, <1>10, <1>12, <1>13, <1>14 DEF WellFormed
<1> QED
  BY <1>4, <1>6, <1>8, <1>9, <1>10, <1>11, <1>15 DEF Cut

-----------------------------------------------------------------------------
(* The steps of a compaction, whichever collector runs it.                  *)

Walking == {"locate", "update", "relocate"}

CompactTypes ==
    /\ heap \in Heap
    /\ req \in Request
    /\ out \in Outs
    /\ net \in Int
    /\ root \in 1 .. NRoots + 1
    /\ frames \in Seq(Frame)
    /\ forward_map \in [Addr -> Addr \cup {Unwritten}]
    /\ scan \in Addr \cup {SENTINEL}
    /\ dest \in Base .. HeapEnd

\* What holds of the heap in each phase of a compaction.
CompactPhase ==
    /\ pc \in {"mark"} \cup Walking => ~heap.tag[GC_NULL].ref
    /\ pc \in Walking => root = 1 /\ frames = <<>>
    /\ pc = "mark" => MarkInv
    /\ pc \in Walking => scan \in Headers(heap, At(heap, scan), heap.watermark) \cup {SENTINEL}
    /\ pc = "locate" => Locating(heap, forward_map, roots, At(heap, scan), dest)
    /\ pc = "update" => Updating(heap, forward_map, roots, At(heap, scan), dest)
    /\ pc = "relocate" =>
          \E q : Sliding(heap, forward_map, roots, At(heap, scan), q, dest)

CompactInv == CompactTypes /\ CompactPhase

\* A visit: the mark phase goes on.
LEMMA VisitCompacts ==
    ASSUME CompactInv, VisitRoot \/ VisitRef, UNCHANGED compactVars
    PROVE  CompactInv'
<1>1. /\ pc = "mark" /\ UNCHANGED <<pc, req, out, net, roots, forward_map, scan, dest>>
  BY DEF VisitRoot, VisitRef, compactVars
<1>2. CompactTypes /\ MarkInv
  BY <1>1 DEF CompactInv, CompactPhase
<1>3. MarkInv'
  BY <1>2, VisitRootKeeps, VisitRefKeeps
<1>4. /\ heap' \in Heap /\ ~heap'.tag[GC_NULL].ref
      /\ root' \in 1 .. NRoots + 1 /\ frames' \in Seq(Frame)
  BY <1>3 DEF MarkInv, WellFormed
<1> QED
  BY <1>1, <1>2, <1>3, <1>4 DEF CompactInv, CompactTypes, CompactPhase, Walking

\* A walk over the heap begins.
LEMMA WalkBegins ==
    ASSUME NEW h \in Heap, Base <= h.watermark, Tiled(h, Base, h.watermark)
    PROVE  /\ HeapFirst(h) \in Headers(h, At(h, HeapFirst(h)), h.watermark) \cup {SENTINEL}
           /\ HeapFirst(h) \in Addr \cup {SENTINEL}
<1>1. /\ HeapFirst(h) \in Headers(h, Base, h.watermark) \cup {SENTINEL}
      /\ At(h, HeapFirst(h)) = Base
  BY FirstEffect
<1> QED
  BY <1>1 DEF Headers

\* The chunk a walk is at, and the one after it.
LEMMA WalkSteps ==
    ASSUME NEW h, NEW c, c # SENTINEL, Walked(h, At(h, c)),
           c \in Headers(h, At(h, c), h.watermark) \cup {SENTINEL},
           NEW n, n = HeapNext(h, c)
    PROVE  /\ At(h, c) = c /\ c \in Headers(h, Base, h.watermark)
           /\ n \in Headers(h, At(h, n), h.watermark) \cup {SENTINEL}
           /\ n \in Addr \cup {SENTINEL}
<1>1. At(h, c) = c /\ h \in Heap /\ Base <= h.watermark /\ Tiled(h, Base, h.watermark)
  BY DEF At, Walked
<1>2. c \in Headers(h, Base, h.watermark)
  <2>1. c \in Addr /\ c < h.watermark /\ h.tag[c].head /\ c \in Headers(h, Base, h.watermark) \cup {h.watermark}
    BY <1>1 DEF Headers, Walked
  <2>2. h.watermark \in Nat
    BY <1>1 DEF Heap
  <2> QED
    BY <2>1, <2>2, Numbers
<1>3. n \in Headers(h, Base, h.watermark) \cup {SENTINEL}
  BY <1>1, <1>2, NextEffect
<1>4. n # SENTINEL => n \in Headers(h, n, h.watermark)
  <2>1. ASSUME n # SENTINEL PROVE n \in Addr /\ n \in Nat /\ n < h.watermark /\ h.tag[n].head
    BY <1>3, <2>1, HeadersWithin
  <2> QED
    BY <2>1 DEF Headers
<1> QED
  BY <1>1, <1>2, <1>3, <1>4 DEF At, Headers

LEMMA LocateStartCompacts ==
    ASSUME CompactInv, LocateStart
    PROVE  CompactInv'
<1> DEFINE M == Survivors(heap, Base, heap.watermark)
<1>1. /\ MarkDone /\ pc = "mark" /\ frames = <<>> /\ MarkInv /\ CompactTypes /\ ~heap.tag[GC_NULL].ref
  BY DEF CompactInv, CompactPhase, LocateStart, MarkDone
<1>2. /\ pc' = "locate" /\ root' = 1 /\ scan' = HeapFirst(heap) /\ dest' = Base
      /\ UNCHANGED <<heap, roots, req, out, net, frames, forward_map>>
  BY DEF LocateStart, ToRegion
<1>3. /\ WellFormed(heap, roots, Base, heap.watermark) /\ Marked = M
      /\ M \subseteq Allocated(heap, Base, heap.watermark)
  BY <1>1 DEF MarkInv, Marked, Survivors, Arrays
<1>4. /\ \A r \in RootSlots : roots[r] \in M \cup {GC_NULL}
      /\ \A a \in M : \A s \in RefSlots(heap, a) : heap.word[s] \in M \cup {GC_NULL}
  BY <1>1, <1>3, MarkDoneCloses
<1> HIDE DEF M
<1>5. Locating(heap, forward_map, roots, At(heap, HeapFirst(heap)), Base)
  <2>1. M = Survivors(heap, Base, heap.watermark)
    BY DEF M
  <2> QED
    BY <1>3, <1>4, <2>1, LocateBegins
<1>6. /\ HeapFirst(heap) \in Headers(heap, At(heap, HeapFirst(heap)), heap.watermark) \cup {SENTINEL}
      /\ HeapFirst(heap) \in Addr \cup {SENTINEL}
  BY <1>3, WalkBegins DEF WellFormed
<1>7. CompactTypes'
  <2>1. root' \in 1 .. NRoots + 1 /\ dest' \in Base .. HeapEnd
    BY <1>2, MutatorAssumption, Numbers DEF MutatorAssumption
  <2> QED
    BY <1>1, <1>2, <1>6, <2>1 DEF CompactTypes
<1>8. CompactPhase'
  BY <1>1, <1>2, <1>5, <1>6 DEF CompactPhase, Walking
<1> QED
  BY <1>7, <1>8 DEF CompactInv

LEMMA LocateStepCompacts ==
    ASSUME CompactInv, LocateStep
    PROVE  CompactInv'
<1>1. /\ pc = "locate" /\ scan # SENTINEL /\ scan' = HeapNext(heap, scan)
      /\ UNCHANGED <<heap, roots, pc, req, out, net, root, frames>>
  BY DEF LocateStep, mutatorVars, markVars
<1>2. /\ CompactTypes /\ root = 1 /\ frames = <<>> /\ ~heap.tag[GC_NULL].ref
      /\ scan \in Headers(heap, At(heap, scan), heap.watermark) \cup {SENTINEL}
      /\ Locating(heap, forward_map, roots, At(heap, scan), dest)
  BY <1>1 DEF CompactInv, CompactPhase, Walking
<1>3. /\ At(heap, scan) = scan /\ scan \in Headers(heap, Base, heap.watermark)
      /\ scan' \in Headers(heap, At(heap, scan'), heap.watermark) \cup {SENTINEL}
      /\ scan' \in Addr \cup {SENTINEL}
  BY <1>1, <1>2, WalkSteps DEF Locating
<1>4. \/ /\ IsMarked(heap, scan)
         /\ forward_map' = [forward_map EXCEPT ![scan - Base] = dest]
         /\ dest' = dest + ObjectWords(heap, scan)
      \/ ~IsMarked(heap, scan) /\ forward_map' = forward_map /\ dest' = dest
  BY DEF LocateStep, Located, Room, CalculateForwardIndex
<1>5. Locating(heap, forward_map', roots, At(heap, scan'), dest')
  <2>1. Locating(heap, forward_map, roots, scan, dest)
    BY <1>2, <1>3
  <2>2. forward_map \in [Addr -> Word]
    <3>1. Addr \cup {Unwritten} \subseteq Word
      BY Numbers DEF Word, Unwritten
    <3> QED
      BY <1>2, <3>1 DEF CompactTypes
  <2> QED
    BY <1>1, <1>3, <1>4, <2>1, <2>2, LocateKeeps
<1>6. dest \in Addr /\ dest' \in Base .. HeapEnd
  <2>1. scan \in Addr /\ scan < HeapEnd /\ dest <= scan /\ dest \in Nat /\ Base <= dest
    <3>1. scan \in Addr /\ scan \in Nat
      BY <1>3, HeadersWithin
    <3>2. scan < HeapEnd
      BY <3>1, Numbers DEF Addr
    <3>3. dest <= scan /\ dest \in Base .. HeapEnd
      BY <1>2, <1>3 DEF Locating, CompactTypes
    <3> QED
      BY <3>1, <3>2, <3>3, Numbers
  <2>2. /\ dest' \in Nat /\ Base <= dest' /\ dest' <= At(heap, scan')
        /\ At(heap, scan') \in Headers(heap, Base, heap.watermark) \cup {heap.watermark}
        /\ heap \in Heap
    BY <1>5 DEF Locating, Planned, Walked
  <2>3. At(heap, scan') \in Nat /\ At(heap, scan') <= HeapEnd
    <3>1. heap.watermark \in Nat /\ heap.watermark <= HeapEnd
      BY <2>2, Numbers DEF Heap
    <3>2. \A a \in Headers(heap, Base, heap.watermark) : a \in Nat /\ a < heap.watermark
      BY HeadersWithin
    <3> QED
      BY <2>2, <3>1, <3>2, Numbers
  <2> QED
    BY <2>1, <2>2, <2>3, Numbers DEF Addr
<1>7. CompactTypes'
  <2>1. forward_map' \in [Addr -> Addr \cup {Unwritten}]
    BY <1>2, <1>4, <1>6 DEF CompactTypes
  <2> QED
    BY <1>1, <1>2, <1>3, <1>6, <2>1 DEF CompactTypes
<1>8. CompactPhase'
  BY <1>1, <1>2, <1>3, <1>5 DEF CompactPhase, Walking
<1> QED
  BY <1>7, <1>8 DEF CompactInv

LEMMA UpdateRootsCompacts ==
    ASSUME CompactInv, UpdateRoots
    PROVE  CompactInv'
<1>1. /\ pc = "locate" /\ scan = SENTINEL /\ pc' = "update" /\ scan' = HeapFirst(heap)
      /\ roots' = [r \in RootSlots |-> Moved(forward_map, roots[r])]
      /\ UNCHANGED <<heap, req, out, net, root, frames, forward_map, dest>>
  BY DEF UpdateRoots, Updated, ForwardOf, CalculateForwardIndex, Moved, Place, markVars
<1>2. /\ CompactTypes /\ root = 1 /\ frames = <<>> /\ ~heap.tag[GC_NULL].ref
      /\ Locating(heap, forward_map, roots, heap.watermark, dest)
  BY <1>1 DEF CompactInv, CompactPhase, Walking, At
<1>3. Updating(heap, forward_map, roots', At(heap, HeapFirst(heap)), dest)
  BY <1>1, <1>2, LocateEnds
<1>4. /\ HeapFirst(heap) \in Headers(heap, At(heap, HeapFirst(heap)), heap.watermark) \cup {SENTINEL}
      /\ HeapFirst(heap) \in Addr \cup {SENTINEL}
  BY <1>2, WalkBegins DEF Locating, Walked
<1>5. CompactTypes'
  BY <1>1, <1>2, <1>4 DEF CompactTypes
<1>6. CompactPhase'
  BY <1>1, <1>2, <1>3, <1>4 DEF CompactPhase, Walking
<1> QED
  BY <1>5, <1>6 DEF CompactInv

LEMMA UpdateStepCompacts ==
    ASSUME CompactInv, UpdateStep
    PROVE  CompactInv'
<1>1. /\ pc = "update" /\ scan # SENTINEL /\ scan' = HeapNext(heap, scan)
      /\ UNCHANGED <<roots, pc, req, out, net, root, frames, forward_map, dest>>
  BY DEF UpdateStep, markVars
<1>2. /\ CompactTypes /\ root = 1 /\ frames = <<>> /\ ~heap.tag[GC_NULL].ref
      /\ scan \in Headers(heap, At(heap, scan), heap.watermark) \cup {SENTINEL}
      /\ Updating(heap, forward_map, roots, At(heap, scan), dest)
  BY <1>1 DEF CompactInv, CompactPhase, Walking
<1>3. /\ At(heap, scan) = scan /\ scan \in Headers(heap, Base, heap.watermark)
      /\ scan' \in Headers(heap, At(heap, scan'), heap.watermark) \cup {SENTINEL}
      /\ scan' \in Addr \cup {SENTINEL}
  BY <1>1, <1>2, WalkSteps DEF Updating
<1>4. \/ /\ IsMarked(heap, scan)
         /\ heap' = [heap EXCEPT !.word = [x \in Addr |-> IF x \in RefSlots(heap, scan)
                                                          THEN Moved(forward_map, heap.word[x])
                                                          ELSE heap.word[x]]]
      \/ ~IsMarked(heap, scan) /\ heap' = heap
  BY DEF UpdateStep, RefsUpdated, Updated, ForwardOf, CalculateForwardIndex, Moved, Place
<1>5. Updating(heap', forward_map, roots, At(heap', scan'), dest) /\ heap' \in Heap
  <2>1. Updating(heap, forward_map, roots, scan, dest)
    BY <1>2, <1>3
  <2> QED
    BY <1>1, <1>3, <1>4, <2>1, UpdateKeeps
<1>6. heap'.tag = heap.tag /\ heap'.watermark = heap.watermark
  <2>1. heap = [word |-> heap.word, tag |-> heap.tag, watermark |-> heap.watermark]
    BY <1>2 DEF CompactTypes, Heap
  <2> QED
    BY <1>4, <2>1
<1>7. scan' \in Headers(heap', At(heap', scan'), heap'.watermark) \cup {SENTINEL}
  BY <1>3, <1>6 DEF Headers, At
<1>8. CompactTypes'
  BY <1>1, <1>2, <1>3, <1>5 DEF CompactTypes
<1>9. CompactPhase'
  BY <1>1, <1>2, <1>5, <1>6, <1>7 DEF CompactPhase, Walking
<1> QED
  BY <1>8, <1>9 DEF CompactInv

LEMMA RelocateStartCompacts ==
    ASSUME CompactInv, RelocateStart
    PROVE  CompactInv'
<1>1. /\ pc = "update" /\ scan = SENTINEL /\ pc' = "relocate" /\ scan' = HeapFirst(heap)
      /\ UNCHANGED <<heap, roots, req, out, net, root, frames, forward_map, dest>>
  BY DEF RelocateStart, markVars
<1>2. /\ CompactTypes /\ root = 1 /\ frames = <<>> /\ ~heap.tag[GC_NULL].ref
      /\ Updating(heap, forward_map, roots, heap.watermark, dest)
  BY <1>1 DEF CompactInv, CompactPhase, Walking, At
<1>3. /\ Sliding(heap, forward_map, roots, At(heap, HeapFirst(heap)), Base, dest)
      /\ HeapFirst(heap) \in Headers(heap, At(heap, HeapFirst(heap)), heap.watermark) \cup {SENTINEL}
  BY <1>2, UpdateEnds
<1>4. HeapFirst(heap) \in Addr \cup {SENTINEL}
  BY <1>3 DEF Headers
<1>5. CompactTypes'
  BY <1>1, <1>2, <1>4 DEF CompactTypes
<1>6. CompactPhase'
  BY <1>1, <1>2, <1>3 DEF CompactPhase, Walking
<1> QED
  BY <1>5, <1>6 DEF CompactInv

LEMMA RelocateStepCompacts ==
    ASSUME CompactInv, RelocateStep
    PROVE  CompactInv'
<1> DEFINE to == Place(forward_map, scan)
<1>1. /\ pc = "relocate" /\ scan # SENTINEL /\ scan' = HeapNext(heap, scan)
      /\ UNCHANGED <<roots, pc, req, net, root, frames, forward_map, dest>>
  BY DEF RelocateStep, markVars
<1>2. /\ CompactTypes /\ root = 1 /\ frames = <<>> /\ ~heap.tag[GC_NULL].ref
      /\ scan \in Headers(heap, At(heap, scan), heap.watermark) \cup {SENTINEL}
      /\ \E q : Sliding(heap, forward_map, roots, At(heap, scan), q, dest)
  BY <1>1 DEF CompactInv, CompactPhase, Walking
<1>3. At(heap, scan) = scan
  BY <1>1 DEF At
<1>4. PICK q : Sliding(heap, forward_map, roots, scan, q, dest)
  BY <1>2, <1>3
<1>5. scan \in Headers(heap, scan, heap.watermark) /\ scan' = HeapNext(heap, scan)
  BY <1>1, <1>2, <1>3
<1>6. \/ /\ IsMarked(heap, scan)
         /\ heap' = MoveObject(ClearMarked(heap, scan), scan, Place(forward_map, scan))
         /\ out' = [out EXCEPT !.moved = IF scan # to THEN @ + ObjectWords(heap', to) ELSE @]
      \/ ~IsMarked(heap, scan) /\ heap' = heap /\ out' = out
  BY DEF RelocateStep, Slid, ForwardOf, CalculateForwardIndex, Place
<1>7. PICK e : Slide(heap, forward_map, scan, q, heap', e)
  BY <1>6 DEF Slide
<1>8. /\ Sliding(heap', forward_map, roots, At(heap', scan'), e, dest)
      /\ heap'.watermark = heap.watermark
      /\ scan' \in Headers(heap', At(heap', scan'), heap.watermark) \cup {SENTINEL}
      /\ IsMarked(heap, scan) => Place(forward_map, scan) = q /\ ObjectWords(heap', q) \in Nat
  BY <1>4, <1>5, <1>7, SlideKeeps, SMTT(30), ZenonT(30)
<1>9. ~heap'.tag[GC_NULL].ref
  <2>1. CASE ~IsMarked(heap, scan)
    BY <1>2, <1>6, <2>1
  <2>2. CASE IsMarked(heap, scan)
    <3>1. /\ heap \in Heap /\ scan \in Nat /\ heap.watermark \in Nat /\ heap.watermark <= HeapEnd
          /\ Tiled(heap, scan, heap.watermark) /\ Base <= q /\ q <= scan /\ q \in Nat
      BY <1>4, Numbers DEF Sliding, Planned, Heap
    <3>2. heap' = MoveObject(ClearMarked(heap, scan), scan, q)
      BY <1>6, <1>8, <2>2
    <3>3. \A x \in Addr : x < q \/ x >= scan + ObjectWords(heap, scan) =>
              heap'.word[x] = heap.word[x] /\ heap'.tag[x] = heap.tag[x]
      BY <1>5, <3>1, <3>2, SlideEffect
    <3>4. GC_NULL \in Addr /\ GC_NULL < q
      BY <3>1, Numbers DEF Addr
    <3> QED
      BY <1>2, <3>3, <3>4
  <2> QED
    BY <2>1, <2>2
<1>10. out' \in Outs
  <2>1. out \in Outs
    BY <1>2 DEF CompactTypes
  <2>2. out.moved \in Nat /\ (IsMarked(heap, scan) => out.moved + ObjectWords(heap', to) \in Nat)
    BY <1>8, <2>1 DEF Outs
  <2> HIDE DEF to
  <2> QED
    BY <1>6, <2>1, <2>2 DEF Outs
<1>11. heap' \in Heap /\ scan' \in Addr \cup {SENTINEL}
  BY <1>8 DEF Sliding, Headers
<1>12. CompactTypes'
  BY <1>1, <1>2, <1>10, <1>11 DEF CompactTypes
<1>13. CompactPhase'
  BY <1>1, <1>2, <1>8, <1>9 DEF CompactPhase, Walking
<1> QED
  BY <1>12, <1>13 DEF CompactInv

\* Every step of a compaction but its last leads to a phase of it.
LEMMA CompactStepKeeps ==
    ASSUME CompactInv, CompactStep
    PROVE  CompactInv' /\ pc \in {"mark"} \cup Walking /\ pc' \in {"mark"} \cup Walking
<1>1. pc \in {"mark"} \cup Walking /\ pc' \in {"mark"} \cup Walking
  BY DEF CompactStep, VisitRoot, VisitRef, LocateStart, MarkDone, LocateStep, UpdateRoots, UpdateStep,
         RelocateStart, RelocateStep, mutatorVars, Walking
<1>2. CompactInv'
  BY VisitCompacts, LocateStartCompacts, LocateStepCompacts, UpdateRootsCompacts,
     UpdateStepCompacts, RelocateStartCompacts, RelocateStepCompacts DEF CompactStep
<1> QED
  BY <1>1, <1>2

\* compact() ends: the watermark drops to where the last array now ends.
LEMMA TrimEffect ==
    ASSUME CompactInv, NEW next, CompactEnd(next)
    PROVE  /\ WellFormed(heap', roots, Base, dest) /\ heap'.watermark = dest
           /\ dest \in Base .. HeapEnd
           /\ \A a \in Headers(heap', Base, dest) : ~heap'.tag[a].marked
           /\ Headers(heap', Base, dest) = Headers(heap, Base, dest)
           /\ \A x \in Addr : x < dest => heap'.word[x] = heap.word[x] /\ heap'.tag[x] = heap.tag[x]
<1>1. /\ pc = "relocate" /\ scan = SENTINEL
      /\ heap' = Vacate(SetWatermark(heap, dest), dest, heap.watermark)
  BY DEF CompactEnd, Trimmed
<1>2. PICK q : Sliding(heap, forward_map, roots, heap.watermark, q, dest)
  BY <1>1 DEF CompactInv, CompactPhase, At
<1>3. Cut(heap, roots, q, dest, heap')
  BY <1>1, <1>2, SlideEnds
<1> QED
  BY <1>3 DEF Cut

\* The offsets a root may hold are addresses while the arrays are walked.
LEMMA CompactRoots ==
    ASSUME CompactInv, pc \in Walking
    PROVE  roots \in [RootSlots -> Addr]
<1>0. GC_NULL \in Addr
  BY Numbers DEF Addr
<1>2. ASSUME NEW T, T \subseteq Addr, roots \in [RootSlots -> T \cup {GC_NULL}]
      PROVE  roots \in [RootSlots -> Addr]
  BY <1>0, <1>2
<1>3. CASE pc = "locate"
  <2> DEFINE M == Survivors(heap, Base, heap.watermark)
  <2>1. roots \in [RootSlots -> M \cup {GC_NULL}]
    BY <1>3 DEF CompactInv, CompactPhase, Locating, References
  <2>2. M \subseteq Addr
    BY DEF Survivors, Headers
  <2> QED
    BY <1>2, <2>1, <2>2
<1>4. CASE pc = "update"
  <2> DEFINE M == Survivors(heap, Base, heap.watermark)
             T == Places(forward_map, M)
  <2>1. /\ roots \in [RootSlots -> T \cup {GC_NULL}] /\ heap \in Heap
        /\ Planned(heap, forward_map, M, Base, dest)
    BY <1>4 DEF CompactInv, CompactPhase, CompactTypes, Updating, References
  <2>2. T \subseteq Addr
    BY <2>1, PlacesAreAddresses
  <2> QED
    BY <1>2, <2>1, <2>2
<1>5. CASE pc = "relocate"
  <2>1. PICK q : Sliding(heap, forward_map, roots, At(heap, scan), q, dest)
    BY <1>5 DEF CompactInv, CompactPhase
  <2> DEFINE R == Survivors(heap, At(heap, scan), heap.watermark)
             T == Headers(heap, Base, q) \cup Places(forward_map, R)
  <2>2. /\ roots \in [RootSlots -> T \cup {GC_NULL}] /\ heap \in Heap
        /\ Planned(heap, forward_map, R, q, dest)
    BY <2>1 DEF Sliding, References
  <2>3. T \subseteq Addr
    BY <2>2, PlacesAreAddresses DEF Headers
  <2> QED
    BY <1>2, <2>2, <2>3
<1> QED
  BY <1>3, <1>4, <1>5 DEF Walking

\* The entry of an array is the room of the marked arrays before it, and no entry of an
\* earlier collection is where a reference leads.
LEMMA CompactForwards == CompactInv => ForwardExact
<1> SUFFICES ASSUME CompactInv PROVE ForwardExact
  OBVIOUS
<1> DEFINE M == Survivors(heap, Base, heap.watermark)
<1>0. Marked = M
  BY DEF Marked, Survivors
<1>1. /\ heap \in Heap /\ scan \in Addr \cup {SENTINEL}
      /\ Unwritten \notin Addr /\ GC_NULL \in Addr
  BY Numbers DEF CompactInv, CompactTypes, Unwritten, Addr
<1>2. CASE pc = "locate"
  <2>1. /\ Counted(heap, forward_map, {a \in M : a < At(heap, scan)}, dest)
        /\ References(heap, roots, M, M)
    BY <1>2 DEF CompactInv, CompactPhase, Locating
  <2>2. ASSUME NEW a \in M, a < scan
        PROVE  ForwardOf(a) = Base + Cardinality(Covered(heap, {b \in M : b < a}))
    <3>1. a \in Nat /\ a < At(heap, scan) /\ At(heap, scan) \in Nat
      BY <1>1, <2>2, SurvivorsWithin, Numbers DEF At, Heap
    <3>2. {b \in {x \in M : x < At(heap, scan)} : b < a} = {b \in M : b < a}
      <4>1. \A b \in M : b \in Nat
        BY SurvivorsWithin
      <4> HIDE DEF M
      <4>2. ASSUME NEW b \in M, b < a PROVE b < At(heap, scan)
        BY <3>1, <4>1, <4>2
      <4> QED
        BY <4>2
    <3> HIDE DEF M
    <3> QED
      BY <2>1, <3>1, <3>2 DEF Counted, Place, ForwardOf, CalculateForwardIndex
  <2>3. M \subseteq Addr
    BY DEF Survivors, Headers
  <2> HIDE DEF M
  <2>4. \A r \in RootSlots : roots[r] # Unwritten
    BY <1>1, <2>1, <2>3 DEF References
  <2>5. \A a \in M : \A s \in RefSlots(heap, a) : heap.word[s] # Unwritten
    BY <1>1, <2>1, <2>3 DEF References
  <2> QED
    BY <1>0, <1>2, <2>2, <2>4, <2>5 DEF ForwardExact, RootSet
<1>3. CASE pc = "update"
  <2> DEFINE T == Places(forward_map, M)
             S == {a \in M : a < At(heap, scan)}
  <2>1. /\ Counted(heap, forward_map, M, dest) /\ Planned(heap, forward_map, M, Base, dest)
        /\ References(heap, roots, S, T)
        /\ \A a \in M : a >= At(heap, scan) =>
              \A s \in RefSlots(heap, a) : heap.word[s] \in M \cup {GC_NULL}
    BY <1>3 DEF CompactInv, CompactPhase, Updating
  <2>2. \A a \in M : ForwardOf(a) = Base + Cardinality(Covered(heap, {b \in M : b < a}))
    BY <2>1 DEF Counted, Place, ForwardOf, CalculateForwardIndex
  <2>3. M \subseteq Addr /\ T \subseteq Addr
    BY <1>1, <2>1, PlacesAreAddresses
  <2>4. At(heap, scan) \in Nat /\ \A a \in M : a \in Nat
    BY <1>1, SurvivorsWithin, Numbers DEF At, Heap
  <2> HIDE DEF M, T
  <2>5. \A r \in RootSlots : roots[r] # Unwritten
    BY <1>1, <2>1, <2>3 DEF References
  <2>6. \A a \in M : \A s \in RefSlots(heap, a) : heap.word[s] # Unwritten
    BY <1>1, <2>1, <2>3, <2>4 DEF References
  <2> QED
    BY <1>0, <1>3, <2>2, <2>5, <2>6 DEF ForwardExact, RootSet
<1>4. CASE pc = "relocate"
  <2>1. PICK q : Sliding(heap, forward_map, roots, At(heap, scan), q, dest)
    BY <1>4 DEF CompactInv, CompactPhase
  <2> DEFINE p == At(heap, scan)
             R == Survivors(heap, p, heap.watermark)
             T == Headers(heap, Base, q) \cup Places(forward_map, R)
  <2>2. /\ References(heap, roots, Headers(heap, Base, q) \cup R, T) /\ p \in Nat /\ Base <= p
        /\ Planned(heap, forward_map, R, q, dest)
        /\ \A a \in Headers(heap, Base, p) : ~heap.tag[a].marked
    BY <2>1 DEF Sliding, Planned
  <2>3. T \subseteq Addr
    BY <1>1, <2>2, PlacesAreAddresses DEF Headers
  <2>4. \A a \in M : a \in R
    BY <2>2, Numbers DEF Survivors, Headers, IsMarked
  <2> HIDE DEF M, T, R
  <2>5. \A r \in RootSlots : roots[r] # Unwritten
    BY <1>1, <2>2, <2>3 DEF References
  <2>6. \A a \in M : \A s \in RefSlots(heap, a) : heap.word[s] # Unwritten
    BY <1>1, <2>2, <2>3, <2>4 DEF References
  <2> QED
    BY <1>0, <1>4, <2>5, <2>6 DEF ForwardExact, RootSet
<1> QED
  BY <1>2, <1>3, <1>4 DEF ForwardExact

\* The walk ahead is intact and no array is moved up or onto one still to be moved.
LEMMA CompactSlides == CompactInv => SlideSafe
<1> SUFFICES ASSUME CompactInv, pc = "relocate"
             PROVE  /\ scan # SENTINEL => Tiled(heap, scan, heap.watermark)
                    /\ \A a \in Headers(heap, scan, heap.watermark) :
                          IsMarked(heap, a) => Base <= ForwardOf(a) /\ ForwardOf(a) <= a
  BY DEF SlideSafe
<1>1. PICK q : Sliding(heap, forward_map, roots, At(heap, scan), q, dest)
  BY DEF CompactInv, CompactPhase
<1>2. /\ heap \in Heap /\ Tiled(heap, At(heap, scan), heap.watermark) /\ Base <= q /\ q \in Nat
      /\ Planned(heap, forward_map, Survivors(heap, At(heap, scan), heap.watermark), q, dest)
  BY <1>1 DEF Sliding, Planned
<1>3. scan # SENTINEL => Tiled(heap, scan, heap.watermark)
  BY <1>2 DEF At
<1>4. ASSUME NEW a \in Headers(heap, scan, heap.watermark), IsMarked(heap, a)
      PROVE  Base <= ForwardOf(a) /\ ForwardOf(a) <= a
  <2>1. scan # SENTINEL
    <3>1. a \in Nat /\ scan <= a /\ a < heap.watermark /\ heap.watermark \in Nat
          /\ heap.watermark <= HeapEnd /\ HeapEnd < W - 2
      BY <1>2, HeadersWithin, Numbers DEF Heap
    <3> QED
      BY <3>1, Numbers DEF SENTINEL
  <2>2. a \in Survivors(heap, At(heap, scan), heap.watermark) /\ a \in Nat
    BY <1>4, <2>1, HeadersWithin DEF At, Survivors
  <2>3. Place(forward_map, a) \in Nat /\ q <= Place(forward_map, a) /\ Place(forward_map, a) <= a
    BY <1>2, <2>2 DEF Planned
  <2>4. ForwardOf(a) = Place(forward_map, a)
    BY DEF ForwardOf, CalculateForwardIndex, Place
  <2> QED
    BY <1>2, <2>3, <2>4
<1> QED
  BY <1>3, <1>4

LEMMA CompactEndKeeps ==
    ASSUME CompactInv, NEW next, CompactEnd(next)
    PROVE  /\ WellFormed(heap', roots', Base, heap'.watermark) /\ NoMarks(heap')
           /\ ~heap'.tag[GC_NULL].ref /\ CompactTypes'
           /\ pc = "relocate" /\ pc' = next
           /\ root = 1 /\ frames = <<>> /\ UNCHANGED <<root, frames, roots, req>>
<1>1. /\ pc = "relocate" /\ scan = SENTINEL /\ pc' = next
      /\ heap' = Vacate(SetWatermark(heap, dest), dest, heap.watermark)
      /\ out' = [out EXCEPT !.live = dest - Base, !.free = Gap, !.largest = Gap, !.freed = Gap]
      /\ dest' = Base /\ forward_map' = [i \in Addr |-> Unwritten]
      /\ UNCHANGED <<roots, req, net, root, frames, scan>>
  BY DEF CompactEnd, Trimmed, markVars
<1>2. /\ CompactTypes /\ root = 1 /\ frames = <<>> /\ ~heap.tag[GC_NULL].ref
      /\ \E q : Sliding(heap, forward_map, roots, heap.watermark, q, dest)
  BY <1>1 DEF CompactInv, CompactPhase, Walking, At
<1>3. PICK q : Sliding(heap, forward_map, roots, heap.watermark, q, dest)
  BY <1>2
<1>4. /\ WellFormed(heap', roots, Base, dest) /\ heap'.watermark = dest
      /\ dest \in Base .. HeapEnd
      /\ \A a \in Headers(heap', Base, dest) : ~heap'.tag[a].marked
      /\ Headers(heap', Base, dest) = Headers(heap, Base, dest)
      /\ \A x \in Addr : x < dest => heap'.word[x] = heap.word[x] /\ heap'.tag[x] = heap.tag[x]
  BY TrimEffect
<1>5. dest \in Nat /\ dest >= Base /\ dest <= heap.watermark /\ heap.watermark \in Nat
  BY <1>2, <1>3, Numbers DEF CompactTypes, Sliding, Heap
<1>6. out' \in Outs
  <2>1. dest - Base \in Nat /\ Gap \in Nat
    BY <1>5 DEF Gap
  <2> HIDE DEF Gap
  <2> QED
    BY <1>1, <1>2, <2>1 DEF CompactTypes, Outs
<1>7. GC_NULL \in Addr /\ GC_NULL < dest
  BY <1>5, Numbers DEF Addr
<1>8. heap' \in Heap /\ Base \in Base .. HeapEnd
  BY <1>4, Numbers DEF WellFormed
<1>9. CompactTypes'
  BY <1>1, <1>2, <1>6, <1>8 DEF CompactTypes
<1> QED
  BY <1>1, <1>2, <1>4, <1>7, <1>9 DEF NoMarks

-----------------------------------------------------------------------------
(* What the program sees. While references are rewritten and arrays slide,  *)
(* the heap is no heap the program could run on; it is compared with the    *)
(* heap h0 of the moment update_references began.                           *)

\* The heap h0 and roots rs0 are those the program last saw.
Began(h0, rs0) ==
    /\ rs0 \in [RootSlots -> Addr]
    /\ Readable(h0, Live(h0, rs0)) /\ Distinct(h0, Live(h0, rs0))
    /\ view = ViewOf(h0, rs0)

\* Where the plan f moves every array that is reachable in h0.
Moves(f, h0, rs0) == [a \in Live(h0, rs0) |-> Place(f, a)]

\* The array at a in h0 stands at b in h, and holds its references as F moves them.
Arrived(h0, h, F, a, b) ==
    /\ h.word[b] = h0.word[a]
    /\ h.tag[b].ref = h0.tag[a].ref /\ h.tag[b].id = h0.tag[a].id
    /\ \A k \in 1 .. h0.word[a] :
          h.word[b + Header + k - 1] = IF h0.tag[a].ref THEN Carried(F, h0.word[a + Header + k - 1])
                                                        ELSE h0.word[a + Header + k - 1]

\* update_references is at p: the arrays below p hold their new references.
Rewritten(h0, rs0, h, f, rs, p) ==
    LET L == Live(h0, rs0)
        F == Moves(f, h0, rs0)
    IN  /\ L \subseteq Survivors(h, Base, h.watermark)
        /\ rs = [r \in RootSlots |-> Carried(F, rs0[r])]
        /\ \A a \in L : a < p => Arrived(h0, h, F, a, a)
        /\ \A a \in L : a >= p => Unmoved(h0, h, a)

\* relocate is at p, and has filled the heap up to q: the arrays below p are where
\* the plan moves them, the others where they were.
Relocated(h0, rs0, h, f, rs, p, q) ==
    LET L == Live(h0, rs0)
        F == Moves(f, h0, rs0)
    IN  /\ L \subseteq Addr
        /\ rs = [r \in RootSlots |-> Carried(F, rs0[r])]
        /\ \A a \in L : a < p =>
              /\ F[a] \in Nat /\ Base <= F[a] /\ F[a] + Header + h0.word[a] <= q
              /\ Arrived(h0, h, F, a, F[a])
        /\ \A a \in L : a >= p => a \in Survivors(h, p, h.watermark) /\ Arrived(h0, h, F, a, a)

\* Nothing else survives: what is still marked from p on was reached in h0, and what
\* stands below q is where the plan moves an array that was.
Left(h0, rs0, h, f, p, q) ==
    /\ Survivors(h, p, h.watermark) \subseteq Live(h0, rs0)
    /\ Headers(h, Base, q) \subseteq {Place(f, a) : a \in Live(h0, rs0)}

\* compute_locations is done and the roots are rewritten.
LEMMA RewritingBegins ==
    ASSUME Seen, NEW f, NEW p, NEW d, Locating(heap, f, roots, p, d),
           NEW rs, rs = [r \in RootSlots |-> Moved(f, roots[r])]
    PROVE  Began(heap, roots) /\ Rewritten(heap, roots, heap, f, rs, Base)
<1> DEFINE M == Survivors(heap, Base, heap.watermark)
           L == Live(heap, roots)
           F == Moves(f, heap, roots)
<1>1. /\ heap \in Heap /\ Base <= heap.watermark /\ Tiled(heap, Base, heap.watermark)
      /\ roots \in [RootSlots -> M \cup {GC_NULL}]
      /\ \A a \in M : \A s \in RefSlots(heap, a) : heap.word[s] \in M \cup {GC_NULL}
  BY DEF Locating, Walked, References
<1>2. /\ M \subseteq Headers(heap, Base, heap.watermark) /\ M \subseteq Addr
      /\ \A a \in M : a >= Base /\ a \in Nat
  BY SurvivorsWithin
<1>3. heap.watermark \in Nat /\ heap.watermark <= HeapEnd /\ GC_NULL \in Addr
  BY <1>1, Numbers DEF Heap, Addr
<1>4. \A a \in M : a + ObjectWords(heap, a) <= HeapEnd
  <2> SUFFICES ASSUME NEW a \in M PROVE a + ObjectWords(heap, a) <= HeapEnd
    OBVIOUS
  <2>1. a \in Headers(heap, Base, heap.watermark) /\ Base \in Nat
    BY <1>2
  <2>2. /\ a + ObjectWords(heap, a) <= heap.watermark /\ a \in Nat
        /\ ObjectWords(heap, a) \in Nat
    BY <1>1, <1>3, <2>1, TiledWithin
  <2> QED
    BY <1>3, <2>2, Numbers
<1>5. roots \in [RootSlots -> Addr] /\ \A r \in RootSlots : roots[r] \in M \cup {GC_NULL}
  BY <1>1, <1>2, <1>3
<1> HIDE DEF M
<1>6. L \subseteq M
  BY <1>1, <1>2, <1>5, LiveWithin
<1>7. Readable(heap, L)
  <2> HIDE DEF L
  <2> QED
    BY <1>1, <1>2, <1>4, <1>6, ReadableWithin
<1>8. Began(heap, roots)
  BY <1>5, <1>7 DEF Began, Seen
<1>9. \A r \in RootSlots : Moved(f, roots[r]) = Carried(F, roots[r])
  <2>1. \A r \in RootSlots : roots[r] \in L \cup {GC_NULL}
    BY <1>5, LiveHolds
  <2> QED
    BY <2>1 DEF Moved, Carried, Moves
<1>10. rs = [r \in RootSlots |-> Carried(F, roots[r])]
  BY <1>9
<1>11. \A a \in L : ~(a < Base) /\ Unmoved(heap, heap, a)
  BY <1>2, <1>6 DEF Unmoved
<1> QED
  BY <1>6, <1>8, <1>10, <1>11 DEF Rewritten, M

\* An array whose words and tag are those it had keeps what it holds.
LEMMA StillArrived ==
    ASSUME NEW h0, NEW h, NEW g, NEW F, NEW a, NEW b \in Addr,
           h0.word[a] \in Nat, b + Header + h0.word[a] <= HeapEnd,
           \A x \in Addr : x >= b /\ x < b + Header + h0.word[a] => g.word[x] = h.word[x],
           g.tag[b].ref = h.tag[b].ref, g.tag[b].id = h.tag[b].id
    PROVE  /\ Arrived(h0, h, F, a, b) => Arrived(h0, g, F, a, b)
           /\ a = b /\ Unmoved(h0, h, a) => Unmoved(h0, g, a)
<1>1. b \in Nat /\ HeapEnd \in Nat
  BY Numbers
<1>2. g.word[b] = h.word[b]
  BY <1>1
<1>3. ASSUME NEW k \in 1 .. h0.word[a]
      PROVE  g.word[b + Header + k - 1] = h.word[b + Header + k - 1]
  <2>1. /\ b + Header + k - 1 \in Nat /\ b + Header + k - 1 < HeapEnd
        /\ b + Header + k - 1 >= b /\ b + Header + k - 1 < b + Header + h0.word[a]
    BY <1>1, <1>3
  <2>2. b + Header + k - 1 \in Addr
    BY <2>1, <1>1 DEF Addr
  <2> QED
    BY <2>1, <2>2
<1> QED
  BY <1>2, <1>3 DEF Arrived, Unmoved

\* One chunk's references are rewritten.
LEMMA RewritingKeeps ==
    ASSUME NEW h0, NEW rs0, Began(h0, rs0),
           NEW h, NEW f, NEW rs, NEW c \in Headers(h, Base, h.watermark), NEW d,
           Updating(h, f, rs, c, d), Rewritten(h0, rs0, h, f, rs, c), NEW n, n = HeapNext(h, c),
           NEW g,
           \/ /\ IsMarked(h, c)
              /\ g = [h EXCEPT !.word = [x \in Addr |-> IF x \in RefSlots(h, c)
                                                        THEN Moved(f, h.word[x]) ELSE h.word[x]]]
           \/ ~IsMarked(h, c) /\ g = h
    PROVE  Rewritten(h0, rs0, g, f, rs, At(g, n))
<1> DEFINE M == Survivors(h, Base, h.watermark)
           H == Headers(h, Base, h.watermark)
           L == Live(h0, rs0)
           F == Moves(f, h0, rs0)
           p == At(h, n)
<1>1. /\ Walked(h, c) /\ h \in Heap /\ Tiled(h, Base, h.watermark)
  BY DEF Updating, Walked
<1>2. \A a \in H : a < p <=> a < c \/ a = c
  BY <1>1, WalkGoesOn
<1>3. /\ c \in Addr /\ c \in Nat /\ M \subseteq H /\ H \subseteq Addr /\ H \subseteq Nat
      /\ h.watermark \in Nat /\ h.watermark <= HeapEnd
  BY <1>1, Numbers DEF Survivors, Headers, Heap
<1>4. /\ L \subseteq M
      /\ rs = [r \in RootSlots |-> Carried(F, rs0[r])]
      /\ \A a \in L : a < c => Arrived(h0, h, F, a, a)
      /\ \A a \in L : a >= c => Unmoved(h0, h, a)
  BY DEF Rewritten
<1>5. Readable(h0, L)
  BY DEF Began
<1> HIDE DEF p, H, L, F
<1>6. CASE ~IsMarked(h, c)
  <2>1. g = h /\ At(g, n) = p
    BY <1>6 DEF p
  <2>2. c \notin M
    BY <1>6 DEF Survivors
  <2> HIDE DEF M
  <2>3. \A a \in L : /\ a < p => a < c
                     /\ a >= p => a >= c
    <3>1. \A a \in L : a \in H /\ a \in Nat /\ a # c /\ (a < p <=> a < c)
      BY <1>2, <1>3, <1>4, <2>2
    <3>2. p \in Nat
      BY <1>1, WalkGoesOn DEF p
    <3> QED
      BY <1>3, <3>1, <3>2
  <2> QED
    BY <1>4, <2>1, <2>3 DEF Rewritten, L, F, M
<1>7. CASE IsMarked(h, c)
  <2> DEFINE word == [x \in Addr |-> IF x \in RefSlots(h, c) THEN Moved(f, h.word[x])
                                                             ELSE h.word[x]]
  <2>1. g = [h EXCEPT !.word = word] /\ h = [word |-> h.word, tag |-> h.tag, watermark |-> h.watermark]
    BY <1>1, <1>7 DEF Heap
  <2>2. g.tag = h.tag /\ g.watermark = h.watermark /\ g.word = word
    BY <2>1
  <2>3. \A x \in Addr : /\ x \in RefSlots(h, c) => g.word[x] = Moved(f, h.word[x])
                        /\ x \notin RefSlots(h, c) => g.word[x] = h.word[x]
    BY <2>2
  <2> HIDE DEF word
  <2>4. Survivors(g, Base, g.watermark) = M /\ At(g, n) = p
    BY <2>2 DEF Survivors, IsMarked, Headers, At, p
  <2> HIDE DEF M
  <2>5. ASSUME NEW a \in L
        PROVE  /\ a \in H /\ a \in Addr /\ a \in Nat /\ h0.word[a] \in Nat
               /\ h.word[a] = h0.word[a] /\ h.tag[a].ref = h0.tag[a].ref
               /\ a + Header + h0.word[a] <= HeapEnd
    <3>1. a \in H /\ a \in Addr /\ a \in Nat /\ (a < c \/ a >= c)
      BY <1>3, <1>4
    <3>2. h.word[a] = h0.word[a] /\ h.tag[a].ref = h0.tag[a].ref
      BY <1>4, <3>1 DEF Arrived, Unmoved
    <3> QED
      BY <1>5, <3>1, <3>2 DEF Readable
  <2>6. ASSUME NEW a \in L, a # c
        PROVE  /\ Arrived(h0, h, F, a, a) => Arrived(h0, g, F, a, a)
               /\ Unmoved(h0, h, a) => Unmoved(h0, g, a)
    <3>1. ASSUME NEW x \in Addr, x >= a, x < a + Header + h0.word[a] PROVE g.word[x] = h.word[x]
      <4>1. SUFFICES ASSUME x \in RefSlots(h, c) PROVE FALSE
        BY <2>3, <3>1
      <4>2. x >= c + Header /\ x < c + ObjectWords(h, c) /\ x \in Nat
        BY <1>1, <1>3, <4>1, SlotRange DEF H
      <4>3. ObjectWords(h, a) \in Nat /\ ObjectWords(h, c) \in Nat /\ a \in Nat
            /\ ObjectWords(h, a) = Header + h0.word[a]
        BY <1>1, <1>3, <2>5, ChunkSize DEF ObjectWords
      <4>4. \/ a < c /\ a + ObjectWords(h, a) <= c
            \/ c < a /\ c + ObjectWords(h, c) <= a
        <5>1. a \in Headers(h, Base, h.watermark) /\ Base \in Nat
          BY <2>5 DEF H
        <5> QED
          BY <1>1, <1>3, <5>1, <2>6, ChunksApart
      <4> QED
        BY <1>3, <2>5, <3>1, <4>2, <4>3, <4>4
    <3> QED
      BY <2>2, <2>5, <3>1, StillArrived
  <2>7. ASSUME c \in L, Unmoved(h0, h, c) PROVE Arrived(h0, g, F, c, c)
    <3>1. g.word[c] = h.word[c]
      <4>1. c \notin RefSlots(h, c)
        BY <1>1, <1>3, SlotRange DEF H
      <4> QED
        BY <1>3, <2>3, <4>1
    <3>2. ASSUME NEW k \in 1 .. h0.word[c]
          PROVE  g.word[c + Header + k - 1] = IF h0.tag[c].ref
                                              THEN Carried(F, h0.word[c + Header + k - 1])
                                              ELSE h0.word[c + Header + k - 1]
      <4> DEFINE x == c + Header + k - 1
      <4>1. x \in Addr /\ x \in (c + Header) .. (c + Header + h0.word[c] - 1)
        <5>1. h0.word[c] \in Nat /\ c + Header + h0.word[c] <= HeapEnd /\ HeapEnd \in Nat
          BY <2>5, <2>7, Numbers
        <5> QED
          BY <1>3, <5>1 DEF Addr
      <4>2. h.word[x] = h0.word[x]
        BY <2>7 DEF Unmoved
      <4>3. x \in RefSlots(h, c) <=> h0.tag[c].ref
        BY <2>5, <2>7, <4>1 DEF RefSlots
      <4>4. CASE h0.tag[c].ref
        <5>1. h0.word[x] \in L \cup {GC_NULL}
          BY <1>5, <2>7, <4>4, SlotsReached DEF L
        <5>2. Moved(f, h0.word[x]) = Carried(F, h0.word[x])
          BY <5>1 DEF Moved, Carried, F, Moves, L
        <5> QED
          BY <2>3, <4>1, <4>2, <4>3, <4>4, <5>2
      <4>5. CASE ~h0.tag[c].ref
        BY <2>3, <4>1, <4>2, <4>3, <4>5
      <4> QED
        BY <4>4, <4>5
    <3> QED
      BY <2>2, <2>7, <3>1, <3>2 DEF Arrived, Unmoved
  <2>8. ASSUME NEW a \in L
        PROVE  /\ a < p => Arrived(h0, g, F, a, a)
               /\ a >= p => Unmoved(h0, g, a)
    <3>1. p \in Nat /\ c < p /\ a \in Nat /\ (a < p <=> a < c \/ a = c)
      BY <1>1, <1>2, <2>5, WalkGoesOn DEF p
    <3>2. CASE a = c
      BY <1>3, <1>4, <2>7, <2>8, <3>1, <3>2
    <3>3. CASE a # c
      BY <1>3, <1>4, <2>6, <3>1, <3>3
    <3> QED
      BY <3>2, <3>3
  <2> QED
    BY <1>4, <2>4, <2>8 DEF Rewritten, L, F, M
<1> QED
  BY <1>6, <1>7

\* All references are rewritten: relocate starts with every array where it was.
LEMMA RelocatingBegins ==
    ASSUME NEW h0, NEW rs0, NEW h, NEW f, NEW rs, Rewritten(h0, rs0, h, f, rs, h.watermark)
    PROVE  Relocated(h0, rs0, h, f, rs, Base, Base)
<1> DEFINE L == Live(h0, rs0)
           F == Moves(f, h0, rs0)
<1>1. /\ L \subseteq Survivors(h, Base, h.watermark)
      /\ rs = [r \in RootSlots |-> Carried(F, rs0[r])]
      /\ \A a \in L : a < h.watermark => Arrived(h0, h, F, a, a)
  BY DEF Rewritten
<1>2. \A a \in Survivors(h, Base, h.watermark) : a \in Addr /\ a \in Nat /\ Base <= a /\ a < h.watermark
  BY SurvivorsWithin
<1> HIDE DEF L, F
<1>3. L \subseteq Addr /\ \A a \in L : ~(a < Base) /\ Arrived(h0, h, F, a, a)
  BY <1>1, <1>2
<1> QED
  BY <1>1, <1>3 DEF Relocated, L, F

\* One chunk slides down.
LEMMA RelocatingKeeps ==
    ASSUME NEW h0, NEW rs0, Began(h0, rs0),
           NEW h, NEW f, NEW rs, NEW c, c \in Headers(h, c, h.watermark), NEW q, NEW d,
           Sliding(h, f, rs, c, q, d), Relocated(h0, rs0, h, f, rs, c, q),
           NEW n, n = HeapNext(h, c), NEW g, NEW e, Slide(h, f, c, q, g, e)
    PROVE  Relocated(h0, rs0, g, f, rs, At(g, n), e)
<1> DEFINE w == h.watermark
           L == Live(h0, rs0)
           F == Moves(f, h0, rs0)
           p == At(h, n)
           k == ObjectWords(h, c)
<1>1. /\ h \in Heap /\ c \in Nat /\ Base <= q /\ q <= c /\ c <= w /\ q \in Nat
      /\ Tiled(h, c, w)
  BY DEF Sliding, Planned
<1>2. /\ w \in Nat /\ w <= HeapEnd /\ HeapEnd \in Nat /\ c \in Addr /\ q <= HeapEnd
  BY <1>1, Numbers DEF Heap, Headers
<1>3. /\ p = c + k /\ c < p /\ p <= w /\ p \in Nat
  BY <1>1, NextFrom
<1>4. k \in Nat /\ k >= 2
  BY <1>1, <1>2, ChunkSize
<1>5. \A x \in Headers(h, c, w) : x = c \/ x >= p
  <2>1. \A x \in Headers(h, c, w) : ~(c < x /\ x < c + k)
    BY <1>1, <1>2, TiledWithin
  <2>2. \A x \in Headers(h, c, w) : x \in Nat /\ c <= x
    BY Numbers DEF Headers
  <2> QED
    BY <1>3, <2>1, <2>2
<1>6. /\ L \subseteq Addr
      /\ rs = [r \in RootSlots |-> Carried(F, rs0[r])]
      /\ \A a \in L : a < c =>
            /\ F[a] \in Nat /\ Base <= F[a] /\ F[a] + Header + h0.word[a] <= q
            /\ Arrived(h0, h, F, a, F[a])
      /\ \A a \in L : a >= c => a \in Survivors(h, c, w) /\ Arrived(h0, h, F, a, a)
  BY DEF Relocated
<1>7. \A a \in L : a \in Addr /\ a \in Nat /\ h0.word[a] \in Nat /\ a + Header + h0.word[a] <= HeapEnd
  BY <1>6, Numbers DEF Began, Readable
<1>8. \A a \in L : /\ a >= c => a \in Headers(h, c, w) /\ IsMarked(h, a) /\ (a = c \/ a >= p)
                   /\ a < c \/ a >= c
  BY <1>1, <1>5, <1>6, <1>7 DEF Survivors
<1>9. g.watermark = w /\ At(g, n) = p
  BY SlideKeeps DEF At
<1> HIDE DEF w, L, F, p, k
<1>10. CASE ~IsMarked(h, c)
  <2>1. g = h /\ e = q
    BY <1>10 DEF Slide
  <2>2. \A a \in L : /\ a < p => a < c
                     /\ a >= p => a >= c /\ a \in Survivors(h, p, w)
    <3> SUFFICES ASSUME NEW a \in L
                 PROVE  /\ a < p => a < c
                        /\ a >= p => a >= c /\ a \in Survivors(h, p, w)
      OBVIOUS
    <3>1. a \in Nat /\ (a < c \/ a >= p) /\ (a >= c => a \in Headers(h, c, w) /\ IsMarked(h, a))
      BY <1>7, <1>8, <1>10
    <3>2. a >= p => a \in Headers(h, p, w)
      BY <1>1, <1>3, <3>1 DEF Headers
    <3> QED
      BY <1>1, <1>3, <3>1, <3>2 DEF Survivors
  <2> QED
    BY <1>6, <1>9, <2>1, <2>2 DEF Relocated, L, F, w
<1>11. CASE IsMarked(h, c)
  <2>1. Place(f, c) = q /\ g = MoveObject(ClearMarked(h, c), c, q) /\ e = q + k
    <3>1. Place(f, c) = q
      BY <1>11, SlideKeeps
    <3> QED
      BY <1>11, <3>1 DEF Slide, k
  <2>2. /\ c + k <= w /\ q \in Addr
        /\ g.word[q] = h.word[c]
        /\ g.tag[q].id = h.tag[c].id /\ g.tag[q].ref = h.tag[c].ref
        /\ \A x \in Addr : q < x /\ x < q + k => g.word[x] = h.word[c + (x - q)]
        /\ \A x \in Addr : x < q \/ x >= c + k => g.word[x] = h.word[x] /\ g.tag[x] = h.tag[x]
    <3>1. c \in Headers(h, c, w) /\ Tiled(h, c, w) /\ w \in Nat /\ w <= HeapEnd
      BY <1>1, <1>2 DEF w
    <3> QED
      BY <1>1, <2>1, <3>1, SlideEffect DEF k
  <2>3. ASSUME NEW a \in L, a < c
        PROVE  /\ F[a] \in Nat /\ Base <= F[a] /\ F[a] + Header + h0.word[a] <= e
               /\ Arrived(h0, g, F, a, F[a])
    <3>1. /\ F[a] \in Nat /\ Base <= F[a] /\ F[a] + Header + h0.word[a] <= q
          /\ Arrived(h0, h, F, a, F[a]) /\ h0.word[a] \in Nat
      BY <1>6, <1>7, <2>3
    <3>2. F[a] < q /\ F[a] \in Addr
      BY <1>1, <1>2, <3>1 DEF Addr
    <3>3. \A x \in Addr : x >= F[a] /\ x < F[a] + Header + h0.word[a] => g.word[x] = h.word[x]
      <4>1. \A x \in Addr : x < F[a] + Header + h0.word[a] => x < q
        BY <1>1, <3>1, Numbers
      <4> QED
        BY <2>2, <4>1
    <3>4. g.tag[F[a]] = h.tag[F[a]]
      BY <2>2, <3>2
    <3>5. F[a] + Header + h0.word[a] <= HeapEnd
      BY <1>1, <1>2, <3>1
    <3>6. Arrived(h0, g, F, a, F[a])
      BY <3>1, <3>2, <3>3, <3>4, <3>5, StillArrived
    <3> QED
      BY <1>1, <1>4, <2>1, <3>1, <3>6
  <2>4. ASSUME c \in L
        PROVE  /\ F[c] = q /\ F[c] + Header + h0.word[c] <= e
               /\ Arrived(h0, g, F, c, F[c])
    <3>1. F[c] = q
      BY <2>1, <2>4 DEF F, Moves, L
    <3>2. Arrived(h0, h, F, c, c) /\ h0.word[c] \in Nat
      BY <1>1, <1>6, <1>7, <2>4
    <3>3. k = Header + h0.word[c]
      BY <3>2 DEF k, ObjectWords, Arrived
    <3>4. ASSUME NEW j \in 1 .. h0.word[c]
          PROVE  g.word[q + Header + j - 1] = h.word[c + Header + j - 1]
      <4> DEFINE x == q + Header + j - 1
      <4>1. /\ x \in Nat /\ q < x /\ x < q + k /\ x < HeapEnd
            /\ c + (x - q) = c + Header + j - 1
        BY <1>1, <1>2, <1>4, <2>2, <3>2, <3>3, <3>4
      <4>2. x \in Addr
        BY <1>2, <4>1 DEF Addr
      <4> QED
        BY <2>2, <4>1, <4>2
    <3>5. Arrived(h0, g, F, c, q)
      BY <2>2, <3>2, <3>4 DEF Arrived
    <3> QED
      BY <1>1, <2>1, <3>1, <3>2, <3>3, <3>5
  <2>5. ASSUME NEW a \in L, a >= c, a # c
        PROVE  a \in Survivors(g, p, w) /\ Arrived(h0, g, F, a, a)
    <3>1. /\ a \in Headers(h, c, w) /\ IsMarked(h, a) /\ a >= p /\ a \in Addr /\ a \in Nat
          /\ Arrived(h0, h, F, a, a) /\ h0.word[a] \in Nat /\ a + Header + h0.word[a] <= HeapEnd
      BY <1>6, <1>7, <1>8, <2>5
    <3>2. \A x \in Addr : x >= a => g.word[x] = h.word[x] /\ g.tag[x] = h.tag[x]
      <4>1. \A x \in Addr : x >= a => x >= c + k
        BY <1>3, <3>1, Numbers
      <4> QED
        BY <2>2, <4>1
    <3>3. g.tag[a] = h.tag[a]
      BY <3>1, <3>2
    <3>4. a \in Survivors(g, p, w)
      BY <3>1, <3>3 DEF Survivors, Headers, IsMarked
    <3>5. Arrived(h0, g, F, a, a)
      BY <3>1, <3>2, <3>3, StillArrived
    <3> QED
      BY <3>4, <3>5
  <2>6. ASSUME NEW a \in L
        PROVE  /\ a < p => a < c \/ a = c
               /\ a >= p => a >= c /\ a # c
    BY <1>1, <1>3, <1>7, <1>8
  <2> QED
    BY <1>1, <1>6, <1>9, <2>3, <2>4, <2>5, <2>6 DEF Relocated, L, F, w
<1> QED
  BY <1>10, <1>11

\* Every array has slid: the heap holds what the program last saw, where the plan
\* moves it.
Landed(h0, rs0, f, q, d, g, rs) ==
    /\ view = ViewOf(g, rs) /\ Distinct(g, Live(g, rs)) /\ q = d
    /\ Live(g, rs) = {Place(f, a) : a \in Live(h0, rs0)}

LEMMA RelocatingEnds ==
    ASSUME NEW h0, NEW rs0, Began(h0, rs0),
           NEW h, NEW f, NEW rs, NEW q, NEW d, Sliding(h, f, rs, h.watermark, q, d),
           Relocated(h0, rs0, h, f, rs, h.watermark, q),
           NEW g, g = Vacate(SetWatermark(h, d), d, h.watermark)
    PROVE  Landed(h0, rs0, f, q, d, g, rs)
<1>0. /\ q = d /\ d \in Base .. HeapEnd
      /\ \A x \in Addr : x < d => g.word[x] = h.word[x] /\ g.tag[x] = h.tag[x]
  <2>1. Cut(h, rs, q, d, g)
    BY SlideEnds
  <2> QED
    BY <2>1 DEF Cut
<1> DEFINE w == h.watermark
           L == Live(h0, rs0)
           F == Moves(f, h0, rs0)
<1>1. /\ L \subseteq Addr
      /\ rs = [r \in RootSlots |-> Carried(F, rs0[r])]
      /\ \A a \in L : a < w =>
            /\ F[a] \in Nat /\ Base <= F[a] /\ F[a] + Header + h0.word[a] <= q
            /\ Arrived(h0, h, F, a, F[a])
      /\ \A a \in L : a >= w => a \in Survivors(h, w, w)
  BY DEF Relocated
<1>2. /\ q = d /\ d \in Nat /\ d <= HeapEnd /\ HeapEnd \in Nat
      /\ \A x \in Addr : x < d => g.word[x] = h.word[x] /\ g.tag[x] = h.tag[x]
  BY <1>0, Numbers
<1>3. /\ rs0 \in [RootSlots -> Addr] /\ Readable(h0, L) /\ Distinct(h0, L)
      /\ view = ViewOf(h0, rs0)
  BY DEF Began
<1> HIDE DEF L, F
<1>4. ASSUME NEW a \in L
      PROVE  /\ F[a] \in Addr \ {GC_NULL} /\ F[a] + Header + h0.word[a] <= HeapEnd
             /\ SameArray(h0, g, F, a)
  <2>1. a \in Nat /\ h0.word[a] \in Nat /\ w \in Nat
    BY <1>1, <1>3, Numbers DEF Readable, Sliding, Heap
  <2>2. a < w
    <3>1. Survivors(h, w, w) = {}
      BY <2>1, TiledEmpty DEF Survivors
    <3> QED
      BY <1>1, <2>1, <3>1
  <2> HIDE DEF w
  <2>3. /\ F[a] \in Nat /\ Base <= F[a] /\ F[a] + Header + h0.word[a] <= d
        /\ Arrived(h0, h, F, a, F[a])
    BY <1>1, <1>2, <2>2
  <2>4. /\ F[a] < d /\ F[a] # GC_NULL /\ F[a] \in Addr /\ F[a] + Header + h0.word[a] <= HeapEnd
    BY <1>2, <2>1, <2>3 DEF Addr
  <2>5. \A x \in Addr : x >= F[a] /\ x < F[a] + Header + h0.word[a] => g.word[x] = h.word[x]
    <3>1. \A x \in Addr : x < F[a] + Header + h0.word[a] => x < d
      BY <1>2, <2>1, <2>3, Numbers
    <3> QED
      BY <1>2, <3>1
  <2>6. g.tag[F[a]] = h.tag[F[a]]
    BY <1>2, <2>4
  <2>7. Arrived(h0, g, F, a, F[a])
    BY <2>1, <2>3, <2>4, <2>5, <2>6, StillArrived
  <2> QED
    BY <2>4, <2>7 DEF Arrived, SameArray
<1>5. Carries(h0, g, F, L)
  BY <1>4 DEF Carries
<1>6. L = Live(h0, rs0)
  BY DEF L
<1>7. ViewOf(g, rs) = ViewOf(h0, rs0) /\ Distinct(g, Live(g, rs))
  BY <1>1, <1>3, <1>5, <1>6, CarriedView
<1>8. Live(g, rs) = {F[a] : a \in L}
  BY <1>1, <1>3, <1>5, <1>6, CarriedLive
<1>9. \A a \in L : F[a] = Place(f, a)
  BY DEF F, L, Moves
<1> QED
  BY <1>2, <1>3, <1>6, <1>7, <1>8, <1>9 DEF Landed

\* In every phase the heap still holds what the program last saw, and nothing else is
\* marked or moved. No more words have moved than the arrays moved have.
CompactTraced ==
    /\ pc \in {"mark", "locate"} => Seen
    /\ pc = "mark" => MarkPrecise
    /\ pc = "locate" => Marked = Live(heap, roots)
    /\ pc = "update" =>
          \E h0, rs0 : /\ Began(h0, rs0)
                       /\ Rewritten(h0, rs0, heap, forward_map, roots, At(heap, scan))
                       /\ Survivors(heap, Base, heap.watermark) \subseteq Live(h0, rs0)
    /\ pc = "relocate" =>
          \E h0, rs0, q : /\ Began(h0, rs0)
                          /\ Sliding(heap, forward_map, roots, At(heap, scan), q, dest)
                          /\ Relocated(h0, rs0, heap, forward_map, roots, At(heap, scan), q)
                          /\ Left(h0, rs0, heap, forward_map, At(heap, scan), q)
                          /\ out.moved <= q - Base
    /\ pc \in {"mark", "locate", "update"} => out.moved = 0

LEMMA UpdateRootsTraced ==
    ASSUME CompactInv, CompactTraced, UpdateRoots
    PROVE  CompactTraced'
<1>1. /\ pc = "locate" /\ scan = SENTINEL /\ pc' = "update" /\ scan' = HeapFirst(heap)
      /\ roots' = [r \in RootSlots |-> Moved(forward_map, roots[r])]
      /\ UNCHANGED <<heap, out, view, forward_map, dest>>
  BY DEF UpdateRoots, Updated, ForwardOf, CalculateForwardIndex, Moved, Place, markVars
<1>2. Seen /\ Locating(heap, forward_map, roots, heap.watermark, dest)
  BY <1>1 DEF CompactInv, CompactPhase, At, CompactTraced
<1>3. Began(heap, roots) /\ Rewritten(heap, roots, heap, forward_map, roots', Base)
  BY <1>1, <1>2, RewritingBegins
<1>4. At(heap, HeapFirst(heap)) = Base
  BY <1>2, FirstEffect DEF Locating, Walked
<1>5. \E h0, rs0 : /\ Began(h0, rs0)'
                   /\ Rewritten(h0, rs0, heap', forward_map', roots', At(heap', scan'))
                   /\ Survivors(heap', Base, heap'.watermark) \subseteq Live(h0, rs0)
  <2>1. Rewritten(heap, roots, heap', forward_map', roots', At(heap', scan'))
    BY <1>1, <1>3, <1>4
  <2>2. \A h0, rs0 : Began(h0, rs0) => Began(h0, rs0)'
    BY <1>1 DEF Began
  <2>3. Survivors(heap', Base, heap'.watermark) \subseteq Live(heap, roots)
    BY <1>1 DEF CompactTraced, Marked, Survivors
  <2> QED
    BY <1>3, <2>1, <2>2, <2>3
<1> QED
  BY <1>1, <1>5 DEF CompactTraced

LEMMA UpdateStepTraced ==
    ASSUME CompactInv, CompactTraced, UpdateStep
    PROVE  CompactTraced'
<1>1. /\ pc = "update" /\ scan # SENTINEL /\ scan' = HeapNext(heap, scan)
      /\ UNCHANGED <<roots, pc, out, view, forward_map, dest>>
  BY DEF UpdateStep, markVars
<1>2. /\ scan \in Headers(heap, At(heap, scan), heap.watermark) \cup {SENTINEL}
      /\ Updating(heap, forward_map, roots, At(heap, scan), dest)
  BY <1>1 DEF CompactInv, CompactPhase, Walking
<1>3. /\ At(heap, scan) = scan /\ scan \in Headers(heap, Base, heap.watermark)
      /\ scan' \in Headers(heap, At(heap, scan'), heap.watermark) \cup {SENTINEL}
      /\ scan' \in Addr \cup {SENTINEL}
  BY <1>1, <1>2, WalkSteps DEF Updating
<1>4. \/ /\ IsMarked(heap, scan)
         /\ heap' = [heap EXCEPT !.word = [x \in Addr |-> IF x \in RefSlots(heap, scan)
                                                          THEN Moved(forward_map, heap.word[x])
                                                          ELSE heap.word[x]]]
      \/ ~IsMarked(heap, scan) /\ heap' = heap
  BY DEF UpdateStep, RefsUpdated, Updated, ForwardOf, CalculateForwardIndex, Moved, Place
<1>5. PICK h0, rs0 : /\ Began(h0, rs0)
                     /\ Rewritten(h0, rs0, heap, forward_map, roots, At(heap, scan))
                     /\ Survivors(heap, Base, heap.watermark) \subseteq Live(h0, rs0)
  BY <1>1 DEF CompactTraced
<1>6. Rewritten(h0, rs0, heap', forward_map, roots, At(heap', scan'))
  <2>1. /\ Updating(heap, forward_map, roots, scan, dest)
        /\ Rewritten(h0, rs0, heap, forward_map, roots, scan)
    BY <1>2, <1>3, <1>5
  <2> QED
    BY <1>1, <1>3, <1>4, <1>5, <2>1, RewritingKeeps
<1>7. Began(h0, rs0)'
  BY <1>1, <1>5 DEF Began
<1>8. Survivors(heap', Base, heap'.watermark) \subseteq Live(h0, rs0)
  <2>1. heap \in Heap
    BY <1>2 DEF Updating, Walked
  <2>2. heap'.tag = heap.tag /\ heap'.watermark = heap.watermark
    BY <1>4, <2>1 DEF Heap
  <2> QED
    BY <1>5, <2>2 DEF Survivors, Headers, IsMarked
<1>9. \E i, s : /\ Began(i, s)' /\ Rewritten(i, s, heap', forward_map', roots', At(heap', scan'))
                /\ Survivors(heap', Base, heap'.watermark) \subseteq Live(i, s)
  BY <1>1, <1>6, <1>7, <1>8
<1> QED
  BY <1>1, <1>9 DEF CompactTraced

LEMMA RelocateStartTraced ==
    ASSUME CompactInv, CompactTraced, RelocateStart
    PROVE  CompactTraced'
<1>1. /\ pc = "update" /\ scan = SENTINEL /\ pc' = "relocate" /\ scan' = HeapFirst(heap)
      /\ UNCHANGED <<heap, roots, out, view, forward_map, dest>>
  BY DEF RelocateStart, markVars
<1>2. Updating(heap, forward_map, roots, heap.watermark, dest)
  BY <1>1 DEF CompactInv, CompactPhase, At
<1>3. Sliding(heap, forward_map, roots, At(heap, HeapFirst(heap)), Base, dest)
  BY <1>2, UpdateEnds
<1>4. PICK h0, rs0 : /\ Began(h0, rs0)
                     /\ Rewritten(h0, rs0, heap, forward_map, roots, heap.watermark)
                     /\ Survivors(heap, Base, heap.watermark) \subseteq Live(h0, rs0)
  BY <1>1 DEF CompactTraced, At
<1>5. At(heap, HeapFirst(heap)) = Base
  BY <1>2, FirstEffect DEF Updating, Walked
<1>6. Relocated(h0, rs0, heap, forward_map, roots, At(heap, HeapFirst(heap)), Base)
  BY <1>4, <1>5, RelocatingBegins
<1>7. Began(h0, rs0)'
  BY <1>1, <1>4 DEF Began
<1>8. Left(h0, rs0, heap, forward_map, Base, Base)
  BY <1>4, Numbers, TiledEmpty DEF Left
<1>9. out.moved = 0
  BY <1>1 DEF CompactTraced
<1>10. \E i, s, q : /\ Began(i, s)'
                    /\ Sliding(heap', forward_map', roots', At(heap', scan'), q, dest')
                    /\ Relocated(i, s, heap', forward_map', roots', At(heap', scan'), q)
                    /\ Left(i, s, heap', forward_map', At(heap', scan'), q)
                    /\ out'.moved <= q - Base
  <2>1. out'.moved <= Base - Base
    BY <1>1, <1>9
  <2> QED
    BY <1>1, <1>3, <1>5, <1>6, <1>7, <1>8, <2>1
<1> QED
  BY <1>1, <1>10 DEF CompactTraced

LEMMA RelocateStepTraced ==
    ASSUME CompactInv, CompactTraced, RelocateStep
    PROVE  CompactTraced'
<1>1. /\ pc = "relocate" /\ scan # SENTINEL /\ scan' = HeapNext(heap, scan)
      /\ UNCHANGED <<roots, pc, view, forward_map, dest>>
  BY DEF RelocateStep, markVars
<1>2. At(heap, scan) = scan
  BY <1>1 DEF At
<1>3. scan \in Headers(heap, scan, heap.watermark)
  BY <1>1, <1>2 DEF CompactInv, CompactPhase, Walking
<1>4. PICK h0, rs0, q : /\ Began(h0, rs0)
                        /\ Sliding(heap, forward_map, roots, scan, q, dest)
                        /\ Relocated(h0, rs0, heap, forward_map, roots, scan, q)
                        /\ Left(h0, rs0, heap, forward_map, scan, q)
                        /\ out.moved <= q - Base
  BY <1>1, <1>2 DEF CompactTraced
<1>5. \/ /\ IsMarked(heap, scan)
         /\ heap' = MoveObject(ClearMarked(heap, scan), scan, Place(forward_map, scan))
         /\ out' = [out EXCEPT !.moved = IF scan # Place(forward_map, scan)
                                         THEN @ + ObjectWords(heap', Place(forward_map, scan)) ELSE @]
      \/ ~IsMarked(heap, scan) /\ heap' = heap /\ out' = out
  BY DEF RelocateStep, Slid, ForwardOf, CalculateForwardIndex, Place
<1>6. PICK e : Slide(heap, forward_map, scan, q, heap', e)
  BY <1>5 DEF Slide
<1>7. /\ Sliding(heap', forward_map, roots, At(heap', scan'), e, dest)
      /\ heap'.watermark = heap.watermark
      /\ IsMarked(heap, scan) =>
            /\ scan \in Survivors(heap, scan, heap.watermark) /\ Place(forward_map, scan) = q
            /\ ObjectWords(heap', q) = ObjectWords(heap, scan) /\ ObjectWords(heap, scan) \in Nat
      /\ Survivors(heap', At(heap', scan'), heap.watermark) \subseteq Survivors(heap, scan, heap.watermark)
      /\ \A x \in Headers(heap', Base, e) :
            x \in Headers(heap, Base, q) \/ (IsMarked(heap, scan) /\ x = q)
  <2>1. /\ scan \in Headers(heap, scan, heap.watermark) /\ scan' = HeapNext(heap, scan)
        /\ Sliding(heap, forward_map, roots, scan, q, dest)
        /\ Slide(heap, forward_map, scan, q, heap', e)
    BY <1>1, <1>3, <1>4, <1>6
  <2> QED
    BY ONLY <2>1, SlideLeaves
<1>8. Relocated(h0, rs0, heap', forward_map, roots, At(heap', scan'), e)
  BY <1>1, <1>3, <1>4, <1>6, RelocatingKeeps
<1>9. Began(h0, rs0)'
  BY <1>1, <1>4 DEF Began
<1>10. Left(h0, rs0, heap', forward_map, At(heap', scan'), e)
  <2>1. IsMarked(heap, scan) => q \in {Place(forward_map, a) : a \in Live(h0, rs0)}
    BY <1>4, <1>7 DEF Left
  <2> QED
    BY <1>4, <1>7, <2>1 DEF Left
<1>11. out'.moved <= e - Base
  <2>1. q \in Nat /\ out \in Outs /\ out.moved \in Nat
    BY <1>4 DEF CompactInv, CompactTypes, Outs, Sliding, Planned
  <2>2. CASE ~IsMarked(heap, scan)
    BY <1>4, <1>5, <1>6, <2>2 DEF Slide
  <2>3. CASE IsMarked(heap, scan)
    <3> DEFINE size == ObjectWords(heap, scan)
    <3>1. e = q + size /\ size \in Nat
      BY <1>6, <1>7, <2>3 DEF Slide
    <3>2. out'.moved = out.moved \/ out'.moved = out.moved + size
      BY <1>5, <1>7, <2>1, <2>3 DEF Outs
    <3> HIDE DEF size
    <3> QED
      BY <1>4, <2>1, <3>1, <3>2
  <2> QED
    BY <2>2, <2>3
<1>12. \E i, s, x : /\ Began(i, s)'
                    /\ Sliding(heap', forward_map', roots', At(heap', scan'), x, dest')
                    /\ Relocated(i, s, heap', forward_map', roots', At(heap', scan'), x)
                    /\ Left(i, s, heap', forward_map', At(heap', scan'), x)
                    /\ out'.moved <= x - Base
  BY <1>1, <1>7, <1>8, <1>9, <1>10, <1>11
<1> QED
  BY <1>1, <1>12 DEF CompactTraced

\* Every step of a compaction but its last.
LEMMA CompactStepTraced ==
    ASSUME CompactInv, CompactTraced, CompactStep
    PROVE  CompactTraced'
<1>1. CASE VisitRoot \/ VisitRef
  <2>1. pc = "mark" /\ pc' = "mark" /\ UNCHANGED <<roots, view, out>>
    BY <1>1 DEF VisitRoot, VisitRef
  <2>2. MarkInv /\ Seen
    BY <2>1 DEF CompactInv, CompactPhase, CompactTraced
  <2>3. WellFormed(heap, roots, Base, heap.watermark)
    BY <2>2 DEF MarkInv
  <2>4. SameButMarks(heap, heap')
    BY <1>1, <2>2, VisitRootKeeps, VisitRefKeeps
  <2>5. Seen'
    BY <2>1, <2>2, <2>3, <2>4, MarkSees
  <2>6. MarkPrecise'
    BY <1>1, <2>1, <2>2, VisitPrecise DEF CompactTraced
  <2> QED
    BY <2>1, <2>5, <2>6 DEF CompactTraced
<1>2. CASE LocateStart
  <2>1. /\ UNCHANGED <<heap, roots, view, out>> /\ pc = "mark" /\ pc' = "locate" /\ MarkDone
    BY <1>2 DEF LocateStart, MarkDone
  <2>2. Marked = Live(heap, roots)
    BY <2>1, MarkDoneExact DEF CompactInv, CompactPhase, CompactTraced
  <2>3. (Marked = Live(heap, roots))'
    BY <2>1, <2>2 DEF Marked
  <2> QED
    BY <2>1, <2>3 DEF CompactTraced, Seen
<1>3. CASE LocateStep
  <2>1. UNCHANGED <<heap, roots, view, out, pc>> /\ pc = "locate"
    BY <1>3 DEF LocateStep, mutatorVars
  <2>2. (Marked = Live(heap, roots))'
    BY <2>1 DEF CompactTraced, Marked
  <2> QED
    BY <2>1, <2>2 DEF CompactTraced, Seen
<1> QED
  BY <1>1, <1>2, <1>3, UpdateRootsTraced, UpdateStepTraced, RelocateStartTraced, RelocateStepTraced
     DEF CompactStep

\* Its last step: the heap holds the arrays the program can reach and nothing else.
LEMMA CompactEndTraced ==
    ASSUME CompactInv, CompactTraced, NEW next, CompactEnd(next)
    PROVE  /\ Seen' /\ Headers(heap', Base, heap'.watermark) = Live(heap', roots')
           /\ out'.moved <= heap'.watermark - Base
<1>1. /\ pc = "relocate" /\ scan = SENTINEL /\ pc' = next
      /\ heap' = Vacate(SetWatermark(heap, dest), dest, heap.watermark)
      /\ out' = [out EXCEPT !.live = dest - Base, !.free = Gap, !.largest = Gap, !.freed = Gap]
      /\ UNCHANGED <<roots, view>>
  BY DEF CompactEnd, Trimmed
<1>2. PICK h0, rs0, q : /\ Began(h0, rs0)
                        /\ Sliding(heap, forward_map, roots, heap.watermark, q, dest)
                        /\ Relocated(h0, rs0, heap, forward_map, roots, heap.watermark, q)
                        /\ Left(h0, rs0, heap, forward_map, heap.watermark, q)
                        /\ out.moved <= q - Base
  BY <1>1 DEF CompactTraced, At
<1>3. /\ view = ViewOf(heap', roots) /\ Distinct(heap', Live(heap', roots)) /\ q = dest
      /\ Live(heap', roots) = {Place(forward_map, a) : a \in Live(h0, rs0)}
  <2>1. /\ Began(h0, rs0)
        /\ Sliding(heap, forward_map, roots, heap.watermark, q, dest)
        /\ Relocated(h0, rs0, heap, forward_map, roots, heap.watermark, q)
    BY <1>2
  <2>2. heap' = Vacate(SetWatermark(heap, dest), dest, heap.watermark)
    BY <1>1
  <2>3. Landed(h0, rs0, forward_map, q, dest, heap', roots)
    BY ONLY <2>1, <2>2, RelocatingEnds
  <2> QED
    BY <2>3 DEF Landed
<1>4. /\ WellFormed(heap', roots, Base, dest) /\ heap'.watermark = dest
      /\ Headers(heap', Base, dest) = Headers(heap, Base, dest)
      /\ dest \in Base .. HeapEnd
  BY TrimEffect
<1>5. Headers(heap', Base, heap'.watermark) = Live(heap', roots')
  <2>1. Live(heap', roots) \subseteq Headers(heap', Base, dest)
    BY <1>4, WellFormedLive DEF Allocated
  <2> QED
    BY <1>1, <1>2, <1>3, <1>4, <2>1 DEF Left
<1>6. out'.moved <= heap'.watermark - Base
  BY <1>1, <1>2, <1>3, <1>4 DEF CompactInv, CompactTypes, Outs
<1> QED
  BY <1>1, <1>3, <1>5, <1>6 DEF Seen

=============================================================================
