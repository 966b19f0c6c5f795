------------------------ MODULE GenerationalTheorems -------------------------
(***************************************************************************)
(* The generational collector is correct for every heap size and program,  *)
(* if no array has less than two elements, the program executes no GC      *)
(* instruction and the product for the first boundary does not wrap (the   *)
(* run generational_small shows what happens to smaller arrays). Between   *)
(* collections both generations are walkable and the remembered set is     *)
(* exact; a minor collection copies what the nursery holds of the          *)
(* reachable arrays and always has room; a major one ends in an empty      *)
(* nursery or in an empty allocation; and neither shows.                   *)
(***************************************************************************)
EXTENDS Generational, MarkingTheorems

USE DEF Header, Base, GC_NULL

\* The hypotheses of the theorems. An array of less than two elements may fit in what a
\* major collection leaves when it returns early, and a GC instruction lets the program
\* go on after that return; on the largest heaps the product for the first boundary wraps.
LargeArrays == ~ExplicitGC /\ \A length \in Lengths : length >= 2
NoWrap == 75 * (HeapEnd - Base) < W

NoForwards(h) == \A x \in Addr : ~h.tag[x].fwd

\* The arrays of both generations, when every chunk of either is an array.
Generations(h, o, n) == Headers(h, Base, o) \cup Headers(h, n, h.watermark)

\* The heap between collections: two walkable generations of arrays, with room between
\* them for the free block of a collection.
Rest(h, rs, o, n) ==
    /\ o \in Nat /\ n \in Nat /\ Base <= o /\ o + Header <= n /\ n <= h.watermark
    /\ Tiled(h, Base, o) /\ Tiled(h, n, h.watermark)
    /\ \A a \in Generations(h, o, n) : ~h.tag[a].free /\ ~h.tag[a].marked
    /\ Sound(h, rs, Generations(h, o, n))
    /\ NoForwards(h) /\ ~h.tag[GC_NULL].ref

\* What is remembered: slots of old arrays, among them each that holds a young array.
Entries(h, o, q) ==
    \A i \in DOMAIN q : q[i][1] \in Headers(h, Base, o) /\ RememberedSlot(q[i]) \in RefSlots(h, q[i][1])
Remembers(h, o, n, q) ==
    /\ Entries(h, o, q)
    /\ \A a \in Headers(h, Base, o) : \A s \in RefSlots(h, a) :
          h.word[s] >= n => \E i \in DOMAIN q : RememberedSlot(q[i]) = s

-----------------------------------------------------------------------------
\* A minor collection. h0 is the heap it found, with the gap filled from b to n; F maps
\* the young arrays copied so far to their copies, which fill [b, o).
Filled(h0, rs0, b, n) ==
    /\ Rest(h0, rs0, b, n)
    /\ b + (h0.watermark - n) + 2 * Header <= n
    /\ h0.tag[b] = FreeTag /\ h0.word[b] = n - b - Header
    /\ \A x \in Addr : b < x /\ x < n => ~h0.tag[x].head

\* The chunks of a heap in which the arrays of F have been copied.
Promoted(h0, F, h, b, n, o) ==
    /\ h \in Heap /\ h.watermark = h0.watermark
    /\ o \in Nat /\ b <= o /\ o - b = Cardinality(Covered(h0, DOMAIN F))
    /\ \A x \in Addr : x < b => h.tag[x] = h0.tag[x]
    /\ \A a \in Headers(h0, Base, b) : h.word[a] = h0.word[a]
    /\ \A x \in Addr : n <= x =>
          IF x \in DOMAIN F
          THEN h.word[x] = F[x] /\ h.tag[x] = [h0.tag[x] EXCEPT !.fwd = TRUE]
          ELSE h.word[x] = h0.word[x] /\ h.tag[x] = h0.tag[x]
    /\ \A x \in Addr : h.tag[x].fwd => x \in DOMAIN F
    /\ Tiled(h, b, o)
    /\ Headers(h, b, o) = {F[a] : a \in DOMAIN F}
    /\ \A x, y \in DOMAIN F : F[x] = F[y] => x = y
    /\ h.tag[o] = FreeTag /\ h.word[o] = n - o - Header
    /\ \A x \in Addr : o < x /\ x < n => ~h.tag[x].head

\* y is what becomes of the reference x when nothing is left to copy behind it.
Forwarded(F, n, x, y) ==
    IF x \in DOMAIN F THEN y = F[x] ELSE x < n /\ y = x

\* The copy of the array a, its slots below s redirected.
CopyOf(h0, n, F, h, a, s) ==
    /\ h.word[F[a]] = h0.word[a] /\ h.tag[F[a]] = h0.tag[a]
    /\ \A k \in 1 .. h0.word[a] :
          LET x == h0.word[a + Header + k - 1]
              y == h.word[F[a] + Header + k - 1]
          IN  IF h0.tag[a].ref /\ F[a] + Header + k - 1 < s THEN Forwarded(F, n, x, y) ELSE y = x

\* The old array a: each of its slots is redirected, or is an entry yet to come.
OldArray(h0, n, F, h, a, q, e) ==
    \A k \in 1 .. h0.word[a] :
       LET x == h0.word[a + Header + k - 1]
           y == h.word[a + Header + k - 1]
       IN  IF h0.tag[a].ref
           THEN \/ Forwarded(F, n, x, y)
                \/ y = x /\ \E i \in DOMAIN q : i >= e /\ RememberedSlot(q[i]) = a + Header + k - 1
           ELSE y = x

RootsTo(rs0, F, n, rs, r) ==
    /\ rs \in [RootSlots -> Addr]
    /\ \A i \in RootSlots : IF i < r THEN Forwarded(F, n, rs0[i], rs[i]) ELSE rs[i] = rs0[i]

ScanAt(h, b, o, c, s) ==
    /\ c \in Headers(h, b, o) \cup {o}
    /\ s \in Nat /\ c + Header <= s
    /\ IF c = o THEN s = c + Header ELSE s <= c + ObjectWords(h, c)

\* Where a minor collection stands: r roots, e entries and the slots before s in the copy c.
Promoting(h0, rs0, F, h, rs, b, n, o, q, r, e, c, s) ==
    /\ Filled(h0, rs0, b, n) /\ Entries(h0, b, q)
    /\ DOMAIN F \subseteq Headers(h0, n, h0.watermark)
    /\ Promoted(h0, F, h, b, n, o)
    /\ \A a \in DOMAIN F : CopyOf(h0, n, F, h, a, s)
    /\ \A a \in Headers(h0, Base, b) : OldArray(h0, n, F, h, a, q, e)
    /\ RootsTo(rs0, F, n, rs, r)
    /\ ScanAt(h, b, o, c, s)

-----------------------------------------------------------------------------
AtRest ==
    /\ Rest(heap, roots, old_frontier, nursery_start)
    /\ Remembers(heap, old_frontier, nursery_start, remembered)

\* Nothing has been allocated: the generations are not laid out yet.
Fresh ==
    /\ nursery_start = 0 /\ old_frontier = 0 /\ remembered = <<>>
    /\ WellFormed(heap, roots, Base, Base) /\ heap.watermark = Base
    /\ NoForwards(heap) /\ ~heap.tag[GC_NULL].ref

\* A major collection left too little: the program gets no array and ends.
Full ==
    /\ old_frontier = heap.watermark /\ heap.watermark + 2 * Header > HeapEnd
    /\ WellFormed(heap, roots, Base, heap.watermark)
    /\ NoForwards(heap) /\ ~heap.tag[GC_NULL].ref

GenTypes ==
    /\ {nursery_start, old_frontier, copy_scan, copy_slot, old_before, nursery_used} \subseteq Word
    /\ remembered \in Seq(Addr \X Nat) /\ Len(remembered) <= MaxRemembered
    /\ entry \in 1 .. MaxRemembered + 1

Major == {"mark", "majorEnd"} \cup Walking

GenPhase ==
    /\ pc = "run" => Fresh \/ (nursery_start # 0 /\ AtRest)
    /\ pc # "run" => nursery_start # 0
    /\ pc = "collect" => AtRest /\ out.moved = 0
    /\ pc \in {"return", "retry"} => (AtRest /\ heap.watermark = nursery_start) \/ Full
    /\ pc = "oom" => AtRest \/ Full
    /\ pc \in Major => NoForwards(heap)
    /\ pc = "majorEnd" =>
          /\ WellFormed(heap, roots, Base, heap.watermark) /\ NoMarks(heap)
          /\ Headers(heap, Base, heap.watermark) = Live(heap, roots)
          /\ ~heap.tag[GC_NULL].ref
    /\ pc \notin {"mark", "minor"} => root = 1
    /\ pc # "mark" => frames = <<>>
    /\ pc \notin {"minor", "update", "relocate"} => Seen
    /\ pc = "run" => req = NoReq
    /\ pc \notin {"run", "oom"} => req # NoReq

\* What the two generations hold when a minor collection begins.
LEMMA FilledMeans ==
    ASSUME NEW h0, NEW rs0, NEW b, NEW n, Filled(h0, rs0, b, n), NEW w, w = h0.watermark
    PROVE  /\ h0 \in Heap /\ b \in Nat /\ n \in Nat /\ w \in Nat /\ HeapEnd \in Nat
           /\ Base <= b /\ b + Header <= n /\ n <= w /\ w <= HeapEnd
           /\ b + (w - n) + 2 * Header <= n
           /\ Tiled(h0, Base, b) /\ Tiled(h0, n, w)
           /\ \A a \in Headers(h0, n, w) :
                 /\ a \in Addr /\ a \in Nat /\ n <= a /\ a < w /\ a + ObjectWords(h0, a) <= w
                 /\ ObjectWords(h0, a) = 2 + h0.word[a] /\ h0.word[a] \in Nat /\ h0.tag[a].head
           /\ \A a \in Headers(h0, Base, b) :
                 /\ a \in Addr /\ a \in Nat /\ Base <= a /\ a < b /\ a + ObjectWords(h0, a) <= b
                 /\ ObjectWords(h0, a) = 2 + h0.word[a] /\ h0.word[a] \in Nat /\ h0.tag[a].head
           /\ \A x \in Addr : ~h0.tag[x].fwd
<1>1. /\ Rest(h0, rs0, b, n) /\ b + (w - n) + 2 * Header <= n
  BY DEF Filled
<1>2. /\ b \in Nat /\ n \in Nat /\ Base <= b /\ b + Header <= n /\ n <= w
      /\ Tiled(h0, Base, b) /\ Tiled(h0, n, w) /\ NoForwards(h0) /\ h0 \in Heap
  BY <1>1 DEF Rest, Sound
<1>3. w \in Nat /\ w <= HeapEnd /\ HeapEnd \in Nat /\ Base \in Nat
  BY <1>2, Numbers DEF Heap
<1>4. ASSUME NEW a \in Headers(h0, n, w)
      PROVE  /\ a \in Addr /\ a \in Nat /\ n <= a /\ a < w /\ a + ObjectWords(h0, a) <= w
             /\ ObjectWords(h0, a) = 2 + h0.word[a] /\ h0.word[a] \in Nat /\ h0.tag[a].head
  <2>1. a \in Addr /\ a \in Nat /\ n <= a /\ a < w /\ a + ObjectWords(h0, a) <= w
    BY <1>2, <1>3, TiledWithin
  <2> QED
    BY <2>1, <1>2, WordTypes, HeadersWithin
<1>5. ASSUME NEW a \in Headers(h0, Base, b)
      PROVE  /\ a \in Addr /\ a \in Nat /\ Base <= a /\ a < b /\ a + ObjectWords(h0, a) <= b
             /\ ObjectWords(h0, a) = 2 + h0.word[a] /\ h0.word[a] \in Nat /\ h0.tag[a].head
  <2>1. a \in Addr /\ a \in Nat /\ Base <= a /\ a < b /\ a + ObjectWords(h0, a) <= b
    BY <1>2, <1>3, TiledWithin
  <2> QED
    BY <2>1, <1>2, WordTypes, HeadersWithin
<1> QED
  BY <1>1, <1>2, <1>3, <1>4, <1>5 DEF NoForwards

\* A reference of the program is null or leads to an array of either generation.
LEMMA FilledRefs ==
    ASSUME NEW h0, NEW rs0, NEW b, NEW n, Filled(h0, rs0, b, n), NEW v,
           \/ \E r \in RootSlots : v = rs0[r]
           \/ \E a \in Generations(h0, b, n) :
                 h0.tag[a].ref /\ \E k \in 1 .. h0.word[a] : v = h0.word[a + Header + k - 1]
    PROVE  /\ v \in Generations(h0, b, n) \cup {GC_NULL}
           /\ v \in Addr /\ v \in Nat
           /\ v < n => v \in Headers(h0, Base, b) \cup {GC_NULL}
           /\ v >= n => v \in Headers(h0, n, h0.watermark)
<1>1. Sound(h0, rs0, Generations(h0, b, n))
  BY DEF Filled, Rest
<1>2. v \in Generations(h0, b, n) \cup {GC_NULL}
  <2>1. CASE \E r \in RootSlots : v = rs0[r]
    BY <2>1, <1>1 DEF Sound
  <2>2. ASSUME NEW a \in Generations(h0, b, n), h0.tag[a].ref, NEW k \in 1 .. h0.word[a],
               v = h0.word[a + Header + k - 1]
        PROVE  v \in Generations(h0, b, n) \cup {GC_NULL}
    <3>1. a \in Nat /\ h0.word[a] \in Nat
      BY FilledMeans DEF Generations
    <3>2. a + Header + k - 1 \in RefSlots(h0, a)
      BY <2>2, <3>1 DEF RefSlots
    <3> QED
      BY <2>2, <3>2, <1>1 DEF Sound
  <2> QED
    BY <2>1, <2>2
<1>3. /\ \A a \in Headers(h0, n, h0.watermark) : a \in Addr /\ a \in Nat /\ n <= a
      /\ \A a \in Headers(h0, Base, b) : a \in Addr /\ a \in Nat /\ a < n
      /\ n \in Nat /\ 0 < n
  BY FilledMeans
<1>4. GC_NULL \in Addr
  BY Numbers DEF Addr
<1> QED
  BY <1>2, <1>3, <1>4 DEF Generations

\* A minor collection begins with nothing copied.
LEMMA PromotionBegins ==
    ASSUME NEW h0, NEW rs0, NEW b, NEW n, Filled(h0, rs0, b, n),
           NEW q, q \in Seq(Addr \X Nat), Remembers(h0, b, n, q)
    PROVE  \E F : Promoting(h0, rs0, F, h0, rs0, b, n, b, q, 1, 1, b, b + Header)
<1> DEFINE F == [a \in {} |-> 0]
<1>1. /\ h0 \in Heap /\ b \in Nat /\ n \in Nat /\ n > b
      /\ \A a \in Headers(h0, Base, b) : h0.word[a] \in Nat /\ a \in Nat
      /\ \A x \in Addr : ~h0.tag[x].fwd
  BY FilledMeans
<1>2. Headers(h0, b, b) = {} /\ Tiled(h0, b, b)
  BY <1>1, TiledEmpty
<1>3. DOMAIN F = {} /\ Cardinality(Covered(h0, {})) = 0
  BY CoveredBy
<1> HIDE DEF F
<1>4. Promoted(h0, F, h0, b, n, b)
  BY <1>1, <1>2, <1>3 DEF Promoted, Filled
<1>5. RootsTo(rs0, F, n, rs0, 1)
  <2>1. rs0 \in [RootSlots -> Addr]
    BY SoundLive DEF Filled, Rest
  <2> QED
    BY <2>1 DEF RootsTo, RootSlots
<1>6. ScanAt(h0, b, b, b, b + Header)
  BY <1>1 DEF ScanAt
<1>7. ASSUME NEW a \in Headers(h0, Base, b)
      PROVE  OldArray(h0, n, F, h0, a, q, 1)
  <2> SUFFICES ASSUME NEW k \in 1 .. h0.word[a], h0.tag[a].ref, NEW x, x = h0.word[a + Header + k - 1],
                      ~(x < n)
               PROVE  \E i \in DOMAIN q : i >= 1 /\ RememberedSlot(q[i]) = a + Header + k - 1
    BY <1>3 DEF OldArray, Forwarded
  <2> DEFINE t == a + Header + k - 1
  <2>0. \E c \in Generations(h0, b, n) :
           h0.tag[c].ref /\ \E j \in 1 .. h0.word[c] : x = h0.word[c + Header + j - 1]
    BY DEF Generations
  <2>1. x \in Nat /\ x >= n
    BY <1>1, <2>0, FilledRefs
  <2>2. t \in RefSlots(h0, a)
    BY <1>1 DEF RefSlots
  <2> HIDE DEF t
  <2>3. PICK i \in DOMAIN q : RememberedSlot(q[i]) = t
    BY <2>1, <2>2 DEF Remembers, t
  <2>4. i >= 1
    BY ElementOfSeq
  <2> QED
    BY <2>3, <2>4 DEF t
<1>8. Entries(h0, b, q)
  BY DEF Remembers
<1> QED
  BY <1>3, <1>4, <1>5, <1>6, <1>7, <1>8 DEF Promoting

\* Where the copies lie; the room the router asked for outlives them.
LEMMA CopiesWithin ==
    ASSUME NEW h0, NEW rs0, NEW F, NEW h, NEW b, NEW n, NEW o, Filled(h0, rs0, b, n),
           DOMAIN F \subseteq Headers(h0, n, h0.watermark), Promoted(h0, F, h, b, n, o)
    PROVE  /\ o \in Nat /\ b <= o /\ o + 2 * Header <= n
           /\ \A a \in DOMAIN F :
                 /\ F[a] \in Addr /\ F[a] \in Nat /\ b <= F[a] /\ F[a] < o
                 /\ F[a] \in Headers(h, b, o)
<1>1. /\ h0 \in Heap /\ b \in Nat /\ n \in Nat /\ h0.watermark \in Nat
      /\ n <= h0.watermark /\ b + (h0.watermark - n) + 2 * Header <= n
      /\ Tiled(h0, n, h0.watermark)
  BY FilledMeans
<1>2. Cardinality(Covered(h0, DOMAIN F)) \in Nat
      /\ Cardinality(Covered(h0, DOMAIN F)) <= h0.watermark - n
  BY <1>1, CoveredWithin
<1>3. o \in Nat /\ b <= o /\ o - b = Cardinality(Covered(h0, DOMAIN F))
  BY DEF Promoted
<1>4. \A a \in DOMAIN F : F[a] \in Headers(h, b, o)
  BY DEF Promoted
<1> QED
  BY <1>1, <1>2, <1>3, <1>4, HeadersWithin

\* The words that copying an array at v leaves: the copy at the old frontier, a smaller
\* free block after it, the forwarding offset in the old header, the rest as it was.
LEMMA CopyEffect ==
    ASSUME heap \in Heap, NEW o, o = old_frontier, o \in Nat, NEW n, n = nursery_start, n \in Nat,
           n <= heap.watermark, heap.tag[o] = FreeTag, heap.word[o] = n - o - Header,
           NEW v \in Addr, n <= v, NEW size, size = ObjectWords(heap, v),
           v + size <= heap.watermark, o + size + Header <= n,
           NEW p, p = Copy(v), NEW g, g = p.heap
    PROVE  /\ p.ref = o /\ p.frontier = o + size /\ o + size \in Addr
           /\ g \in Heap /\ g.watermark = heap.watermark
           /\ \A x \in Addr : o <= x /\ x < o + size =>
                 /\ v + (x - o) \in Addr
                 /\ g.word[x] = heap.word[v + (x - o)] /\ g.tag[x] = heap.tag[v + (x - o)]
           /\ g.tag[o + size] = FreeTag /\ g.word[o + size] = n - (o + size) - Header
           /\ \A x \in Addr : o + size < x /\ x < n => g.tag[x] = NoTag
           /\ g.word[v] = o /\ g.tag[v] = [heap.tag[v] EXCEPT !.fwd = TRUE]
           /\ \A x \in Addr : (x < o \/ x >= n) /\ x # v =>
                 g.word[x] = heap.word[x] /\ g.tag[x] = heap.tag[x]
<1> DEFINE len == heap.word[v]
           tag == ArrayTag(heap.tag[v].ref, heap.tag[v].id)
           b == o + Header + len
           h1 == InitObject(heap, o, len, tag)
           h2 == MakeFreeBlock(h1, b, n)
           h3 == MoveObject(h2, v, o)
<1>1. /\ v \in Nat /\ heap.watermark \in Nat /\ heap.watermark <= HeapEnd /\ HeapEnd \in Nat
      /\ len \in Nat /\ len \in Word /\ size = 2 + len /\ ObjectLength(heap, v) = len
      /\ heap.tag[v].ref \in BOOLEAN /\ heap.tag[v].id \in Ids \cup {NoId}
  <2>1. heap.tag[v] \in Tag
    BY DEF Heap
  <2> QED
    BY <2>1, WordTypes, Numbers DEF Heap, Tag
<1>2. o \in Addr /\ b \in Addr /\ b = o + size /\ b + Header <= n /\ b \in Nat
  BY <1>1, Numbers DEF Addr
<1>3. tag \in Tag
  BY <1>1, TagTypes
<1>4. SplitBlock(heap, o, len, heap.tag[v].ref, heap.tag[v].id) = [rem |-> b, heap |-> h2]
  <2>1. ObjectWords(heap, o) = n - o
    BY <1>1, <1>2, WordTypes DEF ObjectWords
  <2>2. ~(ObjectWords(heap, o) - (Header + len) < Header) /\ o + ObjectWords(heap, o) = n
    BY <1>1, <1>2, <2>1
  <2> QED
    BY <2>2 DEF SplitBlock
<1>5. b # SENTINEL
  BY <1>2, Numbers
<1>6. p = [ref |-> o, heap |-> SetForwarded(h3, v, o), frontier |-> b]
  <2> HIDE DEF b, h2
  <2> QED
    BY <1>1, <1>4, <1>5 DEF Copy, h3
<1> HIDE DEF tag, len
<1>7. /\ h1 \in Heap /\ h1.watermark = heap.watermark
      /\ Untouched(heap, h1, o, b)
  BY <1>1, <1>2, <1>3, InitObjectEffect
<1> HIDE DEF b, h1
<1>8. /\ h2 \in Heap /\ h2.watermark = heap.watermark
      /\ h2.word[b] = n - b - Header /\ h2.tag[b] = FreeTag
      /\ Cleared(h2, b, n) /\ Untouched(h1, h2, b, n)
  <2>1. n <= HeapEnd
    BY <1>1
  <2> QED
    BY <1>2, <1>7, <2>1, MakeFreeBlockEffect
<1> HIDE DEF h2
<1>9. \A x \in Addr : x < o \/ x >= n => h2.word[x] = heap.word[x] /\ h2.tag[x] = heap.tag[x]
  BY <1>1, <1>2, <1>7, <1>8, Numbers DEF Untouched
<1>10. /\ h3 \in Heap /\ h3.watermark = heap.watermark
       /\ \A x \in Addr : o <= x /\ x < b =>
             /\ v + (x - o) \in Addr
             /\ h3.word[x] = h2.word[v + (x - o)] /\ h3.tag[x] = h2.tag[v + (x - o)]
       /\ Untouched(h2, h3, o, b)
  <2>1. ObjectWords(h2, v) = size
    BY <1>9 DEF ObjectWords
  <2>2. v + size <= HeapEnd /\ o + size <= HeapEnd
    BY <1>1, <1>2
  <2> QED
    BY <2>1, <2>2, <1>2, <1>8, MoveObjectEffect
<1> HIDE DEF h3
<1>11. /\ h3 = [word |-> h3.word, tag |-> h3.tag, watermark |-> h3.watermark]
       /\ h3.word \in [Addr -> Word] /\ h3.tag \in [Addr -> Tag] /\ h3.watermark \in 0 .. HeapEnd
  BY <1>10 DEF Heap
<1>12. o \in Word
  BY <1>2, Numbers
<1>13. [h3.tag[v] EXCEPT !.fwd = TRUE] \in Tag
  BY <1>11 DEF Tag
<1>14. /\ g.word = [h3.word EXCEPT ![v] = o] /\ g.watermark = h3.watermark
       /\ g.tag = [h3.tag EXCEPT ![v] = [h3.tag[v] EXCEPT !.fwd = TRUE]]
       /\ g = [word |-> g.word, tag |-> g.tag, watermark |-> g.watermark]
  <2>1. g = SetForwarded(h3, v, o)
    BY <1>6
  <2> QED
    BY ONLY <2>1, <1>11 DEF SetForwarded
<1>15. g \in Heap
  <2>1. g.word \in [Addr -> Word] /\ g.tag \in [Addr -> Tag] /\ g.watermark \in 0 .. HeapEnd
    BY <1>11, <1>12, <1>13, <1>14
  <2> QED
    BY ONLY <1>14, <2>1 DEF Heap
<1>16. \A x \in Addr : x # v => g.word[x] = h3.word[x] /\ g.tag[x] = h3.tag[x]
  BY <1>11, <1>14
<1>17. h3.tag[v] = heap.tag[v]
  BY <1>1, <1>2, <1>9, <1>10 DEF Untouched
<1>18. g.word[v] = o /\ g.tag[v] = [heap.tag[v] EXCEPT !.fwd = TRUE]
  BY <1>11, <1>14, <1>17
<1>19. ASSUME NEW x \in Addr, o <= x, x < b
       PROVE  /\ v + (x - o) \in Addr
              /\ g.word[x] = heap.word[v + (x - o)] /\ g.tag[x] = heap.tag[v + (x - o)]
  <2>1. x \in Nat /\ x # v
    BY <1>19, <1>1, <1>2, Numbers
  <2>2. v + (x - o) >= n
    BY <1>19, <2>1, <1>1
  <2> QED
    BY <2>1, <2>2, <1>9, <1>10, <1>16, <1>19
<1>20. ASSUME NEW x \in Addr, x < o \/ x >= n, x # v
       PROVE  g.word[x] = heap.word[x] /\ g.tag[x] = heap.tag[x]
  <2>1. x < o \/ x >= b
    BY <1>20, <1>2, Numbers
  <2> QED
    BY <2>1, <1>9, <1>10, <1>16, <1>20 DEF Untouched
<1>21. ASSUME NEW x \in Addr, b <= x, x < n
       PROVE  g.word[x] = h2.word[x] /\ g.tag[x] = h2.tag[x]
  <2>1. x # v
    BY <1>21, <1>1, <1>2, Numbers
  <2> QED
    BY <2>1, <1>10, <1>16, <1>21 DEF Untouched
<1>22. ASSUME NEW x \in Addr, b < x, x < n
       PROVE  g.tag[x] = NoTag
  <2>1. x \in Nat /\ b \in Nat
    BY <1>2, Numbers
  <2>2. b <= x
    BY <2>1, <1>22
  <2> QED
    BY <2>2, <1>8, <1>21, <1>22 DEF Cleared
<1>23. g.tag[b] = FreeTag /\ g.word[b] = n - b - Header
  <2>1. b <= b /\ b < n
    BY <1>2
  <2> QED
    BY <2>1, <1>2, <1>8, <1>21
<1> QED
  BY <1>2, <1>6, <1>10, <1>14, <1>15, <1>18, <1>19, <1>20, <1>22, <1>23

\* A young array that is not forwarded is as the collection found it, and there is room.
LEMMA NotCopied ==
    ASSUME NEW h0, NEW rs0, NEW F, NEW h, NEW b, NEW n, NEW o, Filled(h0, rs0, b, n),
           DOMAIN F \subseteq Headers(h0, n, h0.watermark), Promoted(h0, F, h, b, n, o),
           NEW v \in Headers(h0, n, h0.watermark), ~h.tag[v].fwd,
           NEW size, size = ObjectWords(h, v)
    PROVE  /\ v \notin DOMAIN F /\ size = ObjectWords(h0, v) /\ size = 2 + h0.word[v]
           /\ h.tag[v] = h0.tag[v] /\ h.word[v] = h0.word[v]
           /\ v + size <= h0.watermark /\ o + size + 2 * Header <= n
           /\ o + size - b = Cardinality(Covered(h0, DOMAIN F \cup {v}))
           /\ \A x \in Addr : v < x /\ x < v + size =>
                 /\ n <= x /\ x \notin DOMAIN F
                 /\ h.word[x] = h0.word[x] /\ h.tag[x] = h0.tag[x]
                 /\ ~h.tag[x].head /\ ~h.tag[x].fwd
<1> DEFINE w == h0.watermark
<1>1. /\ h0 \in Heap /\ b \in Nat /\ n \in Nat /\ w \in Nat /\ n <= w
      /\ b + (w - n) + 2 * Header <= n /\ Tiled(h0, n, w)
      /\ \A a \in Headers(h0, n, w) :
            /\ a \in Addr /\ a \in Nat /\ n <= a /\ a < w /\ a + ObjectWords(h0, a) <= w
            /\ ObjectWords(h0, a) = 2 + h0.word[a] /\ h0.word[a] \in Nat
  BY FilledMeans
<1>2. /\ o \in Nat /\ o - b = Cardinality(Covered(h0, DOMAIN F))
      /\ \A x \in Addr : n <= x =>
            IF x \in DOMAIN F
            THEN h.word[x] = F[x] /\ h.tag[x] = [h0.tag[x] EXCEPT !.fwd = TRUE]
            ELSE h.word[x] = h0.word[x] /\ h.tag[x] = h0.tag[x]
      /\ \A x \in Addr : h.tag[x].fwd => x \in DOMAIN F
  BY DEF Promoted
<1> HIDE DEF w
<1>3. v \in Headers(h0, n, w) /\ DOMAIN F \subseteq Headers(h0, n, w)
  BY DEF w
<1>4. \A x \in Addr : h0.tag[x] \in Tag
  BY <1>1 DEF Heap
<1>5. v \notin DOMAIN F
  <2>1. v \in DOMAIN F => h.tag[v] = [h0.tag[v] EXCEPT !.fwd = TRUE]
    BY <1>1, <1>2, <1>3
  <2>2. v \in Addr
    BY <1>1, <1>3
  <2> QED
    BY <2>1, <2>2, <1>4 DEF Tag
<1>6. h.tag[v] = h0.tag[v] /\ h.word[v] = h0.word[v]
  BY <1>1, <1>2, <1>3, <1>5
<1>7. size = ObjectWords(h0, v) /\ size = 2 + h0.word[v] /\ size \in Nat
  BY <1>1, <1>3, <1>6 DEF ObjectWords
<1>8. \A x \in Headers(h0, n, w) : ~(v < x /\ x < v + size)
  BY <1>1, <1>3, <1>7, TiledWithin
<1>9. ASSUME NEW x \in Addr, v < x, x < v + size
      PROVE  /\ n <= x /\ x \notin DOMAIN F
             /\ h.word[x] = h0.word[x] /\ h.tag[x] = h0.tag[x]
             /\ ~h.tag[x].head /\ ~h.tag[x].fwd
  <2>1. x \in Nat
    BY Numbers
  <2>2. n <= x /\ x < w
    BY <1>1, <1>3, <1>7, <1>9, <2>1
  <2>3. x \notin DOMAIN F /\ x \notin Headers(h0, n, w)
    BY <1>3, <1>8, <1>9
  <2>4. h.word[x] = h0.word[x] /\ h.tag[x] = h0.tag[x]
    BY <1>2, <2>2, <2>3
  <2>5. ~h0.tag[x].head
    BY <2>2, <2>3 DEF Headers
  <2> QED
    BY <1>2, <2>2, <2>3, <2>4, <2>5
<1>10. Cardinality(Covered(h0, DOMAIN F \cup {v})) = Cardinality(Covered(h0, DOMAIN F)) + size
  <2>1. DOMAIN F \subseteq Addr /\ v \in Addr
    BY <1>1, <1>3
  <2>2. ASSUME NEW a \in DOMAIN F
        PROVE  a + ObjectWords(h0, a) <= v \/ v + ObjectWords(h0, v) <= a
    <3>1. a \in Headers(h0, n, w) /\ a # v
      BY <1>3, <1>5
    <3> QED
      BY <3>1, <1>1, <1>3, ChunksApart
  <2> QED
    BY <1>1, <1>7, <2>1, <2>2, CoveredApart
<1>11. /\ Cardinality(Covered(h0, DOMAIN F \cup {v})) \in Nat
       /\ Cardinality(Covered(h0, DOMAIN F \cup {v})) <= w - n
  <2>1. DOMAIN F \cup {v} \subseteq Headers(h0, n, w)
    BY <1>3
  <2> QED
    BY <2>1, <1>1, CoveredWithin
<1>12. o + size - b = Cardinality(Covered(h0, DOMAIN F \cup {v}))
  BY <1>1, <1>2, <1>7, <1>10
<1>13. o + size + 2 * Header <= n
  BY <1>1, <1>2, <1>7, <1>11, <1>12
<1>14. v + size <= w
  BY <1>1, <1>3, <1>7
<1> QED
  BY <1>5, <1>6, <1>7, <1>9, <1>12, <1>13, <1>14 DEF w

\* h and g agree below the old frontier.
SameBelow(h, g, o) == \A x \in Addr : x < o => g.word[x] = h.word[x] /\ g.tag[x] = h.tag[x]

\* One more array is copied.
LEMMA CopyPromotes ==
    ASSUME NEW h0, NEW rs0, NEW F, NEW b, NEW n, n = nursery_start, NEW o, o = old_frontier,
           Filled(h0, rs0, b, n), DOMAIN F \subseteq Headers(h0, n, h0.watermark),
           Promoted(h0, F, heap, b, n, o),
           NEW v \in Headers(h0, n, h0.watermark), ~heap.tag[v].fwd,
           NEW size, size = ObjectWords(heap, v), NEW p, p = Copy(v), NEW g, g = p.heap,
           NEW F2, F2 = [a \in DOMAIN F \cup {v} |-> IF a = v THEN o ELSE F[a]]
    PROVE  /\ Promoted(h0, F2, g, b, n, o + size) /\ SameBelow(heap, g, o)
           /\ p.ref = o /\ p.frontier = o + size /\ o \in Addr /\ size \in Nat /\ size >= 2
           /\ g.word[o] = h0.word[v] /\ g.tag[o] = h0.tag[v] /\ size = ObjectWords(g, o)
           /\ \A k \in 1 .. h0.word[v] : g.word[o + Header + k - 1] = h0.word[v + Header + k - 1]
<1> DEFINE w == h0.watermark
           to == o + size
<1>1. /\ h0 \in Heap /\ b \in Nat /\ n \in Nat /\ w \in Nat /\ HeapEnd \in Nat
      /\ n <= w /\ w <= HeapEnd /\ Base <= b /\ b < n
      /\ v \in Addr /\ v \in Nat /\ n <= v /\ v < w
      /\ v + ObjectWords(h0, v) <= w /\ ObjectWords(h0, v) = 2 + h0.word[v]
      /\ h0.word[v] \in Nat /\ h0.tag[v].head
      /\ \A a \in Headers(h0, n, w) : a \in Addr /\ a \in Nat /\ n <= a /\ a < w
      /\ \A a \in Headers(h0, Base, b) : a \in Addr /\ a \in Nat /\ a < b
  BY FilledMeans
<1>2. /\ o \in Nat /\ b <= o /\ \A a \in DOMAIN F : F[a] \in Addr /\ F[a] \in Nat /\ F[a] < o
  BY CopiesWithin
<1>3. /\ v \notin DOMAIN F /\ size = ObjectWords(h0, v) /\ size = 2 + h0.word[v]
      /\ heap.tag[v] = h0.tag[v] /\ heap.word[v] = h0.word[v]
      /\ v + size <= w /\ o + size + 2 * Header <= n
      /\ o + size - b = Cardinality(Covered(h0, DOMAIN F \cup {v}))
      /\ \A x \in Addr : v < x /\ x < v + size =>
            /\ n <= x /\ x \notin DOMAIN F
            /\ heap.word[x] = h0.word[x] /\ heap.tag[x] = h0.tag[x]
            /\ ~heap.tag[x].head /\ ~heap.tag[x].fwd
  BY NotCopied
<1>4. /\ heap \in Heap /\ heap.watermark = w
      /\ \A x \in Addr : x < b => heap.tag[x] = h0.tag[x]
      /\ \A a \in Headers(h0, Base, b) : heap.word[a] = h0.word[a]
      /\ \A x \in Addr : n <= x =>
            IF x \in DOMAIN F
            THEN heap.word[x] = F[x] /\ heap.tag[x] = [h0.tag[x] EXCEPT !.fwd = TRUE]
            ELSE heap.word[x] = h0.word[x] /\ heap.tag[x] = h0.tag[x]
      /\ \A x \in Addr : heap.tag[x].fwd => x \in DOMAIN F
      /\ Tiled(heap, b, o)
      /\ Headers(heap, b, o) = {F[a] : a \in DOMAIN F}
      /\ \A x, y \in DOMAIN F : F[x] = F[y] => x = y
      /\ heap.tag[o] = FreeTag /\ heap.word[o] = n - o - Header
  BY DEF Promoted
<1>5. /\ p.ref = o /\ p.frontier = o + size /\ o + size \in Addr
      /\ g \in Heap /\ g.watermark = heap.watermark
      /\ \A x \in Addr : o <= x /\ x < o + size =>
            /\ v + (x - o) \in Addr
            /\ g.word[x] = heap.word[v + (x - o)] /\ g.tag[x] = heap.tag[v + (x - o)]
      /\ g.tag[o + size] = FreeTag /\ g.word[o + size] = n - (o + size) - Header
      /\ \A x \in Addr : o + size < x /\ x < n => g.tag[x] = NoTag
      /\ g.word[v] = o /\ g.tag[v] = [heap.tag[v] EXCEPT !.fwd = TRUE]
      /\ \A x \in Addr : (x < o \/ x >= n) /\ x # v =>
            g.word[x] = heap.word[x] /\ g.tag[x] = heap.tag[x]
  <2>1. /\ heap \in Heap /\ o = old_frontier /\ o \in Nat /\ n = nursery_start /\ n \in Nat
        /\ n <= heap.watermark /\ heap.tag[o] = FreeTag /\ heap.word[o] = n - o - Header
        /\ v \in Addr /\ n <= v /\ size = ObjectWords(heap, v)
        /\ v + size <= heap.watermark /\ o + size + Header <= n
        /\ p = Copy(v) /\ g = p.heap
    BY <1>1, <1>2, <1>3, <1>4
  <2> QED
    BY ONLY <2>1, CopyEffect
<1>6. size \in Nat /\ size >= 2 /\ o \in Addr /\ to \in Nat /\ o < to /\ to < n
  BY <1>1, <1>2, <1>3, Numbers DEF Addr
<1>7. /\ DOMAIN F2 = DOMAIN F \cup {v} /\ F2[v] = o
      /\ \A a \in DOMAIN F : F2[a] = F[a]
  BY <1>3
<1> HIDE DEF w, to
<1>8. \A x \in Addr : x \in Nat
  BY Numbers
<1>9. g.word[o] = h0.word[v] /\ g.tag[o] = h0.tag[v]
  <2>1. v + (o - o) = v /\ o <= o /\ o < o + size
    BY <1>1, <1>2, <1>6
  <2> QED
    BY <2>1, <1>3, <1>5, <1>6
<1>10. ASSUME NEW x \in Addr, o < x, x < to
       PROVE  /\ ~g.tag[x].head /\ ~g.tag[x].fwd
              /\ v + (x - o) \in Addr /\ g.word[x] = h0.word[v + (x - o)]
  <2> DEFINE y == v + (x - o)
  <2>1. x \in Nat /\ o <= x /\ x < o + size
    BY <1>2, <1>8, <1>10 DEF to
  <2>2. y \in Addr /\ g.word[x] = heap.word[y] /\ g.tag[x] = heap.tag[y]
    BY <1>5, <2>1
  <2>3. v < y /\ y < v + size
    <3>1. v \in Nat /\ o \in Nat /\ x \in Nat /\ size \in Nat /\ o < x /\ x < o + size
      BY <1>1, <1>2, <1>6, <1>10, <2>1
    <3> QED
      BY ONLY <3>1
  <2> HIDE DEF y
  <2>4. ~heap.tag[y].head /\ ~heap.tag[y].fwd /\ heap.word[y] = h0.word[y]
    BY <1>3, <2>2, <2>3
  <2> QED
    BY <2>2, <2>4 DEF y
<1>11. \A k \in 1 .. h0.word[v] : g.word[o + Header + k - 1] = h0.word[v + Header + k - 1]
  <2> SUFFICES ASSUME NEW k \in 1 .. h0.word[v]
               PROVE  g.word[o + Header + k - 1] = h0.word[v + Header + k - 1]
    OBVIOUS
  <2> DEFINE x == o + Header + k - 1
  <2>1. k \in Nat /\ k >= 1 /\ k <= h0.word[v]
    BY <1>1
  <2>2. o < x /\ x < to /\ x \in Nat
    BY <1>2, <1>3, <1>1, <2>1 DEF to
  <2>3. x \in Addr
    BY <2>2, <1>1, <1>6, Numbers DEF Addr
  <2>4. v + (x - o) = v + Header + k - 1
    BY <1>1, <1>2, <2>1
  <2> HIDE DEF x
  <2>5. g.word[x] = h0.word[v + (x - o)]
    BY <1>10, <2>2, <2>3
  <2> QED
    BY <2>4, <2>5 DEF x
<1>12. SameBelow(heap, g, o)
  <2>1. ASSUME NEW x \in Addr, x < o
        PROVE  g.word[x] = heap.word[x] /\ g.tag[x] = heap.tag[x]
    <3>1. x # v
      BY <1>1, <1>2, <1>6, <1>8, <2>1
    <3> QED
      BY <1>5, <2>1, <3>1
  <2> QED
    BY <2>1 DEF SameBelow
<1>13. size = ObjectWords(g, o)
  BY <1>3, <1>9 DEF ObjectWords
<1>14. ASSUME NEW x \in Addr, n <= x
       PROVE  IF x \in DOMAIN F2
              THEN g.word[x] = F2[x] /\ g.tag[x] = [h0.tag[x] EXCEPT !.fwd = TRUE]
              ELSE g.word[x] = h0.word[x] /\ g.tag[x] = h0.tag[x]
  <2>1. CASE x = v
    BY <2>1, <1>3, <1>5, <1>7
  <2>2. CASE x # v
    <3>1. x >= n
      BY <1>1, <1>8, <1>14
    <3>2. g.word[x] = heap.word[x] /\ g.tag[x] = heap.tag[x]
      BY <1>5, <2>2, <3>1
    <3>3. x \in DOMAIN F2 <=> x \in DOMAIN F
      BY <1>7, <2>2
    <3> QED
      BY <1>4, <1>7, <1>14, <3>2, <3>3
  <2> QED
    BY <2>1, <2>2
<1>15. ASSUME NEW x \in Addr, g.tag[x].fwd
       PROVE  x \in DOMAIN F2
  <2>1. CASE x = v
    BY <2>1, <1>7
  <2>2. CASE o <= x /\ x < to /\ x # v
    <3>1. x # o
      <4>1. ~heap.tag[v].fwd
        OBVIOUS
      <4> QED
        BY <4>1, <1>3, <1>9, <1>15
    <3> QED
      BY <3>1, <2>2, <1>2, <1>8, <1>10, <1>15
  <2>3. CASE to <= x /\ x < n
    <3>1. x # to
      BY <1>5, <1>15 DEF FreeTag, to
    <3>2. o + size < x
      BY <3>1, <2>3, <1>6, <1>8 DEF to
    <3>3. g.tag[x] = NoTag
      BY <3>2, <2>3, <1>5
    <3> QED
      BY <3>3, <1>15 DEF NoTag
  <2>4. CASE (x < o \/ x >= n) /\ x # v
    BY <2>4, <1>4, <1>5, <1>7, <1>15
  <2>5. x \in Nat /\ o \in Nat /\ to \in Nat /\ n \in Nat
    BY <1>1, <1>2, <1>6, <1>8
  <2>6. x < o \/ (o <= x /\ x < to) \/ (to <= x /\ x < n) \/ x >= n
    BY ONLY <2>5
  <2> QED
    BY <2>1, <2>2, <2>3, <2>4, <2>6
<1>16. Headers(g, b, o) = {F[a] : a \in DOMAIN F} /\ Tiled(g, b, o)
  <2>1. \A x \in Addr : b <= x /\ x < o =>
           /\ g.tag[x].head <=> heap.tag[x].head
           /\ heap.tag[x].head => g.word[x] = heap.word[x]
    BY <1>12 DEF SameBelow
  <2>2. Headers(g, b, o) = Headers(heap, b, o) /\ (Tiled(heap, b, o) => Tiled(g, b, o))
    <3>1. b \in Nat /\ o \in Nat
      BY <1>1, <1>2
    <3> QED
      BY ONLY <2>1, <3>1, TiledSame, Zenon
  <2> QED
    BY <2>2, <1>4
<1>17. Headers(g, o, to) = {o} /\ Tiled(g, o, to)
  <2>1. to \in Nat /\ o + ObjectWords(g, o) = to /\ g.tag[o].head
    BY <1>1, <1>2, <1>6, <1>9, <1>13 DEF to
  <2>2. \A x \in Addr : o < x /\ x < to => ~g.tag[x].head
    BY <1>10
  <2> QED
    BY <2>1, <2>2, <1>5, <1>6, TiledOne
<1>18. Tiled(g, b, to) /\ Headers(g, b, to) = {F[a] : a \in DOMAIN F} \cup {o}
  <2>1. to \in Nat /\ b <= o /\ o <= to
    BY <1>2, <1>6
  <2>2. Tiled(g, b, to)
    BY <2>1, <1>1, <1>2, <1>5, <1>16, <1>17, TiledJoin
  <2>3. Headers(g, b, to) = Headers(g, b, o) \cup Headers(g, o, to)
    BY <2>1, <1>1, <1>2, <1>5, HeadersJoin
  <2> QED
    BY <2>2, <2>3, <1>16, <1>17
<1>19. {F[a] : a \in DOMAIN F} \cup {o} = {F2[a] : a \in DOMAIN F2}
  BY <1>7
<1>20. \A x, y \in DOMAIN F2 : F2[x] = F2[y] => x = y
  <2>1. \A a \in DOMAIN F : F[a] # o
    BY <1>2
  <2> QED
    BY <2>1, <1>4, <1>7
<1>21. to - b = Cardinality(Covered(h0, DOMAIN F2)) /\ b <= to
  <2>1. DOMAIN F2 = DOMAIN F \cup {v} /\ to = o + size
    BY <1>7 DEF to
  <2>2. to - b = Cardinality(Covered(h0, DOMAIN F2))
    <3>1. to - b = Cardinality(Covered(h0, DOMAIN F \cup {v}))
      <4>1. o + size - b = Cardinality(Covered(h0, DOMAIN F \cup {v}))
        BY <1>3
      <4>2. to = o + size /\ o \in Nat /\ size \in Nat /\ b \in Nat
        BY <1>1, <1>2, <1>6 DEF to
      <4> QED
        BY ONLY <4>1, <4>2
    <3> QED
      BY ONLY <2>1, <3>1
  <2>3. b \in Nat /\ o \in Nat /\ to \in Nat /\ o < to /\ b <= o
    BY <1>1, <1>2, <1>6
  <2> QED
    BY ONLY <2>2, <2>3
<1>22. \A x \in Addr : x < b => g.tag[x] = h0.tag[x]
  BY <1>1, <1>2, <1>4, <1>8, <1>12 DEF SameBelow
<1>23. \A a \in Headers(h0, Base, b) : g.word[a] = h0.word[a]
  BY <1>1, <1>2, <1>4, <1>12 DEF SameBelow
<1>24. ASSUME NEW x \in Addr, to < x, x < n
       PROVE  ~g.tag[x].head
  <2>1. g.tag[x] = NoTag
    BY <1>5, <1>24 DEF to
  <2> QED
    BY <2>1 DEF NoTag
<1>25. g.tag[to] = FreeTag /\ g.word[to] = n - to - Header /\ g \in Heap /\ g.watermark = w
  BY <1>4, <1>5 DEF to
<1>26. Promoted(h0, F2, g, b, n, to)
  BY <1>6, <1>14, <1>15, <1>18, <1>19, <1>20, <1>21, <1>22, <1>23, <1>24, <1>25 DEF Promoted, w
<1> QED
  BY <1>5, <1>6, <1>9, <1>11, <1>12, <1>13, <1>26 DEF to

\* More has been copied.
Extends(F, F2) == DOMAIN F \subseteq DOMAIN F2 /\ \A a \in DOMAIN F : F2[a] = F[a]

\* Where the copy of an array lies, and its slots.
LEMMA CopyRange ==
    ASSUME NEW h0, NEW rs0, NEW F, NEW h, NEW b, NEW n, NEW o, Filled(h0, rs0, b, n),
           DOMAIN F \subseteq Headers(h0, n, h0.watermark), Promoted(h0, F, h, b, n, o),
           NEW a \in DOMAIN F, NEW s, CopyOf(h0, n, F, h, a, s)
    PROVE  /\ a \in Addr /\ a \in Nat /\ h0.word[a] \in Nat /\ a + Header + h0.word[a] <= h0.watermark
           /\ n <= a /\ F[a] \in Addr /\ F[a] \in Nat /\ b <= F[a] /\ F[a] < o
           /\ F[a] \in Headers(h, b, o)
           /\ ObjectWords(h, F[a]) = 2 + h0.word[a]
           /\ F[a] + ObjectWords(h, F[a]) <= o
           /\ \A k \in 1 .. h0.word[a] :
                 /\ F[a] + Header + k - 1 \in Addr /\ F[a] + Header + k - 1 \in Nat
                 /\ b <= F[a] + Header + k - 1 /\ F[a] + Header + k - 1 < o
<1>1. /\ a \in Addr /\ a \in Nat /\ n <= a /\ a + ObjectWords(h0, a) <= h0.watermark
      /\ ObjectWords(h0, a) = 2 + h0.word[a] /\ h0.word[a] \in Nat
      /\ n \in Nat /\ b \in Nat /\ n <= HeapEnd /\ HeapEnd \in Nat /\ h0.watermark \in Nat
  <2>1. a \in Headers(h0, n, h0.watermark)
    OBVIOUS
  <2> QED
    BY <2>1, FilledMeans
<1>2. /\ o \in Nat /\ o + 2 * Header <= n
      /\ F[a] \in Addr /\ F[a] \in Nat /\ b <= F[a] /\ F[a] < o /\ F[a] \in Headers(h, b, o)
  BY CopiesWithin
<1>3. h \in Heap /\ Tiled(h, b, o)
  BY DEF Promoted
<1>4. F[a] + ObjectWords(h, F[a]) <= o
  BY <1>1, <1>2, <1>3, TiledWithin
<1>5. ObjectWords(h, F[a]) = 2 + h0.word[a]
  BY DEF CopyOf, ObjectWords
<1>6. ASSUME NEW k \in 1 .. h0.word[a]
      PROVE  /\ F[a] + Header + k - 1 \in Addr /\ F[a] + Header + k - 1 \in Nat
             /\ b <= F[a] + Header + k - 1 /\ F[a] + Header + k - 1 < o
  <2>1. k \in Nat /\ k >= 1 /\ k <= h0.word[a]
    BY <1>1
  <2>2. /\ F[a] + Header + k - 1 \in Nat
        /\ b <= F[a] + Header + k - 1 /\ F[a] + Header + k - 1 < o
    BY <1>1, <1>2, <1>4, <1>5, <2>1
  <2>3. F[a] + Header + k - 1 < HeapEnd
    BY <2>2, <1>1, <1>2
  <2> QED
    BY <2>2, <2>3, Numbers DEF Addr
<1>7. a + Header + h0.word[a] <= h0.watermark
  BY <1>1
<1> QED
  BY <1>1, <1>2, <1>4, <1>5, <1>6, <1>7

\* A reference that has been redirected stays so while more is copied.
LEMMA StillForwarded ==
    ASSUME NEW F, NEW F2, Extends(F, F2), NEW n \in Nat, \A a \in DOMAIN F2 : a \in Nat /\ n <= a,
           NEW x, NEW y, Forwarded(F, n, x, y)
    PROVE  Forwarded(F2, n, x, y)
<1>1. CASE x \in DOMAIN F
  BY <1>1 DEF Extends, Forwarded
<1>2. CASE x \notin DOMAIN F
  <2>1. x < n /\ y = x
    BY <1>2 DEF Forwarded
  <2>2. x \notin DOMAIN F2
    BY <2>1
  <2> QED
    BY <2>1, <2>2 DEF Forwarded
<1> QED
  BY <1>1, <1>2

\* A copy stays what it is while another array is copied.
LEMMA StillCopied ==
    ASSUME NEW h0, NEW rs0, NEW F, NEW h, NEW b, NEW n, NEW o, Filled(h0, rs0, b, n),
           DOMAIN F \subseteq Headers(h0, n, h0.watermark), Promoted(h0, F, h, b, n, o),
           NEW a \in DOMAIN F, NEW s, CopyOf(h0, n, F, h, a, s),
           NEW g, SameBelow(h, g, o), NEW F2, Extends(F, F2),
           DOMAIN F2 \subseteq Headers(h0, n, h0.watermark)
    PROVE  CopyOf(h0, n, F2, g, a, s)
<1>1. /\ h0.word[a] \in Nat /\ F[a] \in Addr /\ F[a] \in Nat /\ F[a] < o
      /\ \A k \in 1 .. h0.word[a] :
            /\ F[a] + Header + k - 1 \in Addr /\ F[a] + Header + k - 1 \in Nat
            /\ F[a] + Header + k - 1 < o
  BY CopyRange
<1>2. F2[a] = F[a]
  BY DEF Extends
<1>3. g.word[F[a]] = h0.word[a] /\ g.tag[F[a]] = h0.tag[a]
  BY <1>1 DEF SameBelow, CopyOf
<1>4. n \in Nat /\ \A x \in DOMAIN F2 : x \in Nat /\ n <= x
  BY FilledMeans
<1>5. ASSUME NEW k \in 1 .. h0.word[a], NEW x, x = h0.word[a + Header + k - 1]
      PROVE  IF h0.tag[a].ref /\ F[a] + Header + k - 1 < s
             THEN Forwarded(F2, n, x, g.word[F[a] + Header + k - 1])
             ELSE g.word[F[a] + Header + k - 1] = x
  <2>1. g.word[F[a] + Header + k - 1] = h.word[F[a] + Header + k - 1]
    BY <1>1 DEF SameBelow
  <2>2. IF h0.tag[a].ref /\ F[a] + Header + k - 1 < s
        THEN Forwarded(F, n, x, h.word[F[a] + Header + k - 1])
        ELSE h.word[F[a] + Header + k - 1] = x
    BY <1>5 DEF CopyOf
  <2> QED
    BY <2>1, <2>2, <1>4, StillForwarded
<1> QED
  BY <1>2, <1>3, <1>5 DEF CopyOf

\* The slots of an old array lie below the copies.
LEMMA OldRange ==
    ASSUME NEW h0, NEW rs0, NEW b, NEW n, Filled(h0, rs0, b, n), NEW a \in Headers(h0, Base, b),
           NEW k \in 1 .. h0.word[a]
    PROVE  /\ a + Header + k - 1 \in Addr /\ a + Header + k - 1 \in Nat
           /\ a < a + Header + k - 1 /\ a + Header + k - 1 < b
<1>1. /\ a \in Addr /\ a \in Nat /\ a + ObjectWords(h0, a) <= b
      /\ ObjectWords(h0, a) = 2 + h0.word[a] /\ h0.word[a] \in Nat
      /\ b \in Nat /\ b + Header <= n /\ n <= h0.watermark /\ h0.watermark <= HeapEnd
      /\ n \in Nat /\ h0.watermark \in Nat /\ HeapEnd \in Nat
  BY FilledMeans
<1>2. k \in Nat /\ k >= 1 /\ k <= h0.word[a]
  BY <1>1
<1>3. /\ a + Header + k - 1 \in Nat
      /\ a < a + Header + k - 1 /\ a + Header + k - 1 < b
  BY <1>1, <1>2
<1>4. a + Header + k - 1 < HeapEnd
  BY <1>1, <1>3
<1> QED
  BY <1>3, <1>4, Numbers DEF Addr

LEMMA StillOld ==
    ASSUME NEW h0, NEW rs0, NEW F, NEW h, NEW b, NEW n, NEW o, Filled(h0, rs0, b, n),
           o \in Nat, b <= o, NEW q, NEW e, NEW a \in Headers(h0, Base, b),
           OldArray(h0, n, F, h, a, q, e), NEW g, SameBelow(h, g, o), NEW F2, Extends(F, F2),
           DOMAIN F2 \subseteq Headers(h0, n, h0.watermark)
    PROVE  OldArray(h0, n, F2, g, a, q, e)
<1>1. n \in Nat /\ b \in Nat /\ \A x \in DOMAIN F2 : x \in Nat /\ n <= x
  BY FilledMeans
<1>2. ASSUME NEW k \in 1 .. h0.word[a], NEW x, x = h0.word[a + Header + k - 1]
      PROVE  IF h0.tag[a].ref
             THEN \/ Forwarded(F2, n, x, g.word[a + Header + k - 1])
                  \/ /\ g.word[a + Header + k - 1] = x
                     /\ \E i \in DOMAIN q : i >= e /\ RememberedSlot(q[i]) = a + Header + k - 1
             ELSE g.word[a + Header + k - 1] = x
  <2>1. /\ a + Header + k - 1 \in Addr /\ a + Header + k - 1 \in Nat
        /\ a + Header + k - 1 < o
    BY <1>1, OldRange
  <2>2. g.word[a + Header + k - 1] = h.word[a + Header + k - 1]
    BY <2>1 DEF SameBelow
  <2>3. IF h0.tag[a].ref
        THEN \/ Forwarded(F, n, x, h.word[a + Header + k - 1])
             \/ /\ h.word[a + Header + k - 1] = x
                /\ \E i \in DOMAIN q : i >= e /\ RememberedSlot(q[i]) = a + Header + k - 1
        ELSE h.word[a + Header + k - 1] = x
    BY <1>2 DEF OldArray
  <2> QED
    BY <2>2, <2>3, <1>1, StillForwarded
<1> QED
  BY <1>2 DEF OldArray

\* One more array copied: what Promoting says of it, with the new frontier.
LEMMA CopyKeepsPromoting ==
    ASSUME NEW h0, NEW rs0, NEW F, NEW rs, NEW b, NEW n, n = nursery_start,
           NEW o, o = old_frontier, NEW q, NEW r, NEW e, NEW c, NEW s,
           Promoting(h0, rs0, F, heap, rs, b, n, o, q, r, e, c, s),
           NEW v \in Headers(h0, n, h0.watermark), ~heap.tag[v].fwd,
           NEW p, p = Copy(v), NEW F2, F2 = [a \in DOMAIN F \cup {v} |-> IF a = v THEN o ELSE F[a]]
    PROVE  /\ Promoting(h0, rs0, F2, p.heap, rs, b, n, p.frontier, q, r, e, c, s)
           /\ SameBelow(heap, p.heap, o) /\ o <= p.frontier /\ Extends(F, F2)
           /\ p.ref = o /\ o \in Addr /\ v \in DOMAIN F2 /\ F2[v] = o
<1> DEFINE size == ObjectWords(heap, v)
           g == p.heap
           to == o + size
<1>1. /\ Filled(h0, rs0, b, n) /\ Entries(h0, b, q)
      /\ DOMAIN F \subseteq Headers(h0, n, h0.watermark)
      /\ Promoted(h0, F, heap, b, n, o)
      /\ \A a \in DOMAIN F : CopyOf(h0, n, F, heap, a, s)
      /\ \A a \in Headers(h0, Base, b) : OldArray(h0, n, F, heap, a, q, e)
      /\ RootsTo(rs0, F, n, rs, r)
      /\ ScanAt(heap, b, o, c, s)
  BY DEF Promoting
<1>2. /\ Promoted(h0, F2, g, b, n, to) /\ SameBelow(heap, g, o)
      /\ p.ref = o /\ p.frontier = to /\ o \in Addr /\ size \in Nat /\ size >= 2
      /\ g.word[o] = h0.word[v] /\ g.tag[o] = h0.tag[v] /\ size = ObjectWords(g, o)
      /\ \A k \in 1 .. h0.word[v] : g.word[o + Header + k - 1] = h0.word[v + Header + k - 1]
  <2> HIDE DEF size, g
  <2>1. /\ n = nursery_start /\ o = old_frontier
        /\ Filled(h0, rs0, b, n) /\ DOMAIN F \subseteq Headers(h0, n, h0.watermark)
        /\ Promoted(h0, F, heap, b, n, o)
        /\ v \in Headers(h0, n, h0.watermark) /\ ~heap.tag[v].fwd
        /\ size = ObjectWords(heap, v) /\ p = Copy(v) /\ g = p.heap
        /\ F2 = [a \in DOMAIN F \cup {v} |-> IF a = v THEN o ELSE F[a]]
    BY <1>1 DEF size, g
  <2> QED
    BY ONLY <2>1, CopyPromotes
<1>3. v \notin DOMAIN F
  BY <1>1, NotCopied
<1>4. /\ DOMAIN F2 = DOMAIN F \cup {v} /\ F2[v] = o
      /\ \A a \in DOMAIN F : F2[a] = F[a]
  BY <1>3
<1>5. Extends(F, F2) /\ DOMAIN F2 \subseteq Headers(h0, n, h0.watermark)
  BY <1>1, <1>4 DEF Extends
<1> HIDE DEF size, g
<1>6. /\ o \in Nat /\ b \in Nat /\ n \in Nat /\ b <= o /\ to \in Nat /\ o < to /\ h0.word[v] \in Nat
      /\ \A a \in DOMAIN F2 : a \in Nat /\ n <= a
  <2>1. o \in Nat /\ b <= o
    BY <1>1, CopiesWithin
  <2>2. b \in Nat /\ n \in Nat /\ h0.word[v] \in Nat /\ \A a \in DOMAIN F2 : a \in Nat /\ n <= a
    BY <1>1, <1>5, FilledMeans
  <2> QED
    BY <2>1, <2>2, <1>2
<1>7. heap \in Heap /\ Tiled(heap, b, o) /\ Headers(g, b, to) = {F2[a] : a \in DOMAIN F2}
      /\ Headers(heap, b, o) = {F[a] : a \in DOMAIN F}
  BY <1>1, <1>2 DEF Promoted
<1>8. s \in Nat /\ s <= o + Header
  <2>1. /\ s \in Nat /\ (c = o => s = c + Header) /\ (c # o => s <= c + ObjectWords(heap, c))
        /\ c \in Headers(heap, b, o) \cup {o}
    BY <1>1 DEF ScanAt
  <2>2. c # o => c + ObjectWords(heap, c) <= o /\ c \in Nat /\ ObjectWords(heap, c) \in Nat
    BY <2>1, <1>6, <1>7, TiledWithin
  <2> QED
    BY <2>1, <2>2, <1>6
<1>9. ASSUME NEW a \in DOMAIN F2
      PROVE  CopyOf(h0, n, F2, g, a, s)
  <2>1. CASE a \in DOMAIN F
    <3>1. CopyOf(h0, n, F, heap, a, s)
      BY <2>1, <1>1
    <3> QED
      BY <2>1, <3>1, <1>1, <1>2, <1>5, StillCopied
  <2>2. CASE a = v
    <3>1. ASSUME NEW k \in 1 .. h0.word[v]
          PROVE  ~(o + Header + k - 1 < s)
      BY <1>6, <1>8
    <3> QED
      BY <2>2, <3>1, <1>2, <1>4 DEF CopyOf
  <2> QED
    BY <2>1, <2>2, <1>4
<1>10. ASSUME NEW a \in Headers(h0, Base, b)
       PROVE  OldArray(h0, n, F2, g, a, q, e)
  <2>1. OldArray(h0, n, F, heap, a, q, e)
    BY <1>1
  <2> QED
    BY <2>1, <1>1, <1>2, <1>5, <1>6, StillOld
<1>11. RootsTo(rs0, F2, n, rs, r)
  <2>1. \A x, y : Forwarded(F, n, x, y) => Forwarded(F2, n, x, y)
    BY <1>5, <1>6, StillForwarded
  <2> QED
    BY <2>1, <1>1 DEF RootsTo
<1>12. ScanAt(g, b, to, c, s)
  <2>1. /\ c \in Headers(heap, b, o) \cup {o} /\ s \in Nat /\ c + Header <= s
        /\ IF c = o THEN s = c + Header ELSE s <= c + ObjectWords(heap, c)
    BY <1>1 DEF ScanAt
  <2>2. CASE c = o
    <3>1. c \in Headers(g, b, to)
      <4>1. o \in {F2[a] : a \in DOMAIN F2}
        BY <1>4
      <4> QED
        BY <4>1, <2>2, <1>7
    <3>2. c # to /\ s <= c + ObjectWords(g, c)
      BY <2>1, <2>2, <1>2, <1>6
    <3> QED
      BY <3>1, <3>2, <2>1 DEF ScanAt
  <2>3. CASE c # o
    <3>1. c \in Headers(heap, b, o)
      BY <2>1, <2>3
    <3>2. c \in Addr /\ c \in Nat /\ b <= c /\ c < o
      BY <3>1, HeadersWithin
    <3>3. g.word[c] = heap.word[c]
      BY <3>2, <1>2 DEF SameBelow
    <3>4. c \in Headers(g, b, to)
      <4>1. c \in {F2[a] : a \in DOMAIN F2}
        BY <3>1, <1>4, <1>7
      <4> QED
        BY <4>1, <1>7
    <3>5. c # to
      BY <3>2, <1>6
    <3> QED
      BY <3>3, <3>4, <3>5, <2>1, <2>3 DEF ScanAt, ObjectWords
  <2> QED
    BY <2>2, <2>3
<1>13. Promoting(h0, rs0, F2, g, rs, b, n, to, q, r, e, c, s)
  BY <1>1, <1>2, <1>5, <1>9, <1>10, <1>11, <1>12 DEF Promoting
<1> QED
  BY <1>2, <1>4, <1>5, <1>6, <1>13 DEF g

\* process_obj on a reference v of the program: null and old arrays stay, a young one
\* becomes its copy, made now unless it was made before.
LEMMA Processed ==
    ASSUME NEW h0, NEW rs0, NEW F, NEW rs, NEW b, NEW n, n = nursery_start,
           NEW o, o = old_frontier, NEW q, NEW r, NEW e, NEW c, NEW s,
           Promoting(h0, rs0, F, heap, rs, b, n, o, q, r, e, c, s),
           NEW v \in Addr, v >= n => v \in Headers(h0, n, h0.watermark),
           NEW p, p = ProcessObj(v)
    PROVE  \E F2 : /\ Promoting(h0, rs0, F2, p.heap, rs, b, n, p.frontier, q, r, e, c, s)
                   /\ SameBelow(heap, p.heap, o) /\ o <= p.frontier /\ Extends(F, F2)
                   /\ Forwarded(F2, n, v, p.ref) /\ p.ref \in Addr
<1>1. /\ Filled(h0, rs0, b, n)
      /\ DOMAIN F \subseteq Headers(h0, n, h0.watermark)
      /\ Promoted(h0, F, heap, b, n, o)
  BY DEF Promoting
<1>2. /\ n \in Nat /\ n > 0 /\ v \in Nat /\ o \in Nat
      /\ \A a \in DOMAIN F : a \in Nat /\ n <= a /\ F[a] \in Addr
  BY <1>1, FilledMeans, CopiesWithin, Numbers
<1>3. SameBelow(heap, heap, o) /\ Extends(F, F) /\ o <= o
  BY <1>2 DEF SameBelow, Extends
<1>4. CASE v = GC_NULL \/ v < n
  <2>1. p = [ref |-> v, heap |-> heap, frontier |-> o]
    BY <1>4 DEF ProcessObj
  <2>2. v < n /\ v \notin DOMAIN F
    BY <1>2, <1>4
  <2> QED
    BY <2>1, <2>2, <1>3 DEF Forwarded
<1>5. CASE ~(v = GC_NULL \/ v < n) /\ heap.tag[v].fwd
  <2>1. v >= n
    BY <1>2, <1>5
  <2>2. v \in DOMAIN F /\ heap.word[v] = F[v]
    BY <2>1, <1>1, <1>2, <1>5 DEF Promoted
  <2>3. p = [ref |-> heap.word[v], heap |-> heap, frontier |-> o]
    BY <1>5 DEF ProcessObj, IsForwarded, GetForwarded
  <2> QED
    BY <2>2, <2>3, <1>2, <1>3 DEF Forwarded
<1>6. CASE ~(v = GC_NULL \/ v < n) /\ ~heap.tag[v].fwd
  <2> DEFINE F2 == [a \in DOMAIN F \cup {v} |-> IF a = v THEN o ELSE F[a]]
  <2>1. p = Copy(v)
    BY <1>6 DEF ProcessObj, IsForwarded
  <2>2. v >= n
    BY <1>2, <1>6
  <2>3. v \in Headers(h0, n, h0.watermark)
    BY <2>2
  <2> HIDE DEF F2
  <2>4. /\ n = nursery_start /\ o = old_frontier
        /\ Promoting(h0, rs0, F, heap, rs, b, n, o, q, r, e, c, s)
        /\ v \in Headers(h0, n, h0.watermark) /\ ~heap.tag[v].fwd /\ p = Copy(v)
        /\ F2 = [a \in DOMAIN F \cup {v} |-> IF a = v THEN o ELSE F[a]]
    BY <1>6, <2>1, <2>3 DEF F2
  <2>5. /\ Promoting(h0, rs0, F2, p.heap, rs, b, n, p.frontier, q, r, e, c, s)
        /\ SameBelow(heap, p.heap, o) /\ o <= p.frontier /\ Extends(F, F2)
        /\ p.ref = o /\ o \in Addr /\ v \in DOMAIN F2 /\ F2[v] = o
    BY ONLY <2>4, CopyKeepsPromoting
  <2> QED
    BY <2>5 DEF Forwarded
<1> QED
  BY <1>4, <1>5, <1>6

\* The value a minor collection finds in a slot is the program's or is forwarded already.
LEMMA RootProcessed ==
    ASSUME NEW h0, NEW rs0, NEW F, NEW b, NEW n, n = nursery_start,
           NEW o, o = old_frontier, NEW q, NEW r, NEW e, NEW c, NEW s,
           Promoting(h0, rs0, F, heap, roots, b, n, o, q, r, e, c, s),
           r \in RootSlots, NEW p, p = ProcessObj(roots[r]),
           NEW rs, rs = [roots EXCEPT ![r] = p.ref]
    PROVE  \E F2 : Promoting(h0, rs0, F2, p.heap, rs, b, n, p.frontier, q, r + 1, e, c, s)
<1>1. RootsTo(rs0, F, n, roots, r) /\ Filled(h0, rs0, b, n) /\ r \in Nat
  BY DEF Promoting, RootSlots
<1>2. roots[r] = rs0[r]
  BY <1>1 DEF RootsTo
<1>3. roots[r] \in Addr /\ (roots[r] >= n => roots[r] \in Headers(h0, n, h0.watermark))
  BY <1>1, <1>2, FilledRefs
<1>4. PICK F2 : /\ Promoting(h0, rs0, F2, p.heap, roots, b, n, p.frontier, q, r, e, c, s)
                /\ Forwarded(F2, n, rs0[r], p.ref) /\ p.ref \in Addr
  BY <1>2, <1>3, Processed
<1>5. RootsTo(rs0, F2, n, rs, r + 1)
  <2>1. RootsTo(rs0, F2, n, roots, r)
    BY <1>4 DEF Promoting
  <2>2. rs \in [RootSlots -> Addr] /\ rs[r] = p.ref /\ \A i \in RootSlots : i # r => rs[i] = roots[i]
    BY <1>4, <2>1 DEF RootsTo
  <2>3. \A i \in RootSlots : i < r + 1 <=> i < r \/ i = r
    BY <1>1 DEF RootSlots
  <2> QED
    BY <1>4, <2>1, <2>2, <2>3 DEF RootsTo
<1> QED
  BY <1>4, <1>5 DEF Promoting

OneWrite(h, g, b, o, x, y) ==
    /\ Headers(g, b, o) = Headers(h, b, o)
    /\ g.tag = h.tag /\ g.word[x] = y
    /\ \A z \in Addr : z # x => g.word[z] = h.word[z]

\* Writing a slot of an array below the frontier leaves the chunks as they are.
LEMMA SlotWritten ==
    ASSUME NEW h0, NEW rs0, NEW F, NEW h, NEW b, NEW n, NEW o, Filled(h0, rs0, b, n),
           DOMAIN F \subseteq Headers(h0, n, h0.watermark), Promoted(h0, F, h, b, n, o),
           NEW x \in Addr, x < o, x \notin Headers(h0, Base, b), x \notin Headers(h, b, o),
           NEW y \in Word, NEW g, g = [h EXCEPT !.word[x] = y]
    PROVE  Promoted(h0, F, g, b, n, o) /\ OneWrite(h, g, b, o, x, y)
<1>1. /\ b \in Nat /\ n \in Nat /\ x \in Nat /\ HeapEnd \in Nat
      /\ n <= HeapEnd
      /\ \A a \in Headers(h0, Base, b) : a \in Addr
  <2>1. n <= h0.watermark /\ h0.watermark <= HeapEnd /\ h0.watermark \in Nat
    BY FilledMeans
  <2> QED
    BY <2>1, FilledMeans, Numbers
<1>2. o \in Nat /\ b <= o /\ o < n /\ o \in Addr
  <2>1. o \in Nat /\ b <= o /\ o + 2 * Header <= n
    BY CopiesWithin
  <2> QED
    BY <2>1, <1>1, Numbers DEF Addr
<1>3. h \in Heap
  BY DEF Promoted
<1>4. /\ g \in Heap /\ g.watermark = h.watermark /\ g.tag = h.tag /\ g.word[x] = y
      /\ \A z \in Addr : z # x => g.word[z] = h.word[z]
  BY <1>3 DEF Heap
<1>5. Headers(g, b, o) = Headers(h, b, o) /\ Tiled(g, b, o)
  <2>1. \A z \in Addr : b <= z /\ z < o =>
           /\ g.tag[z].head <=> h.tag[z].head
           /\ h.tag[z].head => g.word[z] = h.word[z]
    BY <1>4 DEF Headers
  <2>2. b \in Nat /\ o \in Nat /\ Tiled(h, b, o)
    BY <1>1, <1>2 DEF Promoted
  <2> QED
    BY ONLY <2>1, <2>2, TiledSame, Zenon
<1>6. \A z \in Addr : n <= z => z # x
  BY <1>1, <1>2
<1>7. \A a \in Headers(h0, Base, b) : g.word[a] = h0.word[a]
  BY <1>1, <1>4 DEF Promoted
<1>8. g.word[o] = h.word[o]
  BY <1>1, <1>2, <1>4
<1> QED
  BY <1>4, <1>5, <1>6, <1>7, <1>8 DEF Promoted, OneWrite

\* No header of the old generation the collection found lies among the copies.
LEMMA CopiesApart ==
    ASSUME NEW h0, NEW rs0, NEW F, NEW h, NEW b, NEW n, NEW o, Filled(h0, rs0, b, n),
           DOMAIN F \subseteq Headers(h0, n, h0.watermark), Promoted(h0, F, h, b, n, o), NEW x
    PROVE  /\ x \in Headers(h0, Base, b) => x \in Nat /\ x < b
           /\ x \in Headers(h, b, o) => x \in Nat /\ b <= x
<1>1. \A a \in Headers(h0, Base, b) : a \in Nat /\ a < b
  BY FilledMeans
<1>2. b \in Nat
  BY FilledMeans
<1> QED
  BY <1>1, <1>2, HeadersWithin

\* One slot of the copy at c is redirected.
LEMMA SlotRewritten ==
    ASSUME NEW h0, NEW rs0, NEW F, NEW h, NEW rs, NEW b, NEW n, NEW o,
           NEW q, NEW r, NEW e, NEW c, NEW s,
           Promoting(h0, rs0, F, h, rs, b, n, o, q, r, e, c, s),
           c < o, s \in RefSlots(h, c), NEW y \in Addr, Forwarded(F, n, h.word[s], y),
           NEW g, g = [h EXCEPT !.word[s] = y]
    PROVE  Promoting(h0, rs0, F, g, rs, b, n, o, q, r, e, c, s + 1)
<1>1. /\ Filled(h0, rs0, b, n) /\ Entries(h0, b, q)
      /\ DOMAIN F \subseteq Headers(h0, n, h0.watermark)
      /\ Promoted(h0, F, h, b, n, o)
      /\ \A a \in DOMAIN F : CopyOf(h0, n, F, h, a, s)
      /\ \A a \in Headers(h0, Base, b) : OldArray(h0, n, F, h, a, q, e)
      /\ RootsTo(rs0, F, n, rs, r)
      /\ ScanAt(h, b, o, c, s)
  BY DEF Promoting
<1>2. /\ h \in Heap /\ Tiled(h, b, o) /\ b \in Nat /\ o \in Nat /\ b <= o /\ o <= HeapEnd
  <2>1. o \in Nat /\ b <= o /\ o + 2 * Header <= n
    BY <1>1, CopiesWithin
  <2>2. b \in Nat /\ n \in Nat /\ n <= h0.watermark /\ h0.watermark <= HeapEnd
        /\ h0.watermark \in Nat /\ HeapEnd \in Nat
    BY <1>1, FilledMeans
  <2>3. o <= HeapEnd
    BY <2>1, <2>2
  <2> QED
    BY <1>1, <2>1, <2>2, <2>3 DEF Promoted
<1>3. c \in Headers(h, b, o) /\ c \in Nat /\ b <= c
  <2>1. c \in Headers(h, b, o) \cup {o}
    BY <1>1 DEF ScanAt
  <2>2. c \in Headers(h, b, o)
    BY <2>1, <1>2
  <2> QED
    BY <2>2, HeadersWithin
<1>4. /\ s \in Addr /\ s \in Nat /\ s < o
      /\ s >= c + Header /\ s < c + ObjectWords(h, c)
      /\ s \notin Headers(h, b, o)
  BY <1>2, <1>3, SlotRange
<1>5. s \notin Headers(h0, Base, b) /\ b < s
  <2>1. b < s
    BY <1>2, <1>3, <1>4
  <2> QED
    BY <2>1, <1>1, <1>2, <1>4, CopiesApart
<1>6. /\ Promoted(h0, F, g, b, n, o) /\ Headers(g, b, o) = Headers(h, b, o)
      /\ g.tag = h.tag /\ g.word[s] = y
      /\ \A z \in Addr : z # s => g.word[z] = h.word[z]
  <2>1. y \in Word
    BY Numbers
  <2>2. /\ Filled(h0, rs0, b, n) /\ DOMAIN F \subseteq Headers(h0, n, h0.watermark)
        /\ Promoted(h0, F, h, b, n, o) /\ s \in Addr /\ s < o
        /\ s \notin Headers(h0, Base, b) /\ s \notin Headers(h, b, o)
        /\ y \in Word /\ g = [h EXCEPT !.word[s] = y]
    BY <2>1, <1>1, <1>4, <1>5
  <2>3. Promoted(h0, F, g, b, n, o) /\ OneWrite(h, g, b, o, s, y)
    BY ONLY <2>2, SlotWritten
  <2> QED
    BY <2>3 DEF OneWrite
<1>7. PICK a \in DOMAIN F : F[a] = c
  BY <1>1, <1>3 DEF Promoted
<1>8. h0.tag[a].ref
  <2>1. h.tag[c].ref
    BY DEF RefSlots
  <2> QED
    BY <2>1, <1>1, <1>7 DEF CopyOf
<1>9. ASSUME NEW d \in DOMAIN F
      PROVE  CopyOf(h0, n, F, g, d, s + 1)
  <2>1. /\ h0.word[d] \in Nat /\ F[d] \in Addr /\ F[d] \in Nat
        /\ F[d] \in Headers(h, b, o) /\ ObjectWords(h, F[d]) = 2 + h0.word[d]
        /\ \A k \in 1 .. h0.word[d] :
              F[d] + Header + k - 1 \in Addr /\ F[d] + Header + k - 1 \in Nat
    BY <1>1, CopyRange
  <2>2. CopyOf(h0, n, F, h, d, s)
    BY <1>1
  <2>3. g.word[F[d]] = h0.word[d] /\ g.tag[F[d]] = h0.tag[d]
    BY <2>1, <2>2, <1>4, <1>6 DEF CopyOf
  <2>4. ASSUME NEW k \in 1 .. h0.word[d], NEW x, x = h0.word[d + Header + k - 1]
        PROVE  IF h0.tag[d].ref /\ F[d] + Header + k - 1 < s + 1
               THEN Forwarded(F, n, x, g.word[F[d] + Header + k - 1])
               ELSE g.word[F[d] + Header + k - 1] = x
    <3> DEFINE i == F[d] + Header + k - 1
    <3>1. i \in Addr /\ i \in Nat
      BY <2>1
    <3>2. IF h0.tag[d].ref /\ i < s
          THEN Forwarded(F, n, x, h.word[i])
          ELSE h.word[i] = x
      BY <2>2, <2>4 DEF CopyOf
    <3>3. CASE i # s
      <4>1. i < s + 1 <=> i < s
        BY <3>1, <3>3, <1>4
      <4> HIDE DEF i
      <4>2. g.word[i] = h.word[i]
        BY <3>1, <3>3, <1>6
      <4> QED
        BY <3>2, <4>1, <4>2 DEF i
    <3>4. CASE i = s
      <4>1. d = a
        <5> SUFFICES ASSUME d # a PROVE FALSE
          OBVIOUS
        <5>1. F[d] # c
          BY <1>1, <1>7 DEF Promoted
        <5>2. \/ F[d] < c /\ F[d] + ObjectWords(h, F[d]) <= c
              \/ c < F[d] /\ c + ObjectWords(h, c) <= F[d]
          BY <5>1, <2>1, <1>2, <1>3, ChunksApart
        <5>3. k \in Nat /\ k >= 1 /\ k <= h0.word[d] /\ ObjectWords(h, c) \in Nat
          BY <2>1, <1>2, <1>3, TiledWithin
        <5> QED
          BY <5>2, <5>3, <3>4, <2>1, <1>3, <1>4
      <4>2. ~(i < s) /\ i < s + 1
        BY <3>4, <1>4
      <4> HIDE DEF i
      <4>3. h.word[s] = x
        BY <3>2, <3>4, <4>2
      <4>4. Forwarded(F, n, x, g.word[i])
        BY <3>4, <4>3, <1>6
      <4> QED
        BY <4>1, <4>2, <4>4, <1>8 DEF i
    <3> QED
      BY <3>3, <3>4
  <2> QED
    BY <2>3, <2>4 DEF CopyOf
<1>10. ASSUME NEW d \in Headers(h0, Base, b)
       PROVE  OldArray(h0, n, F, g, d, q, e)
  <2>1. ASSUME NEW k \in 1 .. h0.word[d]
        PROVE  g.word[d + Header + k - 1] = h.word[d + Header + k - 1]
    <3>1. /\ d + Header + k - 1 \in Addr /\ d + Header + k - 1 \in Nat
          /\ d + Header + k - 1 < b
      BY <1>1, OldRange
    <3>2. d + Header + k - 1 # s
      BY <3>1, <1>2, <1>4, <1>5
    <3> QED
      BY <3>1, <3>2, <1>6
  <2>2. OldArray(h0, n, F, h, d, q, e)
    BY <1>1
  <2> QED
    BY <2>1, <2>2 DEF OldArray
<1>11. ScanAt(g, b, o, c, s + 1)
  <2>1. g.word[c] = h.word[c]
    BY <1>3, <1>4, <1>6, HeadersWithin
  <2>2. ObjectWords(g, c) = ObjectWords(h, c) /\ ObjectWords(h, c) \in Nat
    BY <2>1, <1>2, <1>3, TiledWithin DEF ObjectWords
  <2>3. s + 1 <= c + ObjectWords(g, c) /\ c # o
    BY <2>2, <1>2, <1>3, <1>4
  <2>4. s + 1 \in Nat /\ c + Header <= s + 1
    BY <1>3, <1>4
  <2> QED
    BY <2>3, <2>4, <1>3, <1>6 DEF ScanAt
<1> QED
  BY <1>1, <1>6, <1>9, <1>10, <1>11 DEF Promoting

\* process_obj on the slot the scan is at.
LEMMA SlotProcessed ==
    ASSUME NEW h0, NEW rs0, NEW F, NEW rs, NEW b, NEW n, n = nursery_start,
           NEW o, o = old_frontier, NEW q, NEW r, NEW e, NEW c, NEW s,
           Promoting(h0, rs0, F, heap, rs, b, n, o, q, r, e, c, s),
           c < o, s \in RefSlots(heap, c),
           NEW p, p = ProcessObj(heap.word[s]), NEW g, g = [p.heap EXCEPT !.word[s] = p.ref]
    PROVE  \E F2 : Promoting(h0, rs0, F2, g, rs, b, n, p.frontier, q, r, e, c, s + 1)
<1>1. /\ Filled(h0, rs0, b, n)
      /\ DOMAIN F \subseteq Headers(h0, n, h0.watermark)
      /\ Promoted(h0, F, heap, b, n, o)
      /\ \A a \in DOMAIN F : CopyOf(h0, n, F, heap, a, s)
      /\ ScanAt(heap, b, o, c, s)
  BY DEF Promoting
<1>2. /\ heap \in Heap /\ Tiled(heap, b, o) /\ b \in Nat /\ o \in Nat /\ b <= o /\ o <= HeapEnd
  <2>1. o \in Nat /\ b <= o /\ o + 2 * Header <= n
    BY <1>1, CopiesWithin
  <2>2. b \in Nat /\ n \in Nat /\ n <= h0.watermark /\ h0.watermark <= HeapEnd
        /\ h0.watermark \in Nat /\ HeapEnd \in Nat
    BY <1>1, FilledMeans
  <2>3. o <= HeapEnd
    BY <2>1, <2>2
  <2> QED
    BY <1>1, <2>1, <2>2, <2>3 DEF Promoted
<1>3. c \in Headers(heap, b, o) /\ c \in Nat /\ b <= c /\ c \in Addr
  <2>1. c \in Headers(heap, b, o) \cup {o}
    BY <1>1 DEF ScanAt
  <2>2. c \in Headers(heap, b, o)
    BY <2>1, <1>2
  <2> QED
    BY <2>2, HeadersWithin
<1>4. /\ s \in Addr /\ s \in Nat /\ s < o
      /\ s >= c + Header /\ s < c + ObjectWords(heap, c)
  BY <1>2, <1>3, SlotRange
<1>5. PICK a \in DOMAIN F : F[a] = c
  BY <1>1, <1>3 DEF Promoted
<1>6. heap.tag[c].ref
  BY DEF RefSlots
<1>7. /\ heap.word[s] \in Addr
      /\ heap.word[s] >= n => heap.word[s] \in Headers(h0, n, h0.watermark)
  <2> DEFINE k == s - c - 1
  <2>1. ObjectWords(heap, c) = 2 + h0.word[a] /\ h0.word[a] \in Nat /\ a \in Nat
    BY <1>1, <1>5, CopyRange
  <2>2. k \in 1 .. h0.word[a] /\ c + Header + k - 1 = s
    BY <2>1, <1>3, <1>4
  <2>3. h0.tag[a].ref /\ CopyOf(h0, n, F, heap, a, s)
    BY <1>1, <1>5, <1>6 DEF CopyOf
  <2> HIDE DEF k
  <2>4. ~(c + Header + k - 1 < s)
    BY <2>2, <1>4
  <2>5. heap.word[s] = h0.word[a + Header + k - 1]
    BY <2>2, <2>3, <2>4, <1>5 DEF CopyOf
  <2>6. a \in Generations(h0, b, n)
    BY <1>1 DEF Generations
  <2> QED
    BY <2>2, <2>3, <2>5, <2>6, <1>1, FilledRefs
<1>8. PICK F2 : /\ Promoting(h0, rs0, F2, p.heap, rs, b, n, p.frontier, q, r, e, c, s)
                /\ SameBelow(heap, p.heap, o) /\ o <= p.frontier
                /\ Forwarded(F2, n, heap.word[s], p.ref) /\ p.ref \in Addr
  BY <1>7, Processed
<1>9. p.heap.word[s] = heap.word[s] /\ p.heap.word[c] = heap.word[c] /\ p.heap.tag[c] = heap.tag[c]
  BY <1>3, <1>4, <1>8 DEF SameBelow
<1>10. c < p.frontier
  <2>1. p.frontier \in Nat
    BY <1>8, CopiesWithin DEF Promoting
  <2> QED
    BY <2>1, <1>2, <1>3, <1>8
<1>11. s \in RefSlots(p.heap, c)
  BY <1>9 DEF RefSlots
<1> DEFINE h == p.heap
           y == p.ref
           f == p.frontier
<1>12. /\ Promoting(h0, rs0, F2, h, rs, b, n, f, q, r, e, c, s)
       /\ c < f /\ s \in RefSlots(h, c) /\ y \in Addr /\ Forwarded(F2, n, h.word[s], y)
       /\ g = [h EXCEPT !.word[s] = y]
  BY <1>8, <1>9, <1>10, <1>11
<1> HIDE DEF h, y, f
<1>13. Promoting(h0, rs0, F2, g, rs, b, n, f, q, r, e, c, s + 1)
  BY ONLY <1>12, SlotRewritten
<1> QED
  BY <1>13 DEF f

\* The slot of an entry, and the old array it belongs to.
LEMMA EntryRange ==
    ASSUME NEW h0, NEW rs0, NEW b, NEW n, Filled(h0, rs0, b, n), NEW q, Entries(h0, b, q),
           NEW e \in DOMAIN q, NEW a, a = q[e][1], NEW t, t = RememberedSlot(q[e])
    PROVE  /\ a \in Headers(h0, Base, b) /\ a \in Nat /\ h0.word[a] \in Nat /\ h0.tag[a].ref
           /\ t \in Addr /\ t \in Nat /\ a < t /\ t < b /\ t \notin Headers(h0, Base, b)
           /\ t - a - 1 \in 1 .. h0.word[a] /\ a + Header + (t - a - 1) - 1 = t
<1>1. a \in Headers(h0, Base, b) /\ t \in RefSlots(h0, a)
  BY DEF Entries
<1>2. a \in Nat /\ h0.word[a] \in Nat /\ ObjectWords(h0, a) = 2 + h0.word[a]
  BY <1>1, FilledMeans
<1>3. h0.tag[a].ref /\ t \in (a + Header) .. (a + Header + h0.word[a] - 1)
  BY <1>1 DEF RefSlots
<1>4. t \in Nat /\ a < t /\ t - a - 1 \in 1 .. h0.word[a] /\ a + Header + (t - a - 1) - 1 = t
  BY <1>2, <1>3
<1>5. t \in Addr /\ t < b
  <2> DEFINE k == t - a - 1
  <2>1. k \in 1 .. h0.word[a] /\ a + Header + k - 1 = t
    BY <1>4
  <2> HIDE DEF k
  <2> QED
    BY <2>1, <1>1, OldRange
<1>6. t \notin Headers(h0, Base, b)
  <2>1. h0 \in Heap /\ b \in Nat /\ b <= HeapEnd /\ Tiled(h0, Base, b) /\ Base \in Nat
    <3>1. b \in Nat /\ n \in Nat /\ b + Header <= n /\ n <= h0.watermark /\ h0.watermark <= HeapEnd
          /\ h0.watermark \in Nat /\ HeapEnd \in Nat
      BY FilledMeans
    <3> QED
      BY <3>1, FilledMeans
  <2> QED
    BY <2>1, <1>1, SlotRange
<1> QED
  BY <1>1, <1>2, <1>3, <1>4, <1>5, <1>6

\* One entry of the remembered set is redirected.
LEMMA EntryRewritten ==
    ASSUME NEW h0, NEW rs0, NEW F, NEW h, NEW rs, NEW b, NEW n, NEW o,
           NEW q, NEW r, NEW e, NEW c, NEW s, q \in Seq(Addr \X Nat),
           Promoting(h0, rs0, F, h, rs, b, n, o, q, r, e, c, s),
           e \in DOMAIN q, NEW t, t = RememberedSlot(q[e]),
           NEW y \in Addr, Forwarded(F, n, h0.word[t], y),
           NEW g, g = [h EXCEPT !.word[t] = y]
    PROVE  Promoting(h0, rs0, F, g, rs, b, n, o, q, r, e + 1, c, s)
<1>1. /\ Filled(h0, rs0, b, n) /\ Entries(h0, b, q)
      /\ DOMAIN F \subseteq Headers(h0, n, h0.watermark)
      /\ Promoted(h0, F, h, b, n, o)
      /\ \A a \in DOMAIN F : CopyOf(h0, n, F, h, a, s)
      /\ \A a \in Headers(h0, Base, b) : OldArray(h0, n, F, h, a, q, e)
      /\ RootsTo(rs0, F, n, rs, r)
      /\ ScanAt(h, b, o, c, s)
  BY DEF Promoting
<1>2. /\ h \in Heap /\ b \in Nat /\ o \in Nat /\ b <= o /\ e \in Nat /\ Base \in Nat
      /\ h0 \in Heap /\ Tiled(h0, Base, b)
  BY <1>1, CopiesWithin, FilledMeans, ElementOfSeq, SMTT(30) DEF Promoted
<1> DEFINE a0 == q[e][1]
<1>3. /\ a0 \in Headers(h0, Base, b) /\ a0 \in Nat /\ h0.word[a0] \in Nat /\ h0.tag[a0].ref
      /\ t \in Addr /\ t \in Nat /\ a0 < t /\ t < b /\ t \notin Headers(h0, Base, b)
      /\ t - a0 - 1 \in 1 .. h0.word[a0] /\ a0 + Header + (t - a0 - 1) - 1 = t
  BY <1>1, EntryRange
<1> HIDE DEF a0
<1>4. t < o /\ t \notin Headers(h, b, o)
  <2>1. t < o
    BY <1>2, <1>3
  <2>2. ~(b <= t)
    BY <1>2, <1>3
  <2>3. t \in Headers(h, b, o) => b <= t
    BY <1>2, HeadersWithin
  <2> QED
    BY <2>1, <2>2, <2>3
<1>5. /\ Promoted(h0, F, g, b, n, o) /\ Headers(g, b, o) = Headers(h, b, o)
      /\ g.tag = h.tag /\ g.word[t] = y
      /\ \A z \in Addr : z # t => g.word[z] = h.word[z]
  <2>1. y \in Word
    BY Numbers
  <2>2. /\ Filled(h0, rs0, b, n) /\ DOMAIN F \subseteq Headers(h0, n, h0.watermark)
        /\ Promoted(h0, F, h, b, n, o) /\ t \in Addr /\ t < o
        /\ t \notin Headers(h0, Base, b) /\ t \notin Headers(h, b, o)
        /\ y \in Word /\ g = [h EXCEPT !.word[t] = y]
    BY <2>1, <1>1, <1>3, <1>4
  <2>3. Promoted(h0, F, g, b, n, o) /\ OneWrite(h, g, b, o, t, y)
    BY ONLY <2>2, SlotWritten
  <2> QED
    BY <2>3 DEF OneWrite
<1>51. ASSUME NEW z \in Addr, b <= z
       PROVE  g.word[z] = h.word[z]
  <2>1. z # t
    BY <1>51, <1>2, <1>3
  <2> QED
    BY <2>1, <1>5
<1>6. ASSUME NEW d \in DOMAIN F
      PROVE  CopyOf(h0, n, F, g, d, s)
  <2>1. /\ F[d] \in Addr /\ F[d] \in Nat /\ b <= F[d]
        /\ \A k \in 1 .. h0.word[d] :
              /\ F[d] + Header + k - 1 \in Addr /\ F[d] + Header + k - 1 \in Nat
              /\ b <= F[d] + Header + k - 1
    BY <1>1, CopyRange
  <2>2. g.word[F[d]] = h.word[F[d]] /\ g.tag[F[d]] = h.tag[F[d]]
    BY <2>1, <1>5, <1>51
  <2>3. \A k \in 1 .. h0.word[d] : g.word[F[d] + Header + k - 1] = h.word[F[d] + Header + k - 1]
    BY <2>1, <1>51
  <2>4. CopyOf(h0, n, F, h, d, s)
    BY <1>1
  <2> QED
    BY <2>2, <2>3, <2>4 DEF CopyOf
<1>7. ASSUME NEW d \in Headers(h0, Base, b)
      PROVE  OldArray(h0, n, F, g, d, q, e + 1)
  <2> SUFFICES ASSUME NEW k \in 1 .. h0.word[d], NEW x, x = h0.word[d + Header + k - 1],
                      NEW i, i = d + Header + k - 1
               PROVE  IF h0.tag[d].ref
                      THEN \/ Forwarded(F, n, x, g.word[i])
                           \/ /\ g.word[i] = x
                              /\ \E j \in DOMAIN q : j >= e + 1 /\ RememberedSlot(q[j]) = i
                      ELSE g.word[i] = x
    BY DEF OldArray
  <2>1. IF h0.tag[d].ref
        THEN \/ Forwarded(F, n, x, h.word[i])
             \/ /\ h.word[i] = x
                /\ \E j \in DOMAIN q : j >= e /\ RememberedSlot(q[j]) = i
        ELSE h.word[i] = x
    BY <1>1 DEF OldArray
  <2>2. i \in Addr /\ i \in Nat /\ d < i
    BY <1>1, OldRange
  <2>3. CASE i # t
    <3>1. g.word[i] = h.word[i]
      BY <2>2, <2>3, <1>5
    <3>2. ASSUME NEW j \in DOMAIN q, j >= e, RememberedSlot(q[j]) = i
          PROVE  j >= e + 1
      <4>1. j \in Nat /\ j # e
        BY <3>2, <2>3, ElementOfSeq
      <4> QED
        BY <4>1, <3>2, <1>2
    <3> QED
      BY <2>1, <3>1, <3>2
  <2>4. CASE i = t
    <3>1. d = a0
      <4> SUFFICES ASSUME d # a0 PROVE FALSE
        OBVIOUS
      <4>1. /\ d \in Nat /\ h0.word[d] \in Nat
            /\ ObjectWords(h0, d) = 2 + h0.word[d] /\ ObjectWords(h0, a0) = 2 + h0.word[a0]
        BY <1>1, <1>3, FilledMeans
      <4>2. \/ d < a0 /\ d + ObjectWords(h0, d) <= a0
            \/ a0 < d /\ a0 + ObjectWords(h0, a0) <= d
        BY <1>2, <1>3, ChunksApart
      <4>3. k \in Nat /\ k >= 1 /\ k <= h0.word[d]
        BY <4>1
      <4>4. t <= a0 + 1 + h0.word[a0]
        BY <1>3, SMTT(30)
      <4>5. t = d + 2 + k - 1 /\ a0 < t /\ d < t
        BY <2>2, <2>4, <1>3
      <4>6. \/ d + (2 + h0.word[d]) <= a0
            \/ a0 + (2 + h0.word[a0]) <= d
        BY <4>1, <4>2
      <4>7. a0 \in Nat /\ h0.word[a0] \in Nat /\ t \in Nat /\ d \in Nat /\ h0.word[d] \in Nat
        BY <4>1, <1>3
      <4> QED
        BY ONLY <4>3, <4>4, <4>5, <4>6, <4>7
    <3> QED
      BY <3>1, <2>4, <1>3, <1>5
  <2> QED
    BY <2>3, <2>4
<1>8. ScanAt(g, b, o, c, s)
  <2>1. c # o => g.word[c] = h.word[c]
    <3>1. c # o => c \in Headers(h, b, o)
      BY <1>1 DEF ScanAt
    <3> QED
      BY <3>1, <1>4, <1>5 DEF Headers
  <2> QED
    BY <2>1, <1>1, <1>5 DEF ScanAt, ObjectWords
<1> QED
  BY <1>1, <1>5, <1>6, <1>7, <1>8 DEF Promoting

\* The loop body of remset_forward. A slot that is remembered twice is redirected once.
LEMMA EntryProcessed ==
    ASSUME NEW h0, NEW rs0, NEW F, NEW rs, NEW b, NEW n, n = nursery_start,
           NEW o, o = old_frontier, NEW q, NEW r, NEW e, NEW c, NEW s, q \in Seq(Addr \X Nat),
           Promoting(h0, rs0, F, heap, rs, b, n, o, q, r, e, c, s),
           e \in DOMAIN q, NEW t, t = RememberedSlot(q[e]),
           NEW p, p = ProcessObj(heap.word[t]), NEW g, g = [p.heap EXCEPT !.word[t] = p.ref]
    PROVE  \E F2 : Promoting(h0, rs0, F2, g, rs, b, n, p.frontier, q, r, e + 1, c, s)
<1> DEFINE a0 == q[e][1]
           k == t - a0 - 1
           x == h0.word[t]
           v == heap.word[t]
<1>1. /\ Filled(h0, rs0, b, n) /\ Entries(h0, b, q)
      /\ DOMAIN F \subseteq Headers(h0, n, h0.watermark)
      /\ Promoted(h0, F, heap, b, n, o)
      /\ \A a \in Headers(h0, Base, b) : OldArray(h0, n, F, heap, a, q, e)
  BY DEF Promoting
<1>2. /\ a0 \in Headers(h0, Base, b) /\ h0.tag[a0].ref
      /\ k \in 1 .. h0.word[a0] /\ a0 + Header + k - 1 = t
  BY <1>1, EntryRange
<1> HIDE DEF a0, k
<1>3. /\ x \in Addr /\ x \in Nat /\ (x >= n => x \in Headers(h0, n, h0.watermark))
  <2>1. a0 \in Generations(h0, b, n)
    BY <1>2 DEF Generations
  <2> QED
    BY <2>1, <1>1, <1>2, FilledRefs
<1>4. Forwarded(F, n, x, v) \/ v = x
  <2>1. OldArray(h0, n, F, heap, a0, q, e)
    BY <1>1, <1>2
  <2> QED
    BY <2>1, <1>2 DEF OldArray
<1>5. n \in Nat /\ o \in Nat /\ o < n /\ \A a \in DOMAIN F : F[a] \in Addr /\ F[a] \in Nat /\ F[a] < o
  <2>1. n \in Nat /\ o \in Nat /\ o + 2 * Header <= n
    BY <1>1, FilledMeans, CopiesWithin
  <2> QED
    BY <2>1, <1>1, CopiesWithin
<1>6. Forwarded(F, n, x, v) => v \in Addr /\ v \in Nat /\ v < n
  <2>1. CASE x \in DOMAIN F
    BY <2>1, <1>5 DEF Forwarded
  <2>2. CASE x \notin DOMAIN F
    BY <2>2, <1>3 DEF Forwarded
  <2> QED
    BY <2>1, <2>2
<1>7. v \in Addr /\ (v >= n => v \in Headers(h0, n, h0.watermark))
  BY <1>3, <1>4, <1>5, <1>6
<1> HIDE DEF x, v
<1>8. PICK F2 : /\ Promoting(h0, rs0, F2, p.heap, rs, b, n, p.frontier, q, r, e, c, s)
                /\ Extends(F, F2)
                /\ Forwarded(F2, n, v, p.ref) /\ p.ref \in Addr
  <2>1. p = ProcessObj(v)
    BY DEF v
  <2> QED
    BY <2>1, <1>7, Processed
<1>9. Forwarded(F2, n, x, p.ref)
  <2>1. \A a \in DOMAIN F2 : a \in Nat /\ n <= a
    BY <1>1, <1>8, FilledMeans DEF Promoting
  <2>2. CASE v = x
    BY <2>2, <1>8
  <2>3. CASE Forwarded(F, n, x, v)
    <3>1. Forwarded(F2, n, x, v)
      BY <2>1, <2>3, <1>5, <1>8, StillForwarded
    <3>2. v < n /\ v \in Nat
      BY <2>3, <1>6
    <3>3. v \notin DOMAIN F2
      BY <2>1, <3>2, <1>5
    <3> QED
      BY <3>1, <3>3, <1>8 DEF Forwarded
  <2> QED
    BY <2>2, <2>3, <1>4
<1> DEFINE h == p.heap
           y == p.ref
           f == p.frontier
<1>10. /\ Promoting(h0, rs0, F2, h, rs, b, n, f, q, r, e, c, s) /\ q \in Seq(Addr \X Nat)
       /\ e \in DOMAIN q /\ t = RememberedSlot(q[e]) /\ y \in Addr
       /\ Forwarded(F2, n, h0.word[t], y) /\ g = [h EXCEPT !.word[t] = y]
  BY <1>8, <1>9 DEF x
<1> HIDE DEF h, y, f
<1>11. Promoting(h0, rs0, F2, g, rs, b, n, f, q, r, e + 1, c, s)
  BY ONLY <1>10, EntryRewritten
<1> QED
  BY <1>11 DEF f

\* The scan goes on to the next copy.
LEMMA CopyScanned ==
    ASSUME NEW h0, NEW rs0, NEW F, NEW h, NEW rs, NEW b, NEW n, NEW o,
           NEW q, NEW r, NEW e, NEW c, NEW s,
           Promoting(h0, rs0, F, h, rs, b, n, o, q, r, e, c, s),
           c < o, s \notin RefSlots(h, c), NEW d, d = c + ObjectWords(h, c)
    PROVE  Promoting(h0, rs0, F, h, rs, b, n, o, q, r, e, d, d + Header) /\ d \in Word
           /\ d + Header \in Word
<1>1. /\ Filled(h0, rs0, b, n) /\ Entries(h0, b, q)
      /\ DOMAIN F \subseteq Headers(h0, n, h0.watermark)
      /\ Promoted(h0, F, h, b, n, o)
      /\ \A a \in DOMAIN F : CopyOf(h0, n, F, h, a, s)
      /\ \A a \in Headers(h0, Base, b) : OldArray(h0, n, F, h, a, q, e)
      /\ RootsTo(rs0, F, n, rs, r)
      /\ ScanAt(h, b, o, c, s)
  BY DEF Promoting
<1>2. /\ h \in Heap /\ Tiled(h, b, o) /\ b \in Nat /\ o \in Nat /\ b <= o /\ o + 2 <= HeapEnd
      /\ HeapEnd \in Nat
  <2>1. o \in Nat /\ b <= o /\ o + 2 * Header <= n
    BY <1>1, CopiesWithin
  <2>2. b \in Nat /\ n \in Nat /\ n <= h0.watermark /\ h0.watermark <= HeapEnd
        /\ h0.watermark \in Nat /\ HeapEnd \in Nat
    BY <1>1, FilledMeans
  <2>3. o + 2 <= HeapEnd
    BY <2>1, <2>2
  <2> QED
    BY <1>1, <2>1, <2>2, <2>3 DEF Promoted
<1>3. c \in Headers(h, b, o) /\ c \in Nat
  <2>1. c \in Headers(h, b, o) \cup {o}
    BY <1>1 DEF ScanAt
  <2> QED
    BY <2>1, <1>2, HeadersWithin
<1>4. d \in Headers(h, b, o) \cup {o}
  BY <1>2, <1>3 DEF Tiled
<1>5. /\ ObjectWords(h, c) \in Nat /\ ObjectWords(h, c) >= 2 /\ d \in Nat /\ d <= o
      /\ ObjectWords(h, c) = 2 + h.word[c] /\ h.word[c] \in Nat
  BY <1>2, <1>3, TiledWithin, WordTypes
<1>6. s \in Nat /\ c + Header <= s /\ s <= d
  BY <1>1, <1>2, <1>3 DEF ScanAt
<1>7. ASSUME NEW a \in DOMAIN F
      PROVE  CopyOf(h0, n, F, h, a, d + Header)
  <2>1. /\ h0.word[a] \in Nat /\ F[a] \in Nat
        /\ F[a] \in Headers(h, b, o) /\ ObjectWords(h, F[a]) = 2 + h0.word[a]
    BY <1>1, CopyRange
  <2>2. CopyOf(h0, n, F, h, a, s)
    BY <1>1
  <2>3. ASSUME NEW k \in 1 .. h0.word[a], h0.tag[a].ref
        PROVE  F[a] + Header + k - 1 < d + Header <=> F[a] + Header + k - 1 < s
    <3>1. k \in Nat /\ k >= 1 /\ k <= h0.word[a]
      BY <2>1
    <3>2. CASE F[a] = c
      <4>1. RefSlots(h, c) = (c + Header) .. (c + Header + h.word[c] - 1)
        BY <2>2, <2>3, <3>2 DEF CopyOf, RefSlots
      <4>2. s = d
        BY <4>1, <1>3, <1>5, <1>6
      <4> QED
        BY <3>1, <3>2, <4>2, <2>1, <1>5
    <3>3. CASE F[a] # c
      <4>1. \/ F[a] < c /\ F[a] + ObjectWords(h, F[a]) <= c
            \/ c < F[a] /\ c + ObjectWords(h, c) <= F[a]
        BY <3>3, <2>1, <1>2, <1>3, ChunksApart
      <4> QED
        BY <4>1, <3>1, <2>1, <1>3, <1>5, <1>6
    <3> QED
      BY <3>2, <3>3
  <2> QED
    BY <2>2, <2>3 DEF CopyOf
<1>8. ScanAt(h, b, o, d, d + Header)
  <2>1. d # o => d + Header <= d + ObjectWords(h, d)
    BY <1>2, <1>4, TiledWithin
  <2> QED
    BY <2>1, <1>4, <1>5 DEF ScanAt
<1>9. d \in Word /\ d + Header \in Word
  <2>1. HeapEnd < W - 2 /\ W \in Nat
    BY HeapAssumption
  <2> QED
    BY <2>1, <1>2, <1>5 DEF Word
<1> QED
  BY <1>1, <1>7, <1>8, <1>9 DEF Promoting

-----------------------------------------------------------------------------
\* Where an array is when the minor collection is over.
Kept(F, a) == IF a \in DOMAIN F THEN F[a] ELSE a

\* What it keeps: the old arrays and the copied ones, with their references redirected.
Keeps(h0, F, b) == Headers(h0, Base, b) \cup DOMAIN F
AllKept(h0, F, h, S) ==
    \A a \in S :
       /\ h.word[Kept(F, a)] = h0.word[a] /\ h.tag[Kept(F, a)] = h0.tag[a]
       /\ \A k \in 1 .. h0.word[a] :
             LET x == h0.word[a + Header + k - 1]
                 y == h.word[Kept(F, a) + Header + k - 1]
             IN  IF h0.tag[a].ref THEN x \in S \cup {GC_NULL} /\ y = Kept(F, x) ELSE y = x

\* A redirected reference leads to what is kept.
LEMMA ForwardedKept ==
    ASSUME NEW h0, NEW rs0, NEW F, NEW b, NEW n, Filled(h0, rs0, b, n),
           DOMAIN F \subseteq Headers(h0, n, h0.watermark),
           NEW x, NEW y, Forwarded(F, n, x, y),
           \/ \E r \in RootSlots : x = rs0[r]
           \/ \E a \in Generations(h0, b, n) :
                 h0.tag[a].ref /\ \E k \in 1 .. h0.word[a] : x = h0.word[a + Header + k - 1]
    PROVE  x \in Keeps(h0, F, b) \cup {GC_NULL} /\ y = Kept(F, x)
<1>1. CASE x \in DOMAIN F
  BY <1>1 DEF Forwarded, Keeps, Kept
<1>2. CASE x \notin DOMAIN F
  <2>1. x < n /\ y = x
    BY <1>2 DEF Forwarded
  <2>2. x \in Headers(h0, Base, b) \cup {GC_NULL}
    BY <2>1, FilledRefs
  <2> QED
    BY <1>2, <2>1, <2>2 DEF Keeps, Kept
<1> QED
  BY <1>1, <1>2

\* When the scan meets the frontier, no reference is left to redirect.
LEMMA AllForwarded ==
    ASSUME NEW h0, NEW rs0, NEW F, NEW h, NEW rs, NEW b, NEW n, NEW o,
           NEW q, NEW r, NEW e, NEW c, NEW s, q \in Seq(Addr \X Nat), e \in Nat,
           Promoting(h0, rs0, F, h, rs, b, n, o, q, r, e, c, s),
           \A i \in RootSlots : i < r, Len(q) < e, ~(c < o),
           NEW S, S = Keeps(h0, F, b)
    PROVE  /\ \A i \in RootSlots : rs0[i] \in S \cup {GC_NULL} /\ rs[i] = Kept(F, rs0[i])
           /\ AllKept(h0, F, h, S)
<1>1. /\ Filled(h0, rs0, b, n)
      /\ DOMAIN F \subseteq Headers(h0, n, h0.watermark)
      /\ Promoted(h0, F, h, b, n, o)
      /\ \A a \in DOMAIN F : CopyOf(h0, n, F, h, a, s)
      /\ \A a \in Headers(h0, Base, b) : OldArray(h0, n, F, h, a, q, e)
      /\ RootsTo(rs0, F, n, rs, r)
      /\ ScanAt(h, b, o, c, s)
  BY DEF Promoting
<1>2. /\ b \in Nat /\ n \in Nat /\ o \in Nat /\ b <= o /\ b < n
      /\ \A a \in DOMAIN F : a \in Nat /\ n <= a
      /\ \A a \in Headers(h0, Base, b) : a \in Addr /\ a \in Nat /\ a < b
  <2>1. b \in Nat /\ n \in Nat /\ b + Header <= n
    BY <1>1, FilledMeans
  <2>2. b < n
    BY <2>1
  <2>3. o \in Nat /\ b <= o
    BY <1>1, CopiesWithin
  <2> QED
    BY <2>1, <2>2, <2>3, <1>1, FilledMeans
<1>3. s \in Nat /\ o < s
  <2>1. c \in Headers(h, b, o) \cup {o} /\ s \in Nat /\ (c = o => s = c + Header)
    BY <1>1 DEF ScanAt
  <2>2. c = o
    BY <2>1, <1>2, HeadersWithin
  <2> QED
    BY <2>1, <2>2, <1>2
<1>4. ASSUME NEW i \in DOMAIN q
      PROVE  ~(i >= e)
  <2>1. i \in Nat /\ i <= Len(q) /\ Len(q) \in Nat
    BY ElementOfSeq
  <2> QED
    BY <2>1
<1>5. ASSUME NEW i \in RootSlots
      PROVE  rs0[i] \in S \cup {GC_NULL} /\ rs[i] = Kept(F, rs0[i])
  <2>1. Forwarded(F, n, rs0[i], rs[i])
    BY <1>1 DEF RootsTo
  <2> QED
    BY <2>1, <1>1, ForwardedKept
<1>6. ASSUME NEW a \in DOMAIN F
      PROVE  /\ h.word[Kept(F, a)] = h0.word[a] /\ h.tag[Kept(F, a)] = h0.tag[a]
             /\ \A k \in 1 .. h0.word[a] :
                   LET x == h0.word[a + Header + k - 1]
                       y == h.word[Kept(F, a) + Header + k - 1]
                   IN  IF h0.tag[a].ref THEN x \in S \cup {GC_NULL} /\ y = Kept(F, x) ELSE y = x
  <2>1. Kept(F, a) = F[a]
    BY DEF Kept
  <2>2. CopyOf(h0, n, F, h, a, s)
    BY <1>1
  <2>3. ASSUME NEW k \in 1 .. h0.word[a]
        PROVE  F[a] + Header + k - 1 < s
    <3>1. F[a] + Header + k - 1 \in Nat /\ F[a] + Header + k - 1 < o
      BY <1>1, <2>2, CopyRange
    <3> QED
      BY <3>1, <1>2, <1>3
  <2>4. a \in Generations(h0, b, n)
    BY <1>1 DEF Generations
  <2>5. ASSUME NEW k \in 1 .. h0.word[a], NEW x, x = h0.word[a + Header + k - 1],
               NEW y, y = h.word[F[a] + Header + k - 1]
        PROVE  IF h0.tag[a].ref THEN x \in S \cup {GC_NULL} /\ y = Kept(F, x) ELSE y = x
    <3>1. IF h0.tag[a].ref THEN Forwarded(F, n, x, y) ELSE y = x
      BY <2>2, <2>3, <2>5 DEF CopyOf
    <3> QED
      BY <3>1, <2>4, <2>5, <1>1, ForwardedKept
  <2> QED
    BY <2>1, <2>2, <2>5 DEF CopyOf
<1>7. ASSUME NEW a \in Headers(h0, Base, b)
      PROVE  /\ h.word[Kept(F, a)] = h0.word[a] /\ h.tag[Kept(F, a)] = h0.tag[a]
             /\ \A k \in 1 .. h0.word[a] :
                   LET x == h0.word[a + Header + k - 1]
                       y == h.word[Kept(F, a) + Header + k - 1]
                   IN  IF h0.tag[a].ref THEN x \in S \cup {GC_NULL} /\ y = Kept(F, x) ELSE y = x
  <2>1. Kept(F, a) = a
    <3>1. a \notin DOMAIN F
      BY <1>2
    <3> QED
      BY <3>1 DEF Kept
  <2>2. OldArray(h0, n, F, h, a, q, e)
    BY <1>1
  <2>3. h.word[a] = h0.word[a] /\ h.tag[a] = h0.tag[a]
    BY <1>1, <1>2 DEF Promoted
  <2>4. a \in Generations(h0, b, n)
    BY DEF Generations
  <2>5. ASSUME NEW k \in 1 .. h0.word[a], NEW x, x = h0.word[a + Header + k - 1],
               NEW y, y = h.word[a + Header + k - 1]
        PROVE  IF h0.tag[a].ref THEN x \in S \cup {GC_NULL} /\ y = Kept(F, x) ELSE y = x
    <3>1. IF h0.tag[a].ref THEN Forwarded(F, n, x, y) ELSE y = x
      BY <2>2, <2>5, <1>4 DEF OldArray
    <3> QED
      BY <3>1, <2>4, <2>5, <1>1, ForwardedKept
  <2> QED
    BY <2>1, <2>3, <2>5
<1>8. AllKept(h0, F, h, S)
  BY <1>6, <1>7 DEF AllKept, Keeps
<1> QED
  BY <1>5, <1>8

\* What is kept is below the frontier, in chunks of h.
LEMMA KeptWithin ==
    ASSUME NEW h0, NEW rs0, NEW F, NEW h, NEW b, NEW n, NEW o, Filled(h0, rs0, b, n),
           DOMAIN F \subseteq Headers(h0, n, h0.watermark), Promoted(h0, F, h, b, n, o),
           NEW S, S = Keeps(h0, F, b), AllKept(h0, F, h, S)
    PROVE  /\ Tiled(h, Base, o) /\ Headers(h, Base, o) = {Kept(F, a) : a \in S}
           /\ S \subseteq Addr \ {GC_NULL} /\ S \subseteq Generations(h0, b, n)
           /\ \A a \in S :
                 /\ a \in Addr /\ a \in Nat /\ Kept(F, a) \in Addr /\ Kept(F, a) \in Nat
                 /\ Base <= Kept(F, a) /\ h0.word[a] \in Nat
                 /\ Kept(F, a) + Header + h0.word[a] <= o
                 /\ \A k \in 1 .. h0.word[a] :
                       /\ Kept(F, a) + Header + k - 1 \in Addr
                       /\ Kept(F, a) + Header + k - 1 \in Nat
                       /\ Kept(F, a) + Header + k - 1 < o
<1>1. /\ h0 \in Heap /\ b \in Nat /\ n \in Nat /\ Base <= b /\ b < n /\ Base \in Nat
      /\ n <= HeapEnd /\ HeapEnd \in Nat /\ Tiled(h0, Base, b)
  <2>1. /\ h0 \in Heap /\ b \in Nat /\ n \in Nat /\ Base <= b /\ b + Header <= n /\ Base \in Nat
        /\ n <= h0.watermark /\ h0.watermark <= HeapEnd /\ HeapEnd \in Nat /\ h0.watermark \in Nat
        /\ Tiled(h0, Base, b)
    BY FilledMeans
  <2> QED
    BY <2>1
<1>2. /\ \A a \in Headers(h0, Base, b) : a \in Addr /\ a \in Nat /\ a < b /\ h0.word[a] \in Nat
                                         /\ Base <= a
      /\ \A a \in Headers(h0, n, h0.watermark) : a \in Addr /\ a \in Nat /\ n <= a /\ h0.word[a] \in Nat
  BY FilledMeans
<1>3. o \in Nat /\ b <= o /\ o < n
  <2>1. o \in Nat /\ b <= o /\ o + 2 * Header <= n
    BY CopiesWithin
  <2> QED
    BY <2>1, <1>1
<1>4. /\ h \in Heap /\ Tiled(h, b, o) /\ Headers(h, b, o) = {F[a] : a \in DOMAIN F}
      /\ \A x \in Addr : x < b => h.tag[x] = h0.tag[x]
      /\ \A a \in Headers(h0, Base, b) : h.word[a] = h0.word[a]
  BY DEF Promoted
<1>5. Headers(h, Base, b) = Headers(h0, Base, b) /\ Tiled(h, Base, b)
  <2>1. \A x \in Addr : Base <= x /\ x < b =>
           /\ h.tag[x].head <=> h0.tag[x].head
           /\ h0.tag[x].head => h.word[x] = h0.word[x]
    BY <1>4 DEF Headers
  <2>2. b \in Nat /\ Base \in Nat /\ Tiled(h0, Base, b)
    BY <1>1
  <2> QED
    BY ONLY <2>1, <2>2, TiledSame, Zenon
<1>6. Tiled(h, Base, o) /\ Headers(h, Base, o) = Headers(h0, Base, b) \cup {F[a] : a \in DOMAIN F}
  <2>1. Tiled(h, Base, o)
    BY <1>1, <1>3, <1>4, <1>5, TiledJoin
  <2>2. Headers(h, Base, o) = Headers(h, Base, b) \cup Headers(h, b, o)
    BY <1>1, <1>3, <1>4, HeadersJoin
  <2> QED
    BY <2>1, <2>2, <1>4, <1>5
<1>7. /\ \A a \in DOMAIN F : Kept(F, a) = F[a]
      /\ \A a \in Headers(h0, Base, b) : Kept(F, a) = a
  <2>1. \A a \in Headers(h0, Base, b) : a \notin DOMAIN F
    BY <1>1, <1>2
  <2> QED
    BY <2>1 DEF Kept
<1>8. Headers(h, Base, o) = {Kept(F, a) : a \in S}
  BY <1>6, <1>7 DEF Keeps
<1>9. S \subseteq Generations(h0, b, n)
  BY DEF Keeps, Generations
<1>10. ASSUME NEW a \in S
       PROVE  /\ a \in Addr /\ a \in Nat /\ a # GC_NULL /\ Kept(F, a) \in Addr /\ Kept(F, a) \in Nat
              /\ Base <= Kept(F, a) /\ h0.word[a] \in Nat
              /\ Kept(F, a) + Header + h0.word[a] <= o
              /\ \A k \in 1 .. h0.word[a] :
                    /\ Kept(F, a) + Header + k - 1 \in Addr
                    /\ Kept(F, a) + Header + k - 1 \in Nat
                    /\ Kept(F, a) + Header + k - 1 < o
  <2> DEFINE m == Kept(F, a)
  <2>1. m \in Headers(h, Base, o)
    BY <1>8
  <2>2. a \in Addr /\ a \in Nat /\ a # GC_NULL /\ h0.word[a] \in Nat
    <3>1. a \in Headers(h0, Base, b) \/ a \in Headers(h0, n, h0.watermark)
      BY <1>9 DEF Generations
    <3>2. GC_NULL < Base /\ GC_NULL < n
      BY <1>1
    <3> QED
      BY <3>1, <3>2, <1>1, <1>2
  <2>3. h.word[m] = h0.word[a]
    BY DEF AllKept
  <2> HIDE DEF m
  <2>4. /\ m \in Addr /\ m \in Nat /\ Base <= m /\ m + ObjectWords(h, m) <= o
        /\ ObjectWords(h, m) = 2 + h0.word[a]
    <3>1. m \in Addr /\ m \in Nat /\ Base <= m /\ m + ObjectWords(h, m) <= o
      BY <2>1, <1>1, <1>3, <1>4, <1>6, TiledWithin
    <3> QED
      BY <3>1, <2>3 DEF ObjectWords
  <2>5. m + Header + h0.word[a] <= o
    BY <2>2, <2>4
  <2>6. ASSUME NEW k \in 1 .. h0.word[a]
        PROVE  m + Header + k - 1 \in Addr /\ m + Header + k - 1 \in Nat /\ m + Header + k - 1 < o
    <3>1. k \in Nat /\ k >= 1 /\ k <= h0.word[a]
      BY <2>2
    <3>2. /\ m \in Nat /\ h0.word[a] \in Nat /\ o \in Nat /\ n \in Nat /\ HeapEnd \in Nat
          /\ m + 2 + h0.word[a] <= o /\ o < n /\ n <= HeapEnd
      BY <2>2, <2>4, <2>5, <1>1, <1>3
    <3>3. m + 2 + k - 1 \in Nat /\ m + 2 + k - 1 < o /\ m + 2 + k - 1 < HeapEnd
      BY ONLY <3>1, <3>2
    <3> QED
      BY <3>3, <1>1 DEF Addr
  <2> QED
    BY <2>2, <2>4, <2>5, <2>6 DEF m
<1>11. S \subseteq Addr \ {GC_NULL}
  BY <1>10
<1> QED
  BY <1>6, <1>8, <1>9, <1>10, <1>11

\* The end of a minor collection: the heap below the frontier is what was kept, the
\* nursery is empty, and the program sees what it saw.
LEMMA PromotionEnds ==
    ASSUME NEW h0, NEW rs0, NEW F, NEW h, NEW rs, NEW b, NEW n, NEW o,
           NEW q, NEW r, NEW e, NEW c, NEW s, q \in Seq(Addr \X Nat), e \in Nat,
           Promoting(h0, rs0, F, h, rs, b, n, o, q, r, e, c, s),
           \A i \in RootSlots : i < r, Len(q) < e, ~(c < o), Distinct(h0, Live(h0, rs0)),
           NEW g, g = Vacate(SetWatermark(h, n), n, h.watermark)
    PROVE  /\ Rest(g, rs, o, n) /\ g.watermark = n /\ Remembers(g, o, n, <<>>)
           /\ ViewOf(g, rs) = ViewOf(h0, rs0) /\ Distinct(g, Live(g, rs))
<1> DEFINE S == Keeps(h0, F, b)
           h1 == SetWatermark(h, n)
           w == h.watermark
           A == {Kept(F, a) : a \in S}
<1>1. /\ Filled(h0, rs0, b, n)
      /\ DOMAIN F \subseteq Headers(h0, n, h0.watermark)
      /\ Promoted(h0, F, h, b, n, o) /\ RootsTo(rs0, F, n, rs, r)
  BY DEF Promoting
<1>2. /\ \A i \in RootSlots : rs0[i] \in S \cup {GC_NULL} /\ rs[i] = Kept(F, rs0[i])
      /\ AllKept(h0, F, h, S)
  BY AllForwarded
<1> HIDE DEF S
<1>3. /\ Tiled(h, Base, o) /\ Headers(h, Base, o) = A
      /\ S \subseteq Addr \ {GC_NULL} /\ S \subseteq Generations(h0, b, n)
      /\ \A a \in S :
            /\ a \in Addr /\ a \in Nat /\ Kept(F, a) \in Addr /\ Kept(F, a) \in Nat
            /\ Base <= Kept(F, a) /\ h0.word[a] \in Nat
            /\ Kept(F, a) + Header + h0.word[a] <= o
            /\ \A k \in 1 .. h0.word[a] :
                  /\ Kept(F, a) + Header + k - 1 \in Addr
                  /\ Kept(F, a) + Header + k - 1 \in Nat
                  /\ Kept(F, a) + Header + k - 1 < o
  BY <1>1, <1>2, KeptWithin DEF S
<1>4. /\ b \in Nat /\ n \in Nat /\ o \in Nat /\ b <= o /\ o + Header <= n /\ Base <= b
      /\ n <= HeapEnd /\ HeapEnd \in Nat /\ w \in Nat /\ n <= w /\ h \in Heap /\ Base \in Nat
      /\ w = h0.watermark /\ h0 \in Heap
      /\ \A a \in DOMAIN F : a \in Nat /\ n <= a /\ a < w
      /\ \A x \in Addr : h.tag[x].fwd => x \in DOMAIN F
      /\ h0.tag[GC_NULL] = h.tag[GC_NULL]
  <2>1. /\ h \in Heap /\ w = h0.watermark /\ \A x \in Addr : h.tag[x].fwd => x \in DOMAIN F
    BY <1>1 DEF Promoted
  <2>2. /\ b \in Nat /\ n \in Nat /\ Base <= b /\ n <= h0.watermark /\ h0.watermark <= HeapEnd
        /\ HeapEnd \in Nat /\ h0.watermark \in Nat /\ Base \in Nat /\ h0 \in Heap
    BY <1>1, FilledMeans
  <2>3. o \in Nat /\ b <= o /\ o + 2 * Header <= n
    BY <1>1, CopiesWithin
  <2>4. o + Header <= n /\ n <= HeapEnd
    BY <2>2, <2>3
  <2>5. \A a \in DOMAIN F : a \in Nat /\ n <= a /\ a < w
    BY <1>1, <2>1, FilledMeans
  <2>6. h0.tag[GC_NULL] = h.tag[GC_NULL]
    <3>1. GC_NULL \in Addr /\ GC_NULL < b
      BY <2>2, Numbers DEF Addr
    <3> QED
      BY <3>1, <1>1 DEF Promoted
  <2> QED
    BY <2>1, <2>2, <2>3, <2>4, <2>5, <2>6
<1> HIDE DEF w, A
<1>5. /\ h1 \in Heap /\ h1.watermark = n /\ h1.word = h.word /\ h1.tag = h.tag
  <2>1. n \in 0 .. HeapEnd
    BY <1>4
  <2> QED
    BY <2>1, <1>4, SetWatermarkType
<1> HIDE DEF h1
<1>6. /\ g \in Heap /\ g.watermark = n
      /\ \A x \in Addr : n <= x /\ x < w => g.tag[x] = NoTag
      /\ Untouched(h1, g, n, w)
  <2>1. g = Vacate(h1, n, w)
    BY DEF h1, w
  <2>2. h1 \in Heap /\ n \in Nat /\ w \in Nat /\ g = Vacate(h1, n, w)
    BY <2>1, <1>4, <1>5
  <2>3. /\ g \in Heap /\ g.watermark = h1.watermark
        /\ \A x \in Addr : n <= x /\ x < w => g.word[x] = Stale /\ g.tag[x] = NoTag
        /\ Untouched(h1, g, n, w)
    BY ONLY <2>2, VacateEffect
  <2> QED
    BY <2>3, <1>5
<1>7. \A x \in Addr : x < n => g.word[x] = h.word[x] /\ g.tag[x] = h.tag[x]
  BY <1>5, <1>6 DEF Untouched
<1>8. Headers(g, Base, o) = A /\ Tiled(g, Base, o)
  <2>1. \A x \in Addr : Base <= x /\ x < o =>
           /\ g.tag[x].head <=> h.tag[x].head
           /\ h.tag[x].head => g.word[x] = h.word[x]
    <3>1. \A x \in Addr : x < o => x < n
      BY <1>4, Numbers
    <3> QED
      BY <3>1, <1>7
  <2>2. o \in Nat /\ Base \in Nat /\ Tiled(h, Base, o)
    BY <1>3, <1>4
  <2>3. Headers(g, Base, o) = Headers(h, Base, o) /\ Tiled(g, Base, o)
    BY ONLY <2>1, <2>2, TiledSame, Zenon
  <2> QED
    BY <2>3, <1>3
<1>9. Headers(g, n, g.watermark) = {} /\ Tiled(g, n, g.watermark)
  BY <1>4, <1>6, TiledEmpty
<1>10. Generations(g, o, n) = A
  BY <1>8, <1>9 DEF Generations
<1>11. ASSUME NEW a \in S
       PROVE  /\ g.word[Kept(F, a)] = h0.word[a] /\ g.tag[Kept(F, a)] = h0.tag[a]
              /\ \A k \in 1 .. h0.word[a] :
                    LET x == h0.word[a + Header + k - 1]
                        y == g.word[Kept(F, a) + Header + k - 1]
                    IN  IF h0.tag[a].ref THEN x \in S \cup {GC_NULL} /\ y = Kept(F, x) ELSE y = x
  <2>1. Kept(F, a) < n
    BY <1>3, <1>4, SMTT(30)
  <2>2. g.word[Kept(F, a)] = h.word[Kept(F, a)] /\ g.tag[Kept(F, a)] = h.tag[Kept(F, a)]
    BY <2>1, <1>3, <1>7
  <2>3. ASSUME NEW k \in 1 .. h0.word[a]
        PROVE  g.word[Kept(F, a) + Header + k - 1] = h.word[Kept(F, a) + Header + k - 1]
    <3> DEFINE z == Kept(F, a) + Header + k - 1
    <3>1. z \in Addr /\ z \in Nat /\ z < o
      BY <1>3
    <3> HIDE DEF z
    <3>2. z < n
      BY <3>1, <1>4
    <3>3. g.word[z] = h.word[z]
      BY <3>1, <3>2, <1>7
    <3> QED
      BY <3>3 DEF z
  <2> QED
    BY <2>2, <2>3, <1>2 DEF AllKept
<1>12. /\ Kept(F, GC_NULL) = GC_NULL
       /\ \A x \in S \cup {GC_NULL} : Kept(F, x) \in A \cup {GC_NULL}
  <2>1. GC_NULL \notin DOMAIN F
    BY <1>4
  <2> QED
    BY <2>1 DEF Kept, A
<1>13. \A a \in Generations(h0, b, n) : ~h0.tag[a].free /\ ~h0.tag[a].marked
  BY <1>1 DEF Filled, Rest
<1>14. \A a \in A : ~g.tag[a].free /\ ~g.tag[a].marked
  BY <1>3, <1>11, <1>13 DEF A
<1>15. NoForwards(g)
  <2> SUFFICES ASSUME NEW x \in Addr, g.tag[x].fwd PROVE FALSE
    BY DEF NoForwards
  <2>1. x \in Nat
    BY Numbers
  <2>2. ~(n <= x /\ x < w)
    BY <1>6 DEF NoTag
  <2>3. g.tag[x] = h1.tag[x]
    BY <2>1, <2>2, <1>4, <1>6, SMTT(30) DEF Untouched
  <2>4. x \in DOMAIN F
    BY <2>3, <1>4, <1>5
  <2> QED
    BY <2>2, <2>4, <1>4
<1>16. ~g.tag[GC_NULL].ref
  <2>1. GC_NULL \in Addr /\ GC_NULL < n
    BY <1>4, Numbers DEF Addr
  <2>2. ~h0.tag[GC_NULL].ref
    BY <1>1 DEF Filled, Rest
  <2> QED
    BY <2>1, <2>2, <1>4, <1>7
<1>17. rs \in [RootSlots -> A \cup {GC_NULL}]
  <2>1. rs \in [RootSlots -> Addr]
    BY <1>1 DEF RootsTo
  <2>2. \A i \in RootSlots : rs[i] \in A \cup {GC_NULL}
    BY <1>2, <1>12
  <2> QED
    BY <2>1, <2>2
<1>18. ASSUME NEW a \in A, NEW x \in RefSlots(g, a)
       PROVE  g.word[x] \in A \cup {GC_NULL}
  <2>1. PICK d \in S : a = Kept(F, d)
    BY DEF A
  <2> DEFINE k == x - a - 1
  <2>2. a \in Nat /\ h0.word[d] \in Nat /\ g.word[a] = h0.word[d] /\ g.tag[a] = h0.tag[d]
    BY <2>1, <1>3, <1>11
  <2>3. h0.tag[d].ref /\ x \in (a + Header) .. (a + Header + h0.word[d] - 1)
    BY <1>18, <2>2 DEF RefSlots
  <2>4. k \in 1 .. h0.word[d] /\ a + Header + k - 1 = x
    BY <2>2, <2>3
  <2> HIDE DEF k
  <2>5. /\ h0.word[d + Header + k - 1] \in S \cup {GC_NULL}
        /\ g.word[x] = Kept(F, h0.word[d + Header + k - 1])
    BY <2>1, <2>3, <2>4, <1>11
  <2> QED
    BY <2>5, <1>12
<1>19. /\ A \subseteq Addr
       /\ \A a \in A : a + ObjectWords(g, a) <= HeapEnd
       /\ \A a, d \in A : a < d => a + ObjectWords(g, a) <= d
  <2>1. \A a \in A : a \in Addr /\ a \in Nat /\ a + ObjectWords(g, a) <= o /\ ObjectWords(g, a) \in Nat
    BY <1>4, <1>6, <1>8, TiledWithin
  <2>2. ASSUME NEW a \in A PROVE a + ObjectWords(g, a) <= HeapEnd
    BY <2>1, <1>4
  <2>3. \A a, d \in A : a < d => a + ObjectWords(g, a) <= d
    BY <1>8 DEF Tiled
  <2> QED
    BY <2>1, <2>2, <2>3
<1>20. Sound(g, rs, A)
  BY <1>6, <1>17, <1>18, <1>19 DEF Sound
<1>21. Rest(g, rs, o, n)
  <2>1. Base <= o /\ n <= g.watermark
    BY <1>4, <1>6
  <2> QED
    BY <2>1, <1>4, <1>8, <1>9, <1>10, <1>14, <1>15, <1>16, <1>20 DEF Rest
<1>22. Remembers(g, o, n, <<>>)
  <2>1. ASSUME NEW a \in A, NEW x \in RefSlots(g, a)
        PROVE  ~(g.word[x] >= n)
    <3>1. g.word[x] \in A \cup {GC_NULL}
      BY <1>18
    <3>2. \A d \in A : d \in Nat /\ d < o
      BY <1>8, HeadersWithin
    <3> QED
      BY <3>1, <3>2, <1>4
  <2>2. DOMAIN <<>> = {}
    OBVIOUS
  <2> QED
    BY <2>1, <2>2, <1>8 DEF Remembers, Entries
<1> DEFINE L == Live(h0, rs0)
           G == [a \in L |-> Kept(F, a)]
<1>23. /\ rs0 \in [RootSlots -> Addr] /\ Readable(h0, L) /\ Distinct(h0, L)
       /\ L \subseteq Addr \ {GC_NULL} /\ \A i \in RootSlots : rs0[i] \in L \cup {GC_NULL}
  <2>1. rs0 \in [RootSlots -> Addr] /\ Readable(h0, L)
    BY <1>1, SoundLive DEF Filled, Rest
  <2> QED
    BY <2>1, LiveHolds
<1>24. L \subseteq S
  <2>1. ASSUME NEW a \in S, NEW x \in RefSlots(h0, a)
        PROVE  h0.word[x] \in S \cup {GC_NULL}
    <3> DEFINE k == x - a - 1
    <3>1. h0.tag[a].ref /\ x \in (a + Header) .. (a + Header + h0.word[a] - 1)
      BY <2>1 DEF RefSlots
    <3>2. k \in 1 .. h0.word[a] /\ a + Header + k - 1 = x
      <4>1. a \in Nat /\ h0.word[a] \in Nat
        BY <1>3
      <4> QED
        BY ONLY <3>1, <4>1
    <3> HIDE DEF k
    <3>3. h0.word[a + Header + k - 1] \in S \cup {GC_NULL}
      <4>1. \A j \in 1 .. h0.word[a] : h0.tag[a].ref => h0.word[a + Header + j - 1] \in S \cup {GC_NULL}
        BY <1>11, <2>1
      <4> QED
        BY <4>1, <3>1, <3>2
    <3> QED
      BY <3>2, <3>3
  <2>2. S \subseteq Addr
    BY <1>3
  <2> QED
    BY <2>1, <2>2, <1>2, LiveWithin
<1> HIDE DEF L
<1>25. \A x \in L \cup {GC_NULL} : Carried(G, x) = Kept(F, x)
  BY <1>12, <1>23 DEF Carried
<1>26. ASSUME NEW a \in L
       PROVE  /\ G[a] \in Addr \ {GC_NULL} /\ G[a] + Header + h0.word[a] <= HeapEnd
              /\ SameArray(h0, g, G, a)
  <2>1. a \in S /\ G[a] = Kept(F, a)
    BY <1>24
  <2>2. /\ Kept(F, a) \in Addr /\ Kept(F, a) # GC_NULL
        /\ Kept(F, a) + Header + h0.word[a] <= HeapEnd
    <3>1. /\ Kept(F, a) \in Addr /\ Kept(F, a) \in Nat /\ Base <= Kept(F, a)
          /\ h0.word[a] \in Nat /\ Kept(F, a) + Header + h0.word[a] <= o
      BY <2>1, <1>3
    <3>2. Kept(F, a) # GC_NULL
      BY <3>1
    <3>3. Kept(F, a) + Header + h0.word[a] <= HeapEnd
      <4>1. o \in Nat /\ o + 2 <= n /\ n <= HeapEnd /\ HeapEnd \in Nat /\ n \in Nat
        BY <1>4
      <4> QED
        BY ONLY <3>1, <4>1
    <3> QED
      BY <3>1, <3>2, <3>3
  <2>3. ASSUME NEW k \in 1 .. h0.word[a], h0.tag[a].ref
        PROVE  h0.word[a + Header + k - 1] \in L \cup {GC_NULL}
    BY <2>3, <1>23, SlotsReached DEF L
  <2>4. SameArray(h0, g, G, a)
    <3> HIDE DEF G
    <3> QED
      BY <2>1, <2>3, <1>11, <1>25 DEF SameArray
  <2> QED
    BY <2>1, <2>2, <2>4
<1>27. rs = [i \in RootSlots |-> Carried(G, rs0[i])]
  <2>1. \A i \in RootSlots : rs[i] = Carried(G, rs0[i])
    <3> HIDE DEF G
    <3> QED
      BY <1>2, <1>23, <1>25
  <2>2. rs \in [RootSlots -> Addr]
    BY <1>1 DEF RootsTo
  <2> HIDE DEF G
  <2> QED
    BY <2>1, <2>2
<1> HIDE DEF G
<1>28. ViewOf(g, rs) = ViewOf(h0, rs0) /\ Distinct(g, Live(g, rs))
  <2>1. Carries(h0, g, G, L)
    BY <1>26 DEF Carries
  <2> QED
    BY <2>1, <1>23, <1>27, CarriedView DEF L
<1> QED
  BY <1>6, <1>21, <1>22, <1>28

-----------------------------------------------------------------------------
(* Between collections.                                                     *)

\* The arrays of both generations lie below the gap or above it.
LEMMA RestMeans ==
    ASSUME NEW h, NEW rs, NEW o, NEW n, Rest(h, rs, o, n)
    PROVE  /\ h \in Heap /\ o \in Nat /\ n \in Nat /\ h.watermark \in Nat
           /\ 2 <= o /\ o + 2 <= n /\ n <= h.watermark /\ h.watermark <= HeapEnd
           /\ o \in Addr /\ HeapEnd \in Nat
           /\ \A a \in Headers(h, Base, o) :
                 /\ a \in Addr /\ a \in Nat /\ 2 <= a /\ a < o
                 /\ a + ObjectWords(h, a) <= o /\ ObjectWords(h, a) = 2 + h.word[a]
                 /\ h.word[a] \in Nat
           /\ \A a \in Headers(h, n, h.watermark) :
                 /\ a \in Addr /\ a \in Nat /\ n <= a /\ a < h.watermark
                 /\ a + ObjectWords(h, a) <= h.watermark /\ ObjectWords(h, a) = 2 + h.word[a]
                 /\ h.word[a] \in Nat
<1>1. /\ h \in Heap /\ o \in Nat /\ n \in Nat /\ 2 <= o /\ o + 2 <= n /\ n <= h.watermark
      /\ Tiled(h, Base, o) /\ Tiled(h, n, h.watermark)
  BY DEF Rest, Sound
<1>2. h.watermark \in Nat /\ h.watermark <= HeapEnd /\ HeapEnd \in Nat
  BY <1>1, Numbers DEF Heap
<1>3. o \in Addr
  <2>1. 0 <= o /\ o <= HeapEnd - 1
    BY <1>1, <1>2
  <2> QED
    BY <1>1, <1>2, <2>1 DEF Addr
<1>4. ASSUME NEW a \in Headers(h, Base, o)
      PROVE  /\ a \in Addr /\ a \in Nat /\ 2 <= a /\ a < o
             /\ a + ObjectWords(h, a) <= o /\ ObjectWords(h, a) = 2 + h.word[a]
             /\ h.word[a] \in Nat
  <2>1. /\ a \in Addr /\ a \in Nat /\ Base <= a /\ a < o /\ a + ObjectWords(h, a) <= o
    BY <1>1, TiledWithin
  <2> QED
    BY <1>1, <2>1, WordTypes
<1>5. ASSUME NEW a \in Headers(h, n, h.watermark)
      PROVE  /\ a \in Addr /\ a \in Nat /\ n <= a /\ a < h.watermark
             /\ a + ObjectWords(h, a) <= h.watermark /\ ObjectWords(h, a) = 2 + h.word[a]
             /\ h.word[a] \in Nat
  <2>1. /\ a \in Addr /\ a \in Nat /\ n <= a /\ a < h.watermark
        /\ a + ObjectWords(h, a) <= h.watermark
    BY <1>1, <1>2, TiledWithin
  <2> QED
    BY <1>1, <2>1, WordTypes
<1> QED
  BY <1>1, <1>2, <1>3, <1>4, <1>5

\* Each array of either generation lies apart from the gap.
LEMMA RestApart ==
    ASSUME NEW h, NEW rs, NEW o, NEW n, Rest(h, rs, o, n), NEW a \in Generations(h, o, n)
    PROVE  /\ a \in Addr /\ a \in Nat /\ 2 <= a /\ h.word[a] \in Nat
           /\ ObjectWords(h, a) = 2 + h.word[a] /\ a + ObjectWords(h, a) <= h.watermark
           /\ a + ObjectWords(h, a) <= o \/ n <= a
<1> USE RestMeans
<1>1. /\ o \in Nat /\ n \in Nat /\ h.watermark \in Nat /\ 2 <= o /\ o + 2 <= n /\ n <= h.watermark
  BY ONLY RestMeans, Rest(h, rs, o, n)
<1>2. CASE a \in Headers(h, Base, o)
  <2>1. /\ a \in Addr /\ a \in Nat /\ 2 <= a /\ a < o
        /\ a + ObjectWords(h, a) <= o /\ ObjectWords(h, a) = 2 + h.word[a]
        /\ h.word[a] \in Nat
    BY <1>2, RestMeans
  <2> QED
    BY ONLY <1>1, <2>1
<1>3. CASE a \in Headers(h, n, h.watermark)
  <2>1. /\ a \in Addr /\ a \in Nat /\ n <= a /\ a < h.watermark
        /\ a + ObjectWords(h, a) <= h.watermark /\ ObjectWords(h, a) = 2 + h.word[a]
        /\ h.word[a] \in Nat
    BY <1>3, RestMeans
  <2> QED
    BY ONLY <1>1, <2>1
<1> QED
  BY <1>2, <1>3 DEF Generations

\* What lies in the gap is of no account.
LEMMA RestAside ==
    ASSUME NEW h, NEW rs, NEW o, NEW n, Rest(h, rs, o, n),
           NEW g, g \in Heap, g.watermark = h.watermark, Untouched(h, g, o, n),
           \A x \in Addr : o <= x /\ x < n => ~g.tag[x].fwd
    PROVE  /\ Rest(g, rs, o, n)
           /\ Headers(g, Base, o) = Headers(h, Base, o)
           /\ Headers(g, n, g.watermark) = Headers(h, n, h.watermark)
           /\ \A a \in Generations(h, o, n) :
                 /\ g.word[a] = h.word[a] /\ g.tag[a] = h.tag[a]
                 /\ \A s \in RefSlots(h, a) : g.word[s] = h.word[s]
           /\ \A a \in Generations(h, o, n) : RefSlots(g, a) = RefSlots(h, a) /\ Unmoved(h, g, a)
<1> DEFINE A == Generations(h, o, n)
           w == h.watermark
<1>1. /\ h \in Heap /\ o \in Nat /\ n \in Nat /\ w \in Nat
      /\ 2 <= o /\ o + 2 <= n /\ n <= w /\ w <= HeapEnd
  BY RestMeans
<1>2. /\ Tiled(h, Base, o) /\ Tiled(h, n, w) /\ \A a \in A : ~h.tag[a].free /\ ~h.tag[a].marked
      /\ Sound(h, rs, A) /\ NoForwards(h) /\ ~h.tag[GC_NULL].ref
  BY DEF Rest
<1>3. /\ Headers(g, Base, o) = Headers(h, Base, o) /\ Tiled(g, Base, o)
      /\ Headers(g, n, w) = Headers(h, n, w) /\ Tiled(g, n, w)
  <2>1. Base \in Nat /\ o <= o /\ n >= n
    BY <1>1
  <2> HIDE DEF w
  <2>2. Headers(g, Base, o) = Headers(h, Base, o) /\ Tiled(g, Base, o)
    BY <1>1, <1>2, <2>1, TiledAside
  <2>3. Headers(g, n, w) = Headers(h, n, w) /\ Tiled(g, n, w)
    <3>1. \A x \in Addr : n <= x /\ x < w =>
             /\ g.tag[x].head <=> h.tag[x].head
             /\ h.tag[x].head => g.word[x] = h.word[x]
      BY DEF Untouched
    <3>2. /\ Headers(g, n, w) = Headers(h, n, w)
          /\ Tiled(h, n, w) => Tiled(g, n, w)
      BY ONLY <1>1, <3>1, TiledSame, Zenon
    <3> QED
      BY <1>2, <3>2
  <2> QED
    BY <2>2, <2>3
<1>4. Generations(g, o, n) = A
  BY <1>3 DEF Generations
<1>5. ASSUME NEW a \in A
      PROVE  /\ a \in Addr /\ a \in Nat /\ h.word[a] \in Nat
             /\ g.word[a] = h.word[a] /\ g.tag[a] = h.tag[a]
             /\ a + Header + h.word[a] <= HeapEnd
             /\ ObjectWords(g, a) = ObjectWords(h, a)
             /\ \A x \in Addr : x >= a /\ x < a + Header + h.word[a] => g.word[x] = h.word[x]
  <2>1. /\ a \in Addr /\ a \in Nat /\ h.word[a] \in Nat
        /\ ObjectWords(h, a) = 2 + h.word[a] /\ a + ObjectWords(h, a) <= w
        /\ a + ObjectWords(h, a) <= o \/ n <= a
    BY RestApart
  <2>2. ASSUME NEW x \in Addr, x >= a, x < a + Header + h.word[a]
        PROVE  g.word[x] = h.word[x] /\ g.tag[x] = h.tag[x]
    <3>1. x \in Nat
      BY Numbers
    <3>2. x < o \/ x >= n
      BY ONLY <1>1, <2>1, <2>2, <3>1
    <3> QED
      BY <3>2 DEF Untouched
  <2>3. a >= a /\ a < a + Header + h.word[a] /\ a + Header + h.word[a] <= HeapEnd
    BY ONLY <1>1, <2>1, Numbers
  <2> QED
    BY <2>1, <2>2, <2>3 DEF ObjectWords
<1>6. ASSUME NEW a \in A
      PROVE  /\ RefSlots(g, a) = RefSlots(h, a) /\ Unmoved(h, g, a)
             /\ \A s \in RefSlots(h, a) : g.word[s] = h.word[s]
  <2>1. RefSlots(g, a) = RefSlots(h, a)
    BY <1>5 DEF RefSlots
  <2>2. Unmoved(h, g, a)
    <3>1. g.tag[a].ref = h.tag[a].ref /\ g.tag[a].id = h.tag[a].id
      BY <1>5
    <3> QED
      BY <1>5, <3>1, UntouchedUnmoved
  <2>3. ASSUME NEW s \in RefSlots(h, a) PROVE g.word[s] = h.word[s]
    <3>1. s \in Addr /\ s \in Nat /\ s >= a + Header /\ s < a + ObjectWords(h, a)
      BY <1>2, SoundSlots
    <3>2. s >= a /\ s < a + Header + h.word[a]
      BY ONLY <1>5, <3>1 DEF ObjectWords
    <3> QED
      BY <1>5, <3>1, <3>2
  <2> QED
    BY <2>1, <2>2, <2>3
<1> HIDE DEF A
<1>7. Sound(g, rs, A)
  <2>1. /\ A \subseteq Addr /\ \A a \in A : a + ObjectWords(h, a) <= HeapEnd
        /\ \A a, b \in A : a < b => a + ObjectWords(h, a) <= b
        /\ rs \in [RootSlots -> A \cup {GC_NULL}]
        /\ \A a \in A : \A s \in RefSlots(h, a) : h.word[s] \in A \cup {GC_NULL}
    BY <1>2 DEF Sound
  <2> QED
    BY <1>5, <1>6, <2>1 DEF Sound
<1>8. NoForwards(g)
  <2>1. ASSUME NEW x \in Addr PROVE ~g.tag[x].fwd
    <3>1. x \in Nat
      BY Numbers
    <3>2. CASE o <= x /\ x < n
      BY <3>2
    <3>3. CASE ~(o <= x /\ x < n)
      <4>1. x < o \/ x >= n
        BY <1>1, <3>1, <3>3
      <4> QED
        BY <1>2, <4>1 DEF Untouched, NoForwards
    <3> QED
      BY <3>2, <3>3
  <2> QED
    BY <2>1 DEF NoForwards
<1>9. ~g.tag[GC_NULL].ref
  <2>1. GC_NULL \in Addr /\ GC_NULL < o
    BY <1>1, Numbers DEF Addr
  <2> QED
    BY <1>2, <2>1 DEF Untouched
<1>10. Rest(g, rs, o, n)
  BY <1>1, <1>2, <1>3, <1>4, <1>5, <1>7, <1>8, <1>9 DEF Rest
<1> QED
  BY <1>3, <1>5, <1>6, <1>10 DEF A

\* Filling the gap leaves both generations alone.
LEMMA GapFills ==
    ASSUME NEW h, NEW rs, NEW o, NEW n, Rest(h, rs, o, n), NEW g, g = MakeFreeBlock(h, o, n)
    PROVE  /\ g \in Heap /\ g.watermark = h.watermark /\ Untouched(h, g, o, n)
           /\ g.tag[o] = FreeTag /\ g.word[o] = n - o - Header
           /\ \A x \in Addr : o < x /\ x < n => ~g.tag[x].head
           /\ \A x \in Addr : o <= x /\ x < n => ~g.tag[x].fwd
<1>1. /\ h \in Heap /\ o \in Nat /\ n \in Nat /\ h.watermark \in Nat
      /\ 2 <= o /\ o + Header <= n /\ n <= HeapEnd /\ o \in Addr
  <2>1. /\ h \in Heap /\ o \in Nat /\ n \in Nat /\ h.watermark \in Nat /\ HeapEnd \in Nat
        /\ 2 <= o /\ o + 2 <= n /\ n <= h.watermark /\ h.watermark <= HeapEnd /\ o \in Addr
    BY RestMeans
  <2> QED
    BY ONLY <2>1
<1>2. /\ g \in Heap /\ g.watermark = h.watermark
      /\ g.word[o] = n - o - Header /\ g.tag[o] = FreeTag
      /\ Cleared(g, o, n) /\ Untouched(h, g, o, n)
  BY <1>1, MakeFreeBlockEffect
<1>3. \A x \in Addr : o < x /\ x < n => g.tag[x] = NoTag
  BY <1>2 DEF Cleared
<1>4. ASSUME NEW x \in Addr, o <= x, x < n PROVE ~g.tag[x].fwd
  <2>1. x = o \/ o < x
    BY <1>1, <1>4, Numbers
  <2> QED
    BY <1>2, <1>3, <1>4, <2>1 DEF FreeTag, NoTag
<1> QED
  BY <1>2, <1>3, <1>4 DEF NoTag

\* With the gap filled the whole heap is walkable, and its arrays are those of the
\* two generations.
LEMMA FilledWalks ==
    ASSUME NEW h, NEW rs, NEW o, NEW n, Rest(h, rs, o, n),
           h.tag[o] = FreeTag, h.word[o] = n - o - Header,
           \A x \in Addr : o < x /\ x < n => ~h.tag[x].head
    PROVE  /\ WellFormed(h, rs, Base, h.watermark) /\ NoMarks(h)
           /\ Allocated(h, Base, h.watermark) = Generations(h, o, n)
<1> DEFINE A == Generations(h, o, n)
           w == h.watermark
<1>1. /\ h \in Heap /\ o \in Nat /\ n \in Nat /\ w \in Nat
      /\ 2 <= o /\ o + 2 <= n /\ n <= w /\ w <= HeapEnd /\ o \in Addr
  BY RestMeans
<1>2. /\ Tiled(h, Base, o) /\ Tiled(h, n, w) /\ \A a \in A : ~h.tag[a].free /\ ~h.tag[a].marked
      /\ Sound(h, rs, A)
  BY DEF Rest
<1>3. Headers(h, o, n) = {o} /\ Tiled(h, o, n)
  <2>1. h.tag[o].head
    BY DEF FreeTag
  <2>2. o + ObjectWords(h, o) = n
    BY <1>1 DEF ObjectWords
  <2> QED
    BY <1>1, <2>1, <2>2, TiledOne
<1>4. Base <= o /\ o <= n /\ n <= w /\ Base <= n /\ Base <= w /\ o <= w /\ Base \in Nat
  BY ONLY <1>1
<1>5. Tiled(h, Base, n) /\ Headers(h, Base, n) = Headers(h, Base, o) \cup {o}
  <2>1. Tiled(h, Base, n)
    BY <1>1, <1>2, <1>3, <1>4, TiledJoin
  <2>2. Headers(h, Base, n) = Headers(h, Base, o) \cup Headers(h, o, n)
    BY <1>1, <1>4, HeadersJoin
  <2> QED
    BY <1>3, <2>1, <2>2
<1>6. Tiled(h, Base, w) /\ Headers(h, Base, w) = A \cup {o}
  <2>1. Tiled(h, Base, w)
    BY <1>1, <1>2, <1>4, <1>5, TiledJoin
  <2>2. Headers(h, Base, w) = Headers(h, Base, n) \cup Headers(h, n, w)
    BY <1>1, <1>4, HeadersJoin
  <2> QED
    BY <1>5, <2>1, <2>2 DEF Generations
<1>7. h.tag[o].free /\ ~h.tag[o].marked
  BY DEF FreeTag
<1> HIDE DEF A
<1>8. Allocated(h, Base, w) = A
  BY <1>2, <1>6, <1>7 DEF Allocated
<1>9. NoMarks(h)
  BY <1>2, <1>6, <1>7 DEF NoMarks
<1>10. WellFormed(h, rs, Base, w)
  <2>1. /\ rs \in [RootSlots -> A \cup {GC_NULL}]
        /\ \A a \in A : \A s \in RefSlots(h, a) : h.word[s] \in A \cup {GC_NULL}
    BY <1>2 DEF Sound
  <2> QED
    BY <1>1, <1>4, <1>6, <1>8, <2>1 DEF WellFormed
<1> QED
  BY <1>8, <1>9, <1>10 DEF A

\* The remembered set stays exact when no slot of an old array changes.
LEMMA RememberedStays ==
    ASSUME NEW h, NEW g, NEW o, NEW n, NEW q, Remembers(h, o, n, q),
           Headers(g, Base, o) = Headers(h, Base, o),
           \A b \in Headers(h, Base, o) :
              /\ RefSlots(g, b) = RefSlots(h, b)
              /\ \A s \in RefSlots(h, b) : g.word[s] = h.word[s]
    PROVE  Remembers(g, o, n, q)
  BY DEF Remembers, Entries

\* The nursery grows by the array that is allocated, and nothing else changes.
LEMMA RestBump ==
    ASSUME NEW h, NEW rs, NEW o, NEW n, Rest(h, rs, o, n),
           NEW length \in Nat, NEW ref \in BOOLEAN, NEW id \in Ids \cup {NoId},
           NEW a, a = RawAlloc(h, length, ref, id), a.ref # SENTINEL
    PROVE  /\ Rest(a.heap, rs, o, n)
           /\ a.ref \in Generations(a.heap, o, n)
           /\ Headers(a.heap, Base, o) = Headers(h, Base, o)
           /\ \A b \in Headers(h, Base, o) :
                 /\ RefSlots(a.heap, b) = RefSlots(h, b)
                 /\ \A s \in RefSlots(h, b) : a.heap.word[s] = h.word[s]
<1> DEFINE A == Generations(h, o, n)
           w == h.watermark
           g == a.heap
           p == a.ref
           v == g.watermark
<1>1. /\ h \in Heap /\ o \in Nat /\ n \in Nat /\ w \in Nat
      /\ 2 <= o /\ o + 2 <= n /\ n <= w /\ w <= HeapEnd /\ HeapEnd \in Nat
  BY RestMeans
<1>2. /\ Tiled(h, Base, o) /\ Tiled(h, n, w) /\ \A b \in A : ~h.tag[b].free /\ ~h.tag[b].marked
      /\ Sound(h, rs, A) /\ NoForwards(h) /\ ~h.tag[GC_NULL].ref
  BY DEF Rest
<1>3. /\ p = w /\ p \in Addr /\ length \in Word
      /\ g \in Heap /\ v = p + Header + length /\ v <= HeapEnd
      /\ g.word[p] = length /\ g.tag[p] = ArrayTag(ref, id)
      /\ \A x \in Addr : x > p /\ x < v => g.word[x] = 0 /\ g.tag[x] = NoTag
      /\ \A x \in Addr : x < p \/ x >= v => g.word[x] = h.word[x] /\ g.tag[x] = h.tag[x]
  <2>1. w \in Base .. HeapEnd
    BY <1>1
  <2> QED
    BY <1>1, <2>1, BumpEffect
<1> HIDE DEF g, p, v, w
<1>4. p \in Nat /\ v \in Nat /\ n <= p /\ p + 2 <= v /\ o <= p /\ p < v
  BY ONLY <1>1, <1>3
<1>5. /\ Headers(g, Base, o) = Headers(h, Base, o) /\ Tiled(g, Base, o)
      /\ Headers(g, n, p) = Headers(h, n, p) /\ Tiled(g, n, p)
  <2>1. \A x \in Addr : Base <= x /\ x < o =>
           /\ g.tag[x].head <=> h.tag[x].head
           /\ h.tag[x].head => g.word[x] = h.word[x]
    <3>1. ASSUME NEW x \in Addr, x < o PROVE x < p
      BY <1>1, <1>4, <3>1, Numbers
    <3> QED
      BY <1>3, <3>1
  <2>2. \A x \in Addr : n <= x /\ x < p =>
           /\ g.tag[x].head <=> h.tag[x].head
           /\ h.tag[x].head => g.word[x] = h.word[x]
    BY <1>3
  <2>3. Base \in Nat
    OBVIOUS
  <2>4. Headers(g, Base, o) = Headers(h, Base, o) /\ (Tiled(h, Base, o) => Tiled(g, Base, o))
    BY ONLY <1>1, <2>1, <2>3, TiledSame, Zenon
  <2>5. Headers(g, n, p) = Headers(h, n, p) /\ (Tiled(h, n, p) => Tiled(g, n, p))
    BY ONLY <1>1, <1>4, <2>2, TiledSame, Zenon
  <2>6. p = w
    BY <1>3
  <2> QED
    BY <1>2, <2>4, <2>5, <2>6
<1>6. Headers(g, n, v) = Headers(h, n, w) \cup {p} /\ Tiled(g, n, v)
  <2>1. Headers(g, p, v) = {p} /\ Tiled(g, p, v)
    <3>1. g.tag[p].head
      BY <1>3 DEF ArrayTag
    <3>2. p + ObjectWords(g, p) = v
      BY <1>3, <1>4 DEF ObjectWords
    <3>3. \A x \in Addr : p < x /\ x < v => ~g.tag[x].head
      BY <1>3, <1>4, Numbers DEF NoTag
    <3> QED
      BY <1>3, <1>4, <3>1, <3>2, <3>3, TiledOne
  <2>2. n <= p /\ p <= v
    BY <1>4
  <2>3. Tiled(g, n, v)
    BY <1>1, <1>3, <1>4, <1>5, <2>1, <2>2, TiledJoin
  <2>4. Headers(g, n, v) = Headers(g, n, p) \cup Headers(g, p, v)
    BY <1>1, <1>3, <1>4, <2>2, HeadersJoin
  <2> QED
    BY <1>3, <1>5, <2>1, <2>3, <2>4
<1> DEFINE B == Generations(g, o, n)
<1>7. B = A \cup {p}
  BY <1>5, <1>6 DEF Generations, v, w
<1>8. ASSUME NEW b \in A
      PROVE  /\ b \in Addr /\ b \in Nat /\ 2 <= b /\ h.word[b] \in Nat
             /\ ObjectWords(h, b) = 2 + h.word[b] /\ b + ObjectWords(h, b) <= p
             /\ \A x \in Addr : x < b + ObjectWords(h, b) =>
                   g.word[x] = h.word[x] /\ g.tag[x] = h.tag[x]
             /\ g.word[b] = h.word[b] /\ g.tag[b] = h.tag[b]
             /\ ObjectWords(g, b) = ObjectWords(h, b) /\ RefSlots(g, b) = RefSlots(h, b)
             /\ \A s \in RefSlots(h, b) : g.word[s] = h.word[s]
  <2>1. /\ b \in Addr /\ b \in Nat /\ 2 <= b /\ h.word[b] \in Nat
        /\ ObjectWords(h, b) = 2 + h.word[b] /\ b + ObjectWords(h, b) <= w
    BY RestApart DEF w
  <2>2. b + ObjectWords(h, b) <= p
    BY <1>3, <2>1
  <2>3. ASSUME NEW x \in Addr, x < b + ObjectWords(h, b)
        PROVE  g.word[x] = h.word[x] /\ g.tag[x] = h.tag[x]
    <3>1. x \in Nat
      BY Numbers
    <3>2. x < p
      BY ONLY <1>4, <2>1, <2>2, <2>3, <3>1
    <3> QED
      BY <1>3, <3>2
  <2>4. b < b + ObjectWords(h, b)
    BY ONLY <2>1
  <2>5. g.word[b] = h.word[b] /\ g.tag[b] = h.tag[b]
    BY <2>1, <2>3, <2>4
  <2>6. \A s \in RefSlots(h, b) : g.word[s] = h.word[s]
    <3>1. ASSUME NEW s \in RefSlots(h, b) PROVE s \in Addr /\ s < b + ObjectWords(h, b)
      BY <1>2, SoundSlots
    <3> QED
      BY <2>3, <3>1
  <2> QED
    BY <2>1, <2>2, <2>3, <2>5, <2>6 DEF ObjectWords, RefSlots
<1>9. RefSlots(g, p) \subseteq Addr /\ \A s \in RefSlots(g, p) : g.word[s] = GC_NULL
  <2>1. ASSUME NEW s \in RefSlots(g, p) PROVE s \in Addr /\ g.word[s] = GC_NULL
    <3>1. s \in (p + Header) .. (p + Header + length - 1)
      BY <1>3 DEF RefSlots
    <3>2. s \in Nat /\ s > p /\ s < v /\ s < HeapEnd
      BY ONLY <1>1, <1>3, <1>4, <3>1
    <3>3. s \in Addr
      BY ONLY <1>1, <3>2 DEF Addr
    <3> QED
      BY <1>3, <3>2, <3>3
  <2> QED
    BY <2>1
<1>10. A \subseteq Headers(h, Base, o) \cup Headers(h, n, w) /\ Headers(h, Base, o) \subseteq A
  BY DEF Generations, w
<1> HIDE DEF A, B
<1>11. Sound(g, rs, B)
  <2>0. /\ A \subseteq Addr /\ \A b \in A : b + ObjectWords(h, b) <= HeapEnd
        /\ \A b, c \in A : b < c => b + ObjectWords(h, b) <= c
        /\ rs \in [RootSlots -> A \cup {GC_NULL}]
        /\ \A b \in A : \A s \in RefSlots(h, b) : h.word[s] \in A \cup {GC_NULL}
    BY <1>2 DEF Sound
  <2>1. g \in Heap /\ B \subseteq Addr
    BY <1>3, <1>7, <2>0
  <2>2. p + ObjectWords(g, p) = v
    BY <1>3, <1>4 DEF ObjectWords
  <2>3. \A b \in B : b + ObjectWords(g, b) <= HeapEnd
    BY <1>3, <1>7, <1>8, <2>0, <2>2
  <2>4. ASSUME NEW b \in B, NEW c \in B, b < c PROVE b + ObjectWords(g, b) <= c
    <3>1. CASE b \in A /\ c \in A
      BY <1>8, <2>0, <2>4, <3>1
    <3>2. CASE b \in A /\ c = p
      BY <1>8, <3>2
    <3>3. CASE b = p /\ c \in A
      <4>1. c \in Nat /\ h.word[c] \in Nat /\ c + (2 + h.word[c]) <= p
        BY <1>8, <3>3
      <4> QED
        BY ONLY <1>4, <2>4, <3>3, <4>1
    <3>4. CASE b = p /\ c = p
      BY <1>4, <2>4, <3>4
    <3> QED
      BY <1>7, <3>1, <3>2, <3>3, <3>4
  <2>5. rs \in [RootSlots -> B \cup {GC_NULL}]
    BY <1>7, <2>0
  <2>6. \A b \in B : \A s \in RefSlots(g, b) : g.word[s] \in B \cup {GC_NULL}
    BY <1>7, <1>8, <1>9, <2>0
  <2> QED
    BY <2>1, <2>3, <2>4, <2>5, <2>6 DEF Sound
<1>12. \A b \in B : ~g.tag[b].free /\ ~g.tag[b].marked
  BY <1>2, <1>3, <1>7, <1>8 DEF ArrayTag
<1>13. NoForwards(g)
  <2>1. ASSUME NEW x \in Addr PROVE ~g.tag[x].fwd
    <3>1. x \in Nat
      BY Numbers
    <3>2. x < p \/ x >= v \/ x = p \/ (x > p /\ x < v)
      BY ONLY <1>4, <3>1
    <3> QED
      BY <1>2, <1>3, <3>2 DEF NoForwards, ArrayTag, NoTag
  <2> QED
    BY <2>1 DEF NoForwards
<1>14. ~g.tag[GC_NULL].ref
  <2>1. GC_NULL \in Addr /\ GC_NULL < p
    BY <1>1, <1>4, Numbers DEF Addr
  <2> QED
    BY <1>2, <1>3, <2>1
<1>15. n <= v
  BY ONLY <1>1, <1>4
<1>16. Rest(g, rs, o, n)
  BY <1>1, <1>5, <1>6, <1>11, <1>12, <1>13, <1>14, <1>15 DEF Rest, B, v
<1>17. p \in B
  BY <1>7
<1> QED
  BY <1>5, <1>8, <1>10, <1>16, <1>17 DEF B, g, p

\* An instruction keeps the generations: it writes elements and roots only.
LEMMA RestProgram ==
    ASSUME NEW o, NEW n, Rest(heap, roots, o, n),
           ProgramStep \/ \E r, s \in RootSlots, k \in Elements : AIAStore(r, k, s)
    PROVE  /\ Rest(heap', roots', o, n)
           /\ Headers(heap', Base, o) = Headers(heap, Base, o)
           /\ \A b \in Generations(heap, o, n) : RefSlots(heap', b) = RefSlots(heap, b)
           /\ heap'.watermark = heap.watermark
           /\ pc = "run" /\ UNCHANGED <<pc, req, out, net>>
<1> DEFINE A == Generations(heap, o, n)
           w == heap.watermark
<1>1. /\ heap \in Heap /\ o \in Nat /\ n \in Nat /\ w \in Nat
      /\ 2 <= o /\ o + 2 <= n /\ n <= w /\ w <= HeapEnd
  BY RestMeans
<1>2. /\ Tiled(heap, Base, o) /\ Tiled(heap, n, w)
      /\ \A a \in A : ~heap.tag[a].free /\ ~heap.tag[a].marked
      /\ Sound(heap, roots, A) /\ NoForwards(heap) /\ ~heap.tag[GC_NULL].ref
  BY DEF Rest
<1>3. /\ Sound(heap', roots', A) /\ heap'.watermark = w /\ SameArrays(heap, heap', A)
      /\ pc = "run" /\ UNCHANGED <<pc, req, out, net>>
  BY <1>2, ProgramSound
<1>4. heap'.tag = heap.tag /\ \A a \in A : heap'.word[a] = heap.word[a]
  BY <1>3 DEF SameArrays
<1>5. Headers(heap', Base, o) = Headers(heap, Base, o) /\ Tiled(heap', Base, o)
  <2>1. \A x \in Addr : Base <= x /\ x < o =>
           /\ heap'.tag[x].head <=> heap.tag[x].head
           /\ heap.tag[x].head => heap'.word[x] = heap.word[x]
    BY <1>4 DEF Generations, Headers
  <2>2. Base \in Nat
    OBVIOUS
  <2>3. /\ Headers(heap', Base, o) = Headers(heap, Base, o)
        /\ Tiled(heap, Base, o) => Tiled(heap', Base, o)
    BY ONLY <1>1, <2>1, <2>2, TiledSame, Zenon
  <2> QED
    BY <1>2, <2>3
<1>6. Headers(heap', n, w) = Headers(heap, n, w) /\ Tiled(heap', n, w)
  <2>1. \A x \in Addr : n <= x /\ x < w =>
           /\ heap'.tag[x].head <=> heap.tag[x].head
           /\ heap.tag[x].head => heap'.word[x] = heap.word[x]
    BY <1>4 DEF Generations, Headers
  <2>3. /\ Headers(heap', n, w) = Headers(heap, n, w)
        /\ Tiled(heap, n, w) => Tiled(heap', n, w)
    BY ONLY <1>1, <2>1, TiledSame, Zenon
  <2> QED
    BY <1>2, <2>3
<1>7. Generations(heap', o, n) = A
  BY <1>3, <1>5, <1>6 DEF Generations
<1>8. \A b \in A : RefSlots(heap', b) = RefSlots(heap, b)
  BY <1>4 DEF RefSlots
<1>9. Rest(heap', roots', o, n)
  <2>1. /\ o \in Nat /\ n \in Nat /\ Base <= o /\ o + Header <= n /\ n <= heap'.watermark
    BY <1>1, <1>3
  <2>2. NoForwards(heap') /\ ~heap'.tag[GC_NULL].ref
    BY <1>2, <1>4 DEF NoForwards
  <2>3. \A a \in A : ~heap'.tag[a].free /\ ~heap'.tag[a].marked
    BY <1>2, <1>4
  <2>4. Tiled(heap', n, heap'.watermark)
    BY <1>3, <1>6
  <2> HIDE DEF A, w
  <2>5. /\ Sound(heap', roots', Generations(heap', o, n))
        /\ \A a \in Generations(heap', o, n) : ~heap'.tag[a].free /\ ~heap'.tag[a].marked
    BY <1>3, <1>7, <2>3
  <2> QED
    BY <1>5, <2>1, <2>2, <2>4, <2>5 DEF Rest
<1> QED
  BY <1>3, <1>5, <1>8, <1>9

\* Writing an element changes no slot of another array.
LEMMA ElsewhereSame ==
    ASSUME NEW A, Sound(heap, roots, A), NEW r \in RootSlots, NEW k \in Elements, NEW ref,
           HasElement(r, k, ref), NEW x, WriteElement(r, k, x),
           NEW b \in A, b # roots[r] \/ ref = FALSE
    PROVE  \A s \in RefSlots(heap, b) : heap'.word[s] = heap.word[s]
<1> DEFINE a == roots[r]
           y == SlotAddr(r, k)
<1>1. /\ a \in A /\ k \in Nat /\ k < heap.word[a] /\ heap.tag[a].ref = ref
      /\ y = a + Header + k
  BY ElementSound
<1>2. heap' = [heap EXCEPT !.word[y] = x] /\ heap \in Heap
  BY DEF WriteElement, Sound
<1>3. /\ y \in Addr /\ y \in Nat
      /\ \A c \in A : c # a => y < c \/ y >= c + ObjectWords(heap, c)
  <2>1. y \in Addr /\ \A c \in A : c # a => y < c \/ y >= c + ObjectWords(heap, c)
    BY <1>1, SoundElement
  <2> QED
    BY <2>1, Numbers
<1> HIDE DEF y
<1>4. ASSUME NEW s \in RefSlots(heap, b) PROVE heap'.word[s] = heap.word[s]
  <2>1. /\ s \in Addr /\ s \in Nat /\ b \in Nat /\ s >= b + Header /\ s < b + ObjectWords(heap, b)
        /\ heap.tag[b].ref
    BY SoundSlots
  <2>2. b # a
    BY <1>1, <2>1
  <2>3. y < b \/ y >= b + ObjectWords(heap, b)
    BY <1>3, <2>2
  <2>4. ObjectWords(heap, b) \in Nat
    <3>1. b \in Addr
      BY DEF Sound
    <3> QED
      BY <1>2, <3>1, ChunkSize
  <2>5. s # y
    BY ONLY <1>3, <2>1, <2>3, <2>4
  <2> QED
    BY <1>2, <2>1, <2>5 DEF Heap
<1> QED
  BY <1>4

\* No instruction but AIASTORE changes a slot.
LEMMA ProgramRemembers ==
    ASSUME NEW o, NEW n, NEW q, Rest(heap, roots, o, n), Remembers(heap, o, n, q), ProgramStep
    PROVE  Remembers(heap', o, n, q)
<1> DEFINE A == Generations(heap, o, n)
<1>1. /\ Headers(heap', Base, o) = Headers(heap, Base, o)
      /\ \A b \in A : RefSlots(heap', b) = RefSlots(heap, b)
  BY RestProgram
<1>2. Headers(heap, Base, o) \subseteq A /\ Sound(heap, roots, A)
  BY DEF Generations, Rest
<1> HIDE DEF A
<1>3. ASSUME NEW b \in A PROVE \A s \in RefSlots(heap, b) : heap'.word[s] = heap.word[s]
  <2>1. CASE heap' = heap
    BY <2>1
  <2>2. CASE \E r \in RootSlots, k \in Elements, v \in Ints : IAStore(r, k, v)
    <3>1. PICK r \in RootSlots, k \in Elements, v \in Ints : IAStore(r, k, v)
      BY <2>2
    <3>2. HasElement(r, k, FALSE) /\ WriteElement(r, k, v)
      BY <3>1 DEF IAStore
    <3>3. FALSE = FALSE
      OBVIOUS
    <3> QED
      BY <1>2, <3>2, <3>3, ElsewhereSame
  <2> QED
    BY <2>1, <2>2 DEF ProgramStep, AIALoad, Pop
<1> QED
  BY <1>1, <1>2, <1>3, RememberedStays

\* The write barrier: the slot that AIASTORE writes in an old array is remembered when
\* it comes to hold a young one.
LEMMA StoreRemembers ==
    ASSUME Rest(heap, roots, old_frontier, nursery_start),
           Remembers(heap, old_frontier, nursery_start, remembered),
           remembered \in Seq(Addr \X Nat),
           NEW r \in RootSlots, NEW k \in Elements, NEW s \in RootSlots, StoreRef(r, k, s)
    PROVE  /\ remembered' \in Seq(Addr \X Nat)
           /\ Len(remembered) < MaxRemembered /\ Len(remembered') <= Len(remembered) + 1
           /\ Remembers(heap', old_frontier, nursery_start, remembered')
<1> DEFINE o == old_frontier
           n == nursery_start
           q == remembered
           A == Generations(heap, o, n)
           a == roots[r]
           y == SlotAddr(r, k)
           x == roots[s]
           p == remembered'
<1>1. /\ Len(q) < MaxRemembered /\ AIAStore(r, k, s)
      /\ p = (IF a < n /\ x >= n THEN Append(q, <<a, k>>) ELSE q)
  BY DEF StoreRef, WriteBarrier, IsOldGen, IsInNursery
<1>2. /\ Headers(heap', Base, o) = Headers(heap, Base, o)
      /\ \A b \in A : RefSlots(heap', b) = RefSlots(heap, b)
  BY <1>1, RestProgram
<1>3. Headers(heap, Base, o) \subseteq A /\ Sound(heap, roots, A)
  BY DEF Generations, Rest
<1>4. HasElement(r, k, TRUE) /\ WriteElement(r, k, x) /\ heap' = [heap EXCEPT !.word[y] = x]
  BY <1>1 DEF AIAStore, WriteElement
<1>5. /\ a \in A /\ a \in Addr /\ k \in Nat /\ k < heap.word[a] /\ y = a + Header + k
      /\ y \in RefSlots(heap, a)
  BY <1>3, <1>4, ElementSound
<1>6. y \in Addr /\ heap \in Heap
  <2>1. y \in Addr
    BY ONLY <1>3, <1>5, SoundSlots, Zenon
  <2>2. heap \in Heap
    BY ONLY <1>3, Zenon DEF Sound
  <2> QED
    BY ONLY <2>1, <2>2
<1>7. heap'.word[y] = x /\ \A z \in Addr : z # y => heap'.word[z] = heap.word[z]
  BY <1>4, <1>6 DEF Heap
<1>8. /\ o \in Nat /\ n \in Nat /\ o + 2 <= n
      /\ \A b \in Headers(heap, Base, o) : b \in Nat /\ b < o
      /\ \A b \in Headers(heap, n, heap.watermark) : b \in Nat /\ n <= b
  BY RestMeans
<1>9. a \in Headers(heap, Base, o) <=> a < n
  <2>1. a \in Headers(heap, Base, o) \/ a \in Headers(heap, n, heap.watermark)
    BY <1>5 DEF Generations
  <2> HIDE DEF o, n, a
  <2> QED
    BY <1>8, <2>1
<1> HIDE DEF A, a, y, x, o, n, q, p
<1>10. ASSUME NEW b \in A, NEW z \in RefSlots(heap, b)
       PROVE  heap'.word[z] = heap.word[z] \/ (b = a /\ z = y)
  <2>1. CASE b # a
    <3>1. b # roots[r] \/ TRUE = FALSE
      BY <2>1 DEF a
    <3> QED
      BY <1>3, <1>4, <3>1, ElsewhereSame
  <2>2. CASE b = a
    <3>1. z \in Addr
      BY <1>3, SoundSlots
    <3> QED
      BY <1>7, <2>2, <3>1
  <2> QED
    BY <2>1, <2>2
<1>11. /\ Entries(heap, o, q)
       /\ \A b \in Headers(heap, Base, o) : \A z \in RefSlots(heap, b) :
             heap.word[z] >= n => \E i \in DOMAIN q : RememberedSlot(q[i]) = z
       /\ q \in Seq(Addr \X Nat) /\ DOMAIN q = 1 .. Len(q) /\ Len(q) \in Nat
  BY DEF Remembers, o, n, q
<1>12. CASE a < n /\ x >= n
  <2>1. p = Append(q, <<a, k>>) /\ <<a, k>> \in Addr \X Nat
    BY <1>1, <1>5, <1>12 DEF o, n, q, a, x, p
  <2>2. /\ p \in Seq(Addr \X Nat) /\ Len(p) = Len(q) + 1 /\ DOMAIN p = 1 .. Len(q) + 1
        /\ p[Len(q) + 1] = <<a, k>> /\ \A i \in 1 .. Len(q) : p[i] = q[i]
    BY <1>11, <2>1
  <2>3. RememberedSlot(<<a, k>>) = y /\ <<a, k>>[1] = a
    BY <1>5 DEF RememberedSlot
  <2>4. Entries(heap', o, p)
    <3>1. ASSUME NEW i \in DOMAIN p
          PROVE  p[i][1] \in Headers(heap', Base, o) /\ RememberedSlot(p[i]) \in RefSlots(heap', p[i][1])
      <4>1. CASE i \in 1 .. Len(q)
        <5>1. /\ q[i][1] \in Headers(heap, Base, o)
              /\ RememberedSlot(q[i]) \in RefSlots(heap, q[i][1])
          BY <1>11, <4>1 DEF Entries
        <5> QED
          BY <1>2, <1>3, <2>2, <4>1, <5>1
      <4>2. CASE i = Len(q) + 1
        BY <1>2, <1>3, <1>5, <1>9, <1>12, <2>2, <2>3, <4>2
      <4>3. i \in 1 .. Len(q) \/ i = Len(q) + 1
        <5>1. i \in 1 .. Len(q) + 1 /\ Len(q) \in Nat
          BY <1>11, <2>2
        <5> QED
          BY ONLY <5>1
      <4> QED
        BY <4>1, <4>2, <4>3
    <3> QED
      BY <3>1 DEF Entries
  <2>5. ASSUME NEW b \in Headers(heap', Base, o), NEW z \in RefSlots(heap', b), heap'.word[z] >= n
        PROVE  \E i \in DOMAIN p : RememberedSlot(p[i]) = z
    <3>1. b \in Headers(heap, Base, o) /\ b \in A /\ z \in RefSlots(heap, b)
      BY <1>2, <1>3
    <3>2. CASE z = y
      <4>1. Len(q) + 1 \in DOMAIN p
        BY <1>11, <2>2
      <4> QED
        BY <2>2, <2>3, <3>2, <4>1
    <3>3. CASE z # y
      <4>1. heap.word[z] >= n
        BY <1>10, <2>5, <3>1, <3>3
      <4>2. PICK i \in DOMAIN q : RememberedSlot(q[i]) = z
        BY <1>11, <3>1, <4>1
      <4>3. i \in DOMAIN p /\ p[i] = q[i]
        BY <1>11, <2>2
      <4> QED
        BY <4>2, <4>3
    <3> QED
      BY <3>2, <3>3
  <2>6. Remembers(heap', o, n, p)
    BY <2>4, <2>5 DEF Remembers
  <2>7. Len(q) < MaxRemembered /\ Len(p) <= Len(q) + 1
    BY <1>1, <1>11, <2>2 DEF q
  <2> QED
    BY <2>2, <2>6, <2>7 DEF o, n, q, p
<1>13. CASE ~(a < n /\ x >= n)
  <2>1. p = q
    BY <1>1, <1>13 DEF o, n, q, a, x, p
  <2>2. Entries(heap', o, q)
    BY <1>2, <1>3, <1>11 DEF Entries
  <2>3. ASSUME NEW b \in Headers(heap', Base, o), NEW z \in RefSlots(heap', b), heap'.word[z] >= n
        PROVE  \E i \in DOMAIN q : RememberedSlot(q[i]) = z
    <3>1. b \in Headers(heap, Base, o) /\ b \in A /\ z \in RefSlots(heap, b)
      BY <1>2, <1>3
    <3>2. heap'.word[z] = heap.word[z]
      <4>1. CASE b = a /\ z = y
        <5>1. a < n
          BY <1>9, <3>1, <4>1
        <5> QED
          BY <1>7, <1>13, <2>3, <4>1, <5>1
      <4> QED
        BY <1>10, <3>1, <4>1
    <3> QED
      BY <1>11, <2>3, <3>1, <3>2
  <2>4. Remembers(heap', o, n, q)
    BY <2>2, <2>3 DEF Remembers
  <2>5. Len(q) < MaxRemembered /\ Len(q) <= Len(q) + 1
    BY <1>1, <1>11 DEF q
  <2> QED
    BY <1>11, <2>1, <2>4, <2>5 DEF o, n, q, p
<1> QED
  BY <1>12, <1>13

\* A number below the modulus is its own remainder.
LEMMA Remains ==
    ASSUME NEW x \in Nat, NEW m \in Nat, x < m
    PROVE  x % m = x
  OBVIOUS

\* The first boundary is within the heap, with room for a header below it.
LEMMA FirstBoundaryEffect ==
    ASSUME NoWrap
    PROVE  FirstBoundary \in Nat /\ Base + Header <= FirstBoundary /\ FirstBoundary <= HeapEnd
<1> DEFINE N == 4 * (HeapEnd - Base) * 75
<1>1. /\ HeapEnd \in Nat /\ W \in Nat /\ HeapEnd > 4 /\ HeapEnd < W - 2
      /\ 75 * (HeapEnd - 2) < W
  BY Numbers DEF NoWrap
<1>2. N \in Nat /\ 4 * W \in Nat /\ N < 4 * W /\ N = 300 * (HeapEnd - 2)
  BY ONLY <1>1
<1> HIDE DEF N
<1>3. N % (4 * W) = N
  <2> DEFINE M == 4 * W
  <2>1. N \in Nat /\ M \in Nat /\ N < M
    BY <1>2
  <2> HIDE DEF M
  <2>2. N % M = N
    BY ONLY <2>1, Remains
  <2> QED
    BY <2>2 DEF M
<1>4. FirstBoundary = 2 + (N \div 100) \div 4
  BY <1>3 DEF FirstBoundary, N
<1>5. N \div 100 = 3 * (HeapEnd - 2)
  BY ONLY <1>1, <1>2
<1>6. FirstBoundary = 2 + (3 * (HeapEnd - 2)) \div 4
  BY ONLY <1>4, <1>5
<1> QED
  BY ONLY <1>1, <1>6

\* The first allocation lays out two empty generations.
LEMMA LaidOutRests ==
    ASSUME NoWrap, Fresh, NEW h, h = SetWatermark(heap, FirstBoundary)
    PROVE  /\ Rest(h, roots, Base, FirstBoundary) /\ h.watermark = FirstBoundary
           /\ Remembers(h, Base, FirstBoundary, <<>>)
           /\ ViewOf(h, roots) = ViewOf(heap, roots) /\ Live(h, roots) = Live(heap, roots)
           /\ Live(heap, roots) = {} /\ Distinct(h, Live(h, roots))
<1> DEFINE n == FirstBoundary
<1>1. n \in Nat /\ Base + Header <= n /\ n <= HeapEnd
  BY FirstBoundaryEffect
<1> HIDE DEF n
<1>2. /\ WellFormed(heap, roots, Base, Base) /\ heap.watermark = Base
      /\ NoForwards(heap) /\ ~heap.tag[GC_NULL].ref /\ heap \in Heap
  BY DEF Fresh, WellFormed
<1>3. h \in Heap /\ h.watermark = n /\ h.word = heap.word /\ h.tag = heap.tag
  <2>1. n \in 0 .. HeapEnd
    BY <1>1, Numbers
  <2> QED
    BY <1>2, <2>1, SetWatermarkType DEF n
<1>4. /\ Headers(h, Base, Base) = {} /\ Tiled(h, Base, Base)
      /\ Headers(h, n, n) = {} /\ Tiled(h, n, n)
      /\ Headers(heap, Base, Base) = {}
  <2>1. Base \in Nat
    OBVIOUS
  <2> QED
    BY <1>1, <2>1, TiledEmpty
<1>5. Generations(h, Base, n) = {}
  BY <1>3, <1>4 DEF Generations
<1>6. \A r \in RootSlots : roots[r] = GC_NULL
  BY <1>2, <1>4 DEF WellFormed, Allocated
<1>7. Sound(h, roots, {})
  <2>1. roots \in [RootSlots -> {} \cup {GC_NULL}]
    BY <1>2, <1>6, WellFormedTypes
  <2> QED
    BY <1>3, <2>1 DEF Sound
<1>8. Rest(h, roots, Base, n)
  <2>1. NoForwards(h) /\ ~h.tag[GC_NULL].ref
    BY <1>2, <1>3 DEF NoForwards
  <2>2. n <= h.watermark /\ Base <= Base
    BY <1>1, <1>3
  <2>3. Tiled(h, n, h.watermark)
    BY <1>3, <1>4
  <2>4. \A a \in Generations(h, Base, n) : ~h.tag[a].free /\ ~h.tag[a].marked
    BY <1>5
  <2>5. Sound(h, roots, Generations(h, Base, n))
    BY <1>5, <1>7
  <2> QED
    BY <1>1, <1>4, <2>1, <2>2, <2>3, <2>4, <2>5 DEF Rest
<1>9. Remembers(h, Base, n, <<>>)
  BY <1>4 DEF Remembers, Entries
<1>10. Live(heap, roots) = {} /\ Readable(heap, Live(heap, roots)) /\ roots \in [RootSlots -> Addr]
  <2>1. /\ Live(heap, roots) \subseteq Allocated(heap, Base, Base)
        /\ Readable(heap, Live(heap, roots)) /\ roots \in [RootSlots -> Addr]
    BY <1>2, WellFormedLive
  <2> QED
    BY <1>4, <2>1 DEF Allocated
<1>11. Distinct(heap, Live(heap, roots))
  BY <1>10 DEF Distinct
<1>12. ViewOf(h, roots) = ViewOf(heap, roots) /\ Live(h, roots) = Live(heap, roots)
       /\ Distinct(h, Live(h, roots))
  BY <1>10, <1>11, UnmovedView
<1> QED
  BY <1>3, <1>8, <1>9, <1>10, <1>12 DEF n

\* The router's differences do not wrap, so a minor collection has room for the whole
\* nursery and two headers.
LEMMA RouterExact ==
    ASSUME Rest(heap, roots, old_frontier, nursery_start), ~NeedsMajor
    PROVE  /\ old_frontier + (heap.watermark - nursery_start) + 2 * Header <= nursery_start
           /\ heap.watermark - nursery_start \in Word
<1> DEFINE o == old_frontier
           n == nursery_start
           w == heap.watermark
<1>1. /\ o \in Nat /\ n \in Nat /\ w \in Nat /\ 2 <= o /\ o + 2 <= n /\ n <= w /\ w <= HeapEnd
      /\ HeapEnd \in Nat /\ W \in Nat /\ HeapEnd < W - 2
  BY RestMeans, Numbers
<1>2. ~(((n - o) % W) < ((((w - n) % W) + 4) % W))
  BY DEF NeedsMajor, FreeOld, UsedNursery
<1> HIDE DEF o, n, w
<1> DEFINE u == w - n
           f == n - o
           t == u + 4
<1>3. u \in Nat /\ f \in Nat /\ t \in Nat /\ u < W /\ f < W /\ t < W
  BY ONLY <1>1
<1>4. ~((f % W) < (((u % W) + 4) % W))
  BY <1>2
<1>t. t = u + 4
  OBVIOUS
<1>5. u = w - n /\ f = n - o
  OBVIOUS
<1> HIDE DEF u, f, t
<1>6. u % W = u /\ f % W = f /\ t % W = t
  BY ONLY <1>1, <1>3, Remains
<1>7. ~(f < t)
  BY ONLY <1>4, <1>6, <1>t
<1>8. o + (w - n) + 4 <= n /\ w - n \in Nat /\ w - n < W
  BY ONLY <1>1, <1>3, <1>5, <1>7, <1>t
<1>9. w - n \in Word
  BY ONLY <1>1, <1>8 DEF Word
<1> QED
  BY <1>8, <1>9 DEF o, n, w

\* The program does not see the gap being filled.
LEMMA GapUnseen ==
    ASSUME NEW h, NEW rs, NEW o, NEW n, Rest(h, rs, o, n), Distinct(h, Live(h, rs)),
           NEW g, g = MakeFreeBlock(h, o, n)
    PROVE  /\ Rest(g, rs, o, n) /\ ViewOf(g, rs) = ViewOf(h, rs)
           /\ Live(g, rs) = Live(h, rs) /\ Distinct(g, Live(g, rs))
           /\ \A q : Remembers(h, o, n, q) => Remembers(g, o, n, q)
<1>1. /\ g \in Heap /\ g.watermark = h.watermark /\ Untouched(h, g, o, n)
      /\ \A x \in Addr : o <= x /\ x < n => ~g.tag[x].fwd
  BY GapFills
<1> DEFINE A == Generations(h, o, n)
<1>2. /\ Rest(g, rs, o, n) /\ Headers(g, Base, o) = Headers(h, Base, o)
      /\ \A a \in A : /\ g.word[a] = h.word[a] /\ g.tag[a] = h.tag[a]
                      /\ \A s \in RefSlots(h, a) : g.word[s] = h.word[s]
      /\ \A a \in A : RefSlots(g, a) = RefSlots(h, a) /\ Unmoved(h, g, a)
  BY <1>1, RestAside
<1>3. Sound(h, rs, A) /\ Headers(h, Base, o) \subseteq A
  BY DEF Rest, Generations
<1> HIDE DEF A
<1>4. Live(h, rs) \subseteq A /\ Readable(h, Live(h, rs)) /\ rs \in [RootSlots -> Addr]
  BY <1>3, SoundLive
<1>5. \A a \in Live(h, rs) : Unmoved(h, g, a)
  BY <1>2, <1>4
<1>6. ViewOf(g, rs) = ViewOf(h, rs) /\ Live(g, rs) = Live(h, rs) /\ Distinct(g, Live(g, rs))
  BY <1>4, <1>5, UnmovedView
<1>7. ASSUME NEW q, Remembers(h, o, n, q) PROVE Remembers(g, o, n, q)
  BY <1>2, <1>3, <1>7, RememberedStays
<1> QED
  BY <1>2, <1>6, <1>7

\* The invariant of a minor collection holds when it starts.
LEMMA MinorBegins ==
    ASSUME AtRest, remembered \in Seq(Addr \X Nat), Seen, ~NeedsMajor,
           heap' = GapFilled, UNCHANGED <<roots, view>>
    PROVE  \E F : /\ Promoting(heap', roots, F, heap', roots, old_frontier, nursery_start,
                               old_frontier, remembered, 1, 1, old_frontier, old_frontier + Header)
                  /\ Began(heap, roots)'
<1> DEFINE o == old_frontier
           n == nursery_start
           g == MakeFreeBlock(heap, o, n)
<1>1. Rest(heap, roots, o, n) /\ Remembers(heap, o, n, remembered)
  BY DEF AtRest
<1>2. o < n
  <2>1. o \in Nat /\ n \in Nat /\ o + 2 <= n
    BY <1>1, RestMeans
  <2> QED
    BY ONLY <2>1
<1>3. heap' = g
  BY <1>2 DEF GapFilled
<1>4. view = ViewOf(heap, roots) /\ Distinct(heap, Live(heap, roots))
  BY DEF Seen
<1>g. g = MakeFreeBlock(heap, o, n)
  OBVIOUS
<1> HIDE DEF g
<1>5. /\ Rest(g, roots, o, n) /\ ViewOf(g, roots) = ViewOf(heap, roots)
      /\ Live(g, roots) = Live(heap, roots) /\ Distinct(g, Live(g, roots))
      /\ Remembers(g, o, n, remembered)
  <2>1. /\ Rest(g, roots, o, n) /\ ViewOf(g, roots) = ViewOf(heap, roots)
        /\ Live(g, roots) = Live(heap, roots) /\ Distinct(g, Live(g, roots))
        /\ \A q : Remembers(heap, o, n, q) => Remembers(g, o, n, q)
    BY ONLY <1>1, <1>4, <1>g, GapUnseen
  <2> QED
    BY <1>1, <2>1
<1>6. Filled(g, roots, o, n)
  <2>1. /\ g.watermark = heap.watermark /\ g.tag[o] = FreeTag /\ g.word[o] = n - o - Header
        /\ \A x \in Addr : o < x /\ x < n => ~g.tag[x].head
    BY <1>1, GapFills DEF g
  <2>2. o + (heap.watermark - n) + 2 * Header <= n
    BY <1>1, RouterExact
  <2> QED
    BY <1>5, <2>1, <2>2 DEF Filled
<1> HIDE DEF o, n
<1>7. \E F : Promoting(g, roots, F, g, roots, o, n, o, remembered, 1, 1, o, o + Header)
  BY <1>5, <1>6, PromotionBegins
<1>8. Readable(g, Live(g, roots)) /\ roots \in [RootSlots -> Addr]
  <2>1. Sound(g, roots, Generations(g, o, n))
    BY <1>5 DEF Rest
  <2> QED
    BY <2>1, SoundLive
<1> QED
  <2>1. Began(heap, roots)'
    BY <1>3, <1>4, <1>5, <1>8 DEF Began
  <2> QED
    BY <1>3, <1>7, <2>1 DEF o, n

\* A major collection starts to mark a walkable heap without marks.
LEMMA MajorBegins ==
    ASSUME AtRest, Seen, root = 1, frames = <<>>,
           heap' = GapFilled, UNCHANGED <<roots, view, root, frames>>
    PROVE  /\ MarkInv' /\ MarkPrecise' /\ Seen' /\ NoForwards(heap')
           /\ heap' \in Heap /\ ~heap'.tag[GC_NULL].ref
<1> DEFINE o == old_frontier
           n == nursery_start
           g == MakeFreeBlock(heap, o, n)
<1>1. Rest(heap, roots, o, n)
  BY DEF AtRest
<1>2. o < n
  <2>1. o \in Nat /\ n \in Nat /\ o + 2 <= n
    BY <1>1, RestMeans
  <2> QED
    BY ONLY <2>1
<1>3. heap' = g
  BY <1>2 DEF GapFilled
<1>4. view = ViewOf(heap, roots) /\ Distinct(heap, Live(heap, roots))
  BY DEF Seen
<1>g. g = MakeFreeBlock(heap, o, n)
  OBVIOUS
<1> HIDE DEF g, o, n
<1>5. /\ Rest(g, roots, o, n) /\ ViewOf(g, roots) = ViewOf(heap, roots)
      /\ Live(g, roots) = Live(heap, roots) /\ Distinct(g, Live(g, roots))
  BY ONLY <1>1, <1>4, <1>g, GapUnseen
<1>6. /\ g.tag[o] = FreeTag /\ g.word[o] = n - o - Header
      /\ \A x \in Addr : o < x /\ x < n => ~g.tag[x].head
  BY ONLY <1>1, <1>g, GapFills
<1>7. /\ WellFormed(g, roots, Base, g.watermark) /\ NoMarks(g)
  BY ONLY <1>5, <1>6, FilledWalks
<1>8. NoForwards(g) /\ ~g.tag[GC_NULL].ref
  BY <1>5 DEF Rest
<1>9. \A a \in Headers(g, Base, g.watermark) : ~IsMarked(g, a)
  BY <1>7 DEF NoMarks, IsMarked
<1>10. Marked' = {} /\ \A a \in Arrays' : ~IsMarked(heap', a)
  BY <1>3, <1>9 DEF Marked, Arrays, Allocated
<1>11. root' \in 1 .. NRoots + 1 /\ \A r \in RootSlots : ~(r < root')
  BY MutatorAssumption DEF MutatorAssumption, RootSlots
<1>12. frames' \in Seq(Frame) /\ DOMAIN frames' = {}
  OBVIOUS
<1>13. MarkInv'
  BY <1>3, <1>7, <1>8, <1>10, <1>11, <1>12 DEF MarkInv
<1>14. MarkPrecise'
  BY <1>10, <1>12 DEF MarkPrecise
<1>15. Seen'
  BY <1>3, <1>4, <1>5 DEF Seen
<1> QED
  BY <1>3, <1>7, <1>8, <1>13, <1>14, <1>15 DEF WellFormed

\* No walk of the compaction sets a forwarding bit.
LEMMA CompactStepForwards ==
    ASSUME CompactInv, NoForwards(heap), CompactStep
    PROVE  NoForwards(heap')
<1>0. heap \in Heap
  BY DEF CompactInv, CompactTypes
<1>1. CASE VisitRoot \/ VisitRef
  <2>1. MarkInv
    BY <1>1 DEF CompactInv, CompactPhase, VisitRoot, VisitRef
  <2>2. SameButMarks(heap, heap')
    BY <1>1, <2>1, VisitRootKeeps, VisitRefKeeps
  <2> QED
    BY <2>2 DEF SameButMarks, NoForwards
<1>2. CASE LocateStart \/ LocateStep \/ UpdateRoots \/ RelocateStart
  BY <1>2 DEF LocateStart, LocateStep, UpdateRoots, RelocateStart, mutatorVars
<1>3. CASE UpdateStep
  <2>1. heap'.tag = heap.tag
    BY <1>0, <1>3 DEF UpdateStep, RefsUpdated, Heap
  <2> QED
    BY <2>1 DEF NoForwards
<1>4. CASE RelocateStep
  <2>1. CASE ~IsMarked(heap, scan)
    BY <1>4, <2>1 DEF RelocateStep
  <2>2. CASE IsMarked(heap, scan)
    <3> DEFINE p == Place(forward_map, scan)
               h == ClearMarked(heap, scan)
    <3>1. /\ pc = "relocate" /\ scan # SENTINEL /\ heap' = MoveObject(h, scan, p)
      BY <1>4, <2>2 DEF RelocateStep, Slid, ForwardOf, CalculateForwardIndex, Place
    <3>2. /\ scan \in Headers(heap, At(heap, scan), heap.watermark) \cup {SENTINEL}
          /\ \E q : Sliding(heap, forward_map, roots, At(heap, scan), q, dest)
      BY <3>1 DEF CompactInv, CompactPhase, Walking
    <3>3. At(heap, scan) = scan /\ scan \in Headers(heap, scan, heap.watermark)
      BY <3>1, <3>2 DEF At
    <3>4. PICK q : Sliding(heap, forward_map, roots, scan, q, dest)
      BY <3>2, <3>3
    <3>5. /\ scan \in Nat /\ Tiled(heap, scan, heap.watermark)
          /\ heap.watermark \in Nat /\ heap.watermark <= HeapEnd
          /\ Planned(heap, forward_map, Survivors(heap, scan, heap.watermark), q, dest)
      BY <1>0, <3>4, Numbers DEF Sliding, Heap
    <3>6. /\ scan \in Addr /\ ObjectWords(heap, scan) \in Nat
          /\ scan + ObjectWords(heap, scan) <= heap.watermark
      BY <1>0, <3>3, <3>5, TiledWithin
    <3>7. p \in Nat /\ p <= scan
      <4>1. scan \in Survivors(heap, scan, heap.watermark)
        BY <2>2, <3>3 DEF Survivors
      <4> QED
        BY <3>5, <4>1 DEF Planned
    <3>8. /\ h \in Heap /\ ObjectWords(h, scan) = ObjectWords(heap, scan)
          /\ \A x \in Addr : h.tag[x].fwd = heap.tag[x].fwd
      <4>1. SameButMarks(heap, h)
        BY <1>0, <3>6, MarkEffect
      <4> QED
        BY <4>1 DEF SameButMarks, ObjectWords
    <3> HIDE DEF p, h
    <3>9. /\ scan + ObjectWords(h, scan) <= HeapEnd /\ p + ObjectWords(h, scan) <= HeapEnd
      <4>1. /\ scan \in Nat /\ p \in Nat /\ p <= scan /\ ObjectWords(h, scan) \in Nat
            /\ scan + ObjectWords(h, scan) <= heap.watermark
            /\ heap.watermark \in Nat /\ heap.watermark <= HeapEnd /\ HeapEnd \in Nat
        BY <3>5, <3>6, <3>7, <3>8, Numbers
      <4> QED
        BY ONLY <4>1
    <3>10. /\ \A x \in Addr : p <= x /\ x < p + ObjectWords(h, scan) =>
                 /\ scan + (x - p) \in Addr
                 /\ heap'.word[x] = h.word[scan + (x - p)] /\ heap'.tag[x] = h.tag[scan + (x - p)]
           /\ Untouched(h, heap', p, p + ObjectWords(h, scan))
      BY <3>1, <3>6, <3>7, <3>8, <3>9, MoveObjectEffect
    <3>11. ASSUME NEW x \in Addr PROVE ~heap'.tag[x].fwd
      <4>1. CASE p <= x /\ x < p + ObjectWords(h, scan)
        BY <3>8, <3>10, <4>1 DEF NoForwards
      <4>2. CASE ~(p <= x /\ x < p + ObjectWords(h, scan))
        <5>1. x \in Nat /\ p \in Nat /\ ObjectWords(h, scan) \in Nat
          BY <3>6, <3>7, <3>8, Numbers
        <5>2. x < p \/ x >= p + ObjectWords(h, scan)
          BY ONLY <4>2, <5>1
        <5> QED
          BY <3>8, <3>10, <5>2 DEF NoForwards, Untouched
      <4> QED
        BY <4>1, <4>2
    <3> QED
      BY <3>11 DEF NoForwards
  <2> QED
    BY <2>1, <2>2
<1> QED
  BY <1>1, <1>2, <1>3, <1>4 DEF CompactStep

LEMMA CompactEndForwards ==
    ASSUME CompactInv, NoForwards(heap), NEW next, CompactEnd(next)
    PROVE  NoForwards(heap')
<1> DEFINE h == SetWatermark(heap, dest)
           e == heap.watermark
           g == heap'
<1>1. heap \in Heap /\ dest \in Base .. HeapEnd /\ g = Vacate(h, dest, e)
  BY DEF CompactInv, CompactTypes, CompactEnd, Trimmed
<1>2. dest \in 0 .. HeapEnd /\ dest \in Nat /\ e \in Nat
  BY <1>1, Numbers DEF Heap
<1>3. h \in Heap /\ h.tag = heap.tag
  BY <1>1, <1>2, SetWatermarkType
<1> HIDE DEF h, e, g
<1>4. /\ \A x \in Addr : dest <= x /\ x < e => g.tag[x] = NoTag
      /\ Untouched(h, g, dest, e)
  BY ONLY <1>1, <1>2, <1>3, VacateEffect
<1>5. ASSUME NEW x \in Addr PROVE ~g.tag[x].fwd
  <2>1. x < dest \/ x >= e \/ (dest <= x /\ x < e)
    BY <1>2, Numbers
  <2> QED
    BY <1>3, <1>4, <2>1 DEF NoForwards, Untouched, NoTag
<1> QED
  BY <1>5 DEF NoForwards, g

\* A major collection leaves a compact heap, of which it makes the old generation; the
\* nursery is empty.
LEMMA MajorEnds ==
    ASSUME WellFormed(heap, roots, Base, heap.watermark), NoMarks(heap), NoForwards(heap),
           ~heap.tag[GC_NULL].ref, Seen,
           Headers(heap, Base, heap.watermark) = Live(heap, roots),
           heap.watermark + 2 * Header <= HeapEnd,
           NEW n, n = heap.watermark + (HeapEnd - heap.watermark) \div 2,
           NEW g, g = SetWatermark(heap, n)
    PROVE  /\ Rest(g, roots, heap.watermark, n) /\ g.watermark = n
           /\ n \in Word /\ n # 0
           /\ Remembers(g, heap.watermark, n, <<>>)
           /\ ViewOf(g, roots) = ViewOf(heap, roots) /\ Distinct(g, Live(g, roots))
<1> DEFINE w == heap.watermark
           A == Headers(heap, Base, w)
<1>1. heap \in Heap /\ w \in Nat /\ Base <= w /\ w + 4 <= HeapEnd /\ HeapEnd \in Nat
  BY Numbers DEF WellFormed
<1>w. w = heap.watermark
  OBVIOUS
<1> HIDE DEF w
<1>2. /\ n \in Nat /\ w + 2 <= n /\ n <= HeapEnd /\ n # 0
  <2>1. n = w + (HeapEnd - w) \div 2
    BY <1>w
  <2>2. (HeapEnd - w) \div 2 \in Nat /\ (HeapEnd - w) \div 2 >= 2
        /\ (HeapEnd - w) \div 2 <= HeapEnd - w
    BY ONLY <1>1
  <2> QED
    BY ONLY <1>1, <2>1, <2>2
<1>3. n \in Word
  BY ONLY <1>2, Numbers DEF Word
<1>4. g \in Heap /\ g.watermark = n /\ g.word = heap.word /\ g.tag = heap.tag
  <2>1. n \in 0 .. HeapEnd
    BY ONLY <1>1, <1>2
  <2> QED
    BY <1>1, <2>1, SetWatermarkType
<1>5. Tiled(heap, Base, w)
  BY <1>w DEF WellFormed
<1>6. /\ Headers(g, Base, w) = A /\ Tiled(g, Base, w)
      /\ Headers(g, n, n) = {} /\ Tiled(g, n, n)
  <2>1. Headers(g, n, n) = {} /\ Tiled(g, n, n)
    BY ONLY <1>2, TiledEmpty
  <2>2. \A x \in Addr : Base <= x /\ x < w =>
             /\ g.tag[x].head <=> heap.tag[x].head
             /\ heap.tag[x].head => g.word[x] = heap.word[x]
    BY <1>4
  <2>3. Base \in Nat
    OBVIOUS
  <2>4. /\ Headers(g, Base, w) = Headers(heap, Base, w)
        /\ Tiled(heap, Base, w) => Tiled(g, Base, w)
    BY ONLY <1>1, <2>2, <2>3, TiledSame, Zenon
  <2> QED
    BY <1>5, <2>1, <2>4
<1>7. Generations(g, w, n) = A
  BY <1>4, <1>6 DEF Generations
<1>8. /\ Live(heap, roots) \subseteq Allocated(heap, Base, w)
      /\ Readable(heap, Live(heap, roots)) /\ roots \in [RootSlots -> Addr]
  BY <1>w, WellFormedLive
<1>9. A = Allocated(heap, Base, w) /\ A = Live(heap, roots)
  BY <1>8, <1>w DEF Allocated
<1>10. \A a \in A : ~g.tag[a].free /\ ~g.tag[a].marked
  <2>1. \A a \in A : ~heap.tag[a].free
    BY <1>9 DEF Allocated
  <2>2. \A a \in A : ~heap.tag[a].marked
    BY <1>w DEF NoMarks
  <2> QED
    BY <1>4, <2>1, <2>2
<1>11. Sound(heap, roots, A)
  <2>1. WellFormed(heap, roots, Base, w)
    BY <1>w
  <2> HIDE DEF A
  <2> QED
    BY <1>9, <2>1, WellFormedSound
<1>12. Sound(g, roots, A)
  BY <1>4, <1>11 DEF Sound, ObjectWords, RefSlots
<1>13. ASSUME NEW a \in A PROVE RefSlots(g, a) = RefSlots(heap, a) /\ a \in Nat /\ a < w
  <2>1. a \in Nat /\ a < w
    BY HeadersWithin
  <2> QED
    BY <1>4, <2>1 DEF RefSlots
<1> HIDE DEF A
<1>14. Rest(g, roots, w, n)
  <2>1. NoForwards(g) /\ ~g.tag[GC_NULL].ref
    BY <1>4 DEF NoForwards
  <2>2. n <= g.watermark /\ w + Header <= n
    BY <1>2, <1>4
  <2>3. Tiled(g, n, g.watermark)
    BY <1>4, <1>6
  <2>4. \A a \in Generations(g, w, n) : ~g.tag[a].free /\ ~g.tag[a].marked
    BY <1>7, <1>10
  <2>5. Sound(g, roots, Generations(g, w, n))
    BY <1>7, <1>12
  <2> QED
    BY <1>1, <1>2, <1>6, <2>1, <2>2, <2>3, <2>4, <2>5 DEF Rest
<1>15. Remembers(g, w, n, <<>>)
  <2>1. ASSUME NEW a \in A, NEW s \in RefSlots(g, a) PROVE ~(g.word[s] >= n)
    <3>1. s \in RefSlots(heap, a)
      BY <1>13
    <3>2. heap.word[s] \in A \cup {GC_NULL}
      BY <1>11, <3>1, SoundSlots
    <3>3. heap.word[s] \in Nat /\ heap.word[s] < w
      <4>1. CASE heap.word[s] = GC_NULL
        BY <1>1, <4>1
      <4>2. CASE heap.word[s] \in A
        BY <1>13, <4>2
      <4> QED
        BY <3>2, <4>1, <4>2
    <3>4. ~(heap.word[s] >= n)
      BY ONLY <1>1, <1>2, <3>3
    <3> QED
      BY <1>4, <3>4
  <2> QED
    BY <1>6, <2>1 DEF Remembers, Entries
<1>16. Distinct(heap, Live(heap, roots))
  BY DEF Seen
<1>17. \A a \in Live(heap, roots) : Unmoved(heap, g, a)
  BY <1>4 DEF Unmoved
<1>18. ViewOf(g, roots) = ViewOf(heap, roots) /\ Distinct(g, Live(g, roots))
  BY <1>8, <1>16, <1>17, UnmovedView
<1> QED
  BY <1>2, <1>3, <1>4, <1>14, <1>15, <1>18, <1>w

Types ==
    /\ CompactTypes /\ GenTypes
    /\ pc \in {"run", "collect", "minor", "mark", "locate", "update", "relocate",
               "majorEnd", "return", "retry", "oom"}

\* A minor collection copies what the program can reach of the heap it found.
Minor ==
    pc = "minor" =>
        \E h0, rs0, F :
           /\ Promoting(h0, rs0, F, heap, roots, old_before, nursery_start, old_frontier,
                        remembered, root, entry, copy_scan, copy_slot)
           /\ Began(h0, rs0)

IInv == Types /\ CompactPhase /\ CompactTraced /\ GenPhase /\ Minor

-----------------------------------------------------------------------------
(* Allocation.                                                              *)

\* The array that is allocated is new and zeroed, and the others are where they were.
LEMMA RestBumpFresh ==
    ASSUME NEW h, NEW rs, NEW o, NEW n, Rest(h, rs, o, n),
           NEW length \in Nat, NEW ref \in BOOLEAN, NEW id \in Ids \cup {NoId},
           NEW a, a = RawAlloc(h, length, ref, id), a.ref # SENTINEL
    PROVE  /\ Zeroed(a.heap, a.ref, length, ArrayTag(ref, id))
           /\ \A b \in Generations(h, o, n) : Unmoved(h, a.heap, b)
<1> DEFINE w == h.watermark
           g == a.heap
           p == a.ref
           v == g.watermark
<1>1. /\ h \in Heap /\ w \in Nat /\ 4 <= w /\ w <= HeapEnd /\ HeapEnd \in Nat
  <2>1. /\ h \in Heap /\ o \in Nat /\ n \in Nat /\ w \in Nat
        /\ 2 <= o /\ o + 2 <= n /\ n <= w /\ w <= HeapEnd /\ HeapEnd \in Nat
    BY RestMeans
  <2> QED
    BY ONLY <2>1
<1>2. /\ p = w /\ p \in Addr /\ length \in Word
      /\ g \in Heap /\ v = p + Header + length /\ v <= HeapEnd
      /\ g.word[p] = length /\ g.tag[p] = ArrayTag(ref, id)
      /\ \A x \in Addr : x > p /\ x < v => g.word[x] = 0 /\ g.tag[x] = NoTag
      /\ \A x \in Addr : x < p \/ x >= v => g.word[x] = h.word[x] /\ g.tag[x] = h.tag[x]
  <2>1. w \in Base .. HeapEnd
    BY <1>1
  <2> QED
    BY <1>1, <2>1, BumpEffect
<1> HIDE DEF g, p, v, w
<1>3. Zeroed(g, p, length, ArrayTag(ref, id))
  <2>1. p \in Addr \ {GC_NULL}
    BY <1>1, <1>2
  <2>2. /\ g.word[p] \in {length, length + 1} /\ p + Header + g.word[p] = v
    BY <1>2
  <2> QED
    BY <1>2, <2>1, <2>2 DEF Zeroed
<1>4. ASSUME NEW b \in Generations(h, o, n) PROVE Unmoved(h, g, b)
  <2>1. /\ b \in Addr /\ b \in Nat /\ 2 <= b /\ h.word[b] \in Nat
        /\ ObjectWords(h, b) = 2 + h.word[b] /\ b + ObjectWords(h, b) <= w
    BY RestApart DEF w
  <2>2. ASSUME NEW x \in Addr, x >= b, x < b + Header + h.word[b]
        PROVE  g.word[x] = h.word[x] /\ g.tag[x] = h.tag[x]
    <3>1. x \in Nat /\ w \in Nat
      BY <1>1, Numbers
    <3>2. x < w
      BY ONLY <2>1, <2>2, <3>1
    <3> QED
      BY <1>2, <3>2
  <2>3. b >= b /\ b < b + Header + h.word[b] /\ b + Header + h.word[b] <= HeapEnd
    BY ONLY <1>1, <2>1
  <2>4. g.tag[b].ref = h.tag[b].ref /\ g.tag[b].id = h.tag[b].id
    BY <2>1, <2>2, <2>3
  <2>5. \A x \in Addr : x >= b /\ x < b + Header + h.word[b] => g.word[x] = h.word[x]
    BY <2>2
  <2> QED
    BY <2>1, <2>3, <2>4, <2>5, UntouchedUnmoved
<1> QED
  BY <1>3, <1>4 DEF g, p

\* The heap that an allocation finds: the one at rest, or the one laid out before it.
Ready(h, o, n) ==
    /\ Rest(h, roots, o, n) /\ Remembers(h, o, n, remembered)
    /\ h = heap \/ Live(heap, roots) = {}
    /\ ViewOf(h, roots) = ViewOf(heap, roots) /\ Distinct(h, Live(h, roots))

LEMMA ReadyBump ==
    ASSUME NEW h, NEW o, NEW n, Ready(h, o, n),
           NEW length \in Nat, NEW ref \in BOOLEAN, NEW id \in Ids \cup {NoId},
           NEW a, a = RawAlloc(h, length, ref, id), a.ref # SENTINEL
    PROVE  /\ roots \in [RootSlots -> Addr] /\ Readable(heap, Live(heap, roots))
           /\ \A b \in Live(heap, roots) : Unmoved(heap, a.heap, b)
           /\ Zeroed(a.heap, a.ref, length, ArrayTag(ref, id))
           /\ Rest(a.heap, roots, o, n) /\ a.ref \in Generations(a.heap, o, n)
           /\ Remembers(a.heap, o, n, remembered)
<1>1. /\ Rest(h, roots, o, n) /\ Remembers(h, o, n, remembered)
      /\ h = heap \/ Live(heap, roots) = {}
  BY DEF Ready
<1>2. /\ Zeroed(a.heap, a.ref, length, ArrayTag(ref, id))
      /\ \A b \in Generations(h, o, n) : Unmoved(h, a.heap, b)
  BY <1>1, RestBumpFresh
<1>3. /\ Rest(a.heap, roots, o, n)
      /\ a.ref \in Generations(a.heap, o, n)
      /\ Headers(a.heap, Base, o) = Headers(h, Base, o)
      /\ \A b \in Headers(h, Base, o) :
            /\ RefSlots(a.heap, b) = RefSlots(h, b)
            /\ \A s \in RefSlots(h, b) : a.heap.word[s] = h.word[s]
  BY <1>1, RestBump
<1>4. Remembers(a.heap, o, n, remembered)
  BY <1>1, <1>3, RememberedStays
<1>5. /\ Live(h, roots) \subseteq Generations(h, o, n) /\ Readable(h, Live(h, roots))
      /\ roots \in [RootSlots -> Addr]
  BY <1>1, SoundLive DEF Rest
<1>6. Readable(heap, Live(heap, roots)) /\ \A b \in Live(heap, roots) : Unmoved(heap, a.heap, b)
  <2>1. CASE h = heap
    BY <1>2, <1>5, <2>1
  <2>2. CASE Live(heap, roots) = {}
    BY <2>2 DEF Readable
  <2> QED
    BY <1>1, <2>1, <2>2
<1> QED
  BY <1>2, <1>3, <1>4, <1>5, <1>6

\* Pushing the new array keeps the generations.
LEMMA RestPush ==
    ASSUME NEW h, NEW rs, NEW o, NEW n, Rest(h, rs, o, n), NEW r, NEW x \in Generations(h, o, n)
    PROVE  Rest(h, [rs EXCEPT ![r] = x], o, n)
<1>1. Sound(h, rs, Generations(h, o, n))
  BY DEF Rest
<1>2. Sound(h, [rs EXCEPT ![r] = x], Generations(h, o, n))
  BY <1>1, RootSound
<1> QED
  BY <1>2 DEF Rest

\* The first call lays the generations out, and every other finds them at rest.
LEMMA LayOutEffect ==
    ASSUME NoWrap, Types, GenPhase, Seen, LayOut,
           Fresh \/ (nursery_start # 0 /\ AtRest),
           NEW h, h = IF nursery_start = 0 THEN SetWatermark(heap, nursery_start') ELSE heap
    PROVE  /\ Ready(h, old_frontier', nursery_start')
           /\ nursery_start' # 0 /\ nursery_start' \in Word /\ old_frontier' \in Word
<1>1. nursery_start \in Word /\ old_frontier \in Word
  BY DEF Types, GenTypes
<1>2. CASE nursery_start = 0
  <2>1. nursery_start' = FirstBoundary /\ old_frontier' = Base
    BY <1>2 DEF LayOut
  <2>2. Fresh /\ remembered = <<>>
    BY <1>2 DEF Fresh
  <2> DEFINE m == FirstBoundary
  <2>3. h = SetWatermark(heap, m)
    BY <1>2, <2>1
  <2>4. m \in Nat /\ Base + Header <= m /\ m <= HeapEnd
    BY FirstBoundaryEffect
  <2>5. /\ Rest(h, roots, Base, m) /\ h.watermark = m
        /\ Remembers(h, Base, m, <<>>)
        /\ ViewOf(h, roots) = ViewOf(heap, roots) /\ Live(h, roots) = Live(heap, roots)
        /\ Live(heap, roots) = {} /\ Distinct(h, Live(h, roots))
    BY <2>2, <2>3, LaidOutRests
  <2> HIDE DEF m
  <2>6. m \in Word /\ Base \in Word /\ m # 0
    BY ONLY <2>4, Numbers DEF Word
  <2> QED
    BY <2>1, <2>2, <2>5, <2>6 DEF Ready, m
<1>3. CASE nursery_start # 0
  <2>1. h = heap /\ nursery_start' = nursery_start /\ old_frontier' = old_frontier
    BY <1>3 DEF LayOut
  <2>2. AtRest
    BY <1>3 DEF Fresh
  <2>3. view = ViewOf(heap, roots) /\ Distinct(heap, Live(heap, roots))
    BY DEF Seen
  <2> QED
    BY <1>1, <1>3, <2>1, <2>2, <2>3 DEF Ready, AtRest
<1> QED
  BY <1>2, <1>3

Quiet == {"run", "collect", "return", "retry", "oom"}

\* What is particular to a collection says nothing outside it.
LEMMA QuietIInv ==
    ASSUME pc' \in Quiet, Types', GenPhase'
    PROVE  IInv'
<1>1. pc' \notin {"mark", "minor"} \cup Walking
  BY DEF Quiet, Walking
<1>2. CompactPhase'
  BY <1>1 DEF CompactPhase, Walking
<1>3. CompactTraced'
  BY <1>1 DEF CompactTraced, Walking
<1>4. Minor'
  BY <1>1 DEF Minor
<1> QED
  BY <1>2, <1>3, <1>4 DEF IInv

\* What holds when the program runs.
LEMMA RunMeans ==
    ASSUME IInv, pc = "run"
    PROVE  /\ Types /\ GenPhase /\ Seen /\ root = 1 /\ frames = <<>> /\ req = NoReq
           /\ Fresh \/ (nursery_start # 0 /\ AtRest)
  BY DEF IInv, GenPhase

LEMMA RetryMeans ==
    ASSUME IInv, pc \in {"return", "retry"}
    PROVE  /\ Types /\ GenPhase /\ Seen /\ root = 1 /\ frames = <<>> /\ nursery_start # 0
           /\ (AtRest /\ heap.watermark = nursery_start) \/ Full
           /\ req # NoReq
  BY DEF IInv, GenPhase

\* An array asked for has at least two elements.
LEMMA AskedLarge ==
    ASSUME LargeArrays, req \in Request, req # NoReq
    PROVE  req.length \in Nat /\ req.length >= 2
<1>1. req.length \in Lengths
  BY DEF Request
<1> QED
  BY <1>1, MutatorAssumption DEF LargeArrays, MutatorAssumption

\* gc_alloc, at the first attempt: the array lies at the end of the nursery, or a
\* collection begins.
LEMMA NewArrayIInv ==
    ASSUME NoWrap, IInv, NEW r \in RootSlots, NEW length \in Lengths, NEW ref \in Kinds,
           NEW id \in FreshIds, NewArray(r, length, ref, id)
    PROVE  IInv'
<1> DEFINE h == IF nursery_start = 0 THEN SetWatermark(heap, nursery_start') ELSE heap
           a == RawAlloc(h, length, ref, id)
           o == old_frontier'
           n == nursery_start'
<1>1. length \in Nat /\ ref \in BOOLEAN /\ id \in Ids \cup {NoId}
  BY AskedTypes
<1>2. /\ LayOut /\ AllocFirst(r, length, ref, a) /\ pc = "run" /\ heap' = a.heap
      /\ UNCHANGED <<root, frames, forward_map, scan, dest, remembered, entry, copy_scan,
                     copy_slot, old_before, nursery_used>>
  BY DEF NewArray, Alloc, AllocFirst, markVars, compactVars, minorVars
<1>3. /\ Types /\ GenPhase /\ Seen /\ root = 1 /\ frames = <<>> /\ req = NoReq
      /\ Fresh \/ (nursery_start # 0 /\ AtRest)
  BY <1>2, RunMeans
<1>4. Ready(h, o, n) /\ n # 0 /\ n \in Word /\ o \in Word
  BY <1>2, <1>3, LayOutEffect
<1>a. a = RawAlloc(h, length, ref, id)
  OBVIOUS
<1>s. view = ViewOf(heap, roots)
  BY <1>3 DEF Seen
<1>t. GenTypes'
  BY <1>2, <1>3, <1>4 DEF Types, GenTypes
<1> HIDE DEF h, a, o, n
<1>5. CASE a.ref = SENTINEL
  <2>1. a.heap = h
    <3>1. h \in Heap /\ HeapEnd \in Nat /\ HeapEnd < W - 2 /\ W \in Nat
          /\ h.watermark \in Base .. HeapEnd
      <4>1. Rest(h, roots, o, n)
        BY <1>4 DEF Ready
      <4>2. /\ h \in Heap /\ o \in Nat /\ n \in Nat /\ h.watermark \in Nat
            /\ 2 <= o /\ o + 2 <= n /\ n <= h.watermark /\ h.watermark <= HeapEnd
        BY <4>1, RestMeans
      <4>3. h.watermark \in Base .. HeapEnd
        BY ONLY <4>2, Numbers
      <4> QED
        BY <4>2, <4>3, Numbers
    <3>2. a.ref \notin Addr
      BY <1>5, Numbers
    <3>3. \/ ~Fits(h, length) /\ a.ref = SENTINEL /\ a.heap = h
          \/ a.ref \in Addr
      BY <1>1, <1>a, <3>1, RawAllocEffect
    <3> QED
      BY <3>2, <3>3
  <2>2. /\ req' = [slot |-> r, length |-> length, ref |-> ref]
        /\ pc' = "collect" /\ out' = ZeroOut /\ UNCHANGED <<roots, net, view>> /\ heap' = h
    BY <1>2, <1>5, <2>1 DEF AllocFirst, Stop
  <2>3. req' \in Request /\ out' \in Outs /\ req' # NoReq
    <3>1. r # 0
      BY DEF RootSlots
    <3> QED
      BY <1>1, <2>2, <3>1 DEF Request, Outs, ZeroOut, NoReq
  <2>4. /\ Rest(h, roots, o, n) /\ Remembers(h, o, n, remembered)
        /\ ViewOf(h, roots) = ViewOf(heap, roots) /\ Distinct(h, Live(h, roots)) /\ h \in Heap
    BY <1>4, RestMeans DEF Ready
  <2>5. AtRest' /\ Seen'
    BY <1>2, <1>s, <2>2, <2>4 DEF AtRest, Seen, o, n
  <2>6. Types'
    BY <1>2, <1>3, <1>t, <2>2, <2>3, <2>4 DEF Types, CompactTypes
  <2>7. GenPhase'
    BY <1>2, <1>3, <1>4, <2>2, <2>3, <2>5 DEF GenPhase, Major, Walking, ZeroOut, n
  <2> QED
    BY <2>2, <2>6, <2>7, QuietIInv DEF Quiet
<1>6. CASE a.ref # SENTINEL
  <2>1. /\ roots \in [RootSlots -> Addr] /\ Readable(heap, Live(heap, roots))
        /\ \A b \in Live(heap, roots) : Unmoved(heap, a.heap, b)
        /\ Zeroed(a.heap, a.ref, length, ArrayTag(ref, id))
        /\ Rest(a.heap, roots, o, n) /\ a.ref \in Generations(a.heap, o, n)
        /\ Remembers(a.heap, o, n, remembered)
    BY <1>1, <1>4, <1>6, <1>a, ReadyBump
  <2>2. Push(r, a) /\ UNCHANGED <<pc, req, out>>
    BY <1>2, <1>6 DEF AllocFirst
  <2>3. Seen'
    BY <1>1, <1>2, <1>3, <2>1, <2>2, PushSees
  <2>4. roots' = [roots EXCEPT ![r] = a.ref]
    BY <2>2 DEF Push
  <2>5. Rest(a.heap, roots', o, n)
    BY <2>1, <2>4, RestPush
  <2>6. AtRest'
    BY <1>2, <2>1, <2>5 DEF AtRest, o, n
  <2>7. heap' \in Heap /\ net' \in Int
    <3>1. a.heap \in Heap /\ a.heap.word[a.ref] \in Nat
      <4>1. a.heap \in Heap /\ a.ref \in Addr
        BY <2>1, RestMeans, RestApart
      <4> QED
        BY <4>1, WordTypes
    <3> QED
      BY <1>2, <1>3, <2>2, <3>1 DEF Push, ObjectWords, Types, CompactTypes
  <2>8. Types'
    BY <1>2, <1>3, <1>t, <2>2, <2>7 DEF Types, CompactTypes
  <2>9. GenPhase'
    BY <1>2, <1>3, <1>4, <2>2, <2>3, <2>6 DEF GenPhase, Major, Walking, n
  <2> QED
    BY <1>2, <2>2, <2>8, <2>9, QuietIInv DEF Quiet
<1> QED
  BY <1>5, <1>6

\* Where gc_alloc retries there is no layout to make, and after a major collection that
\* returned early no room for the array.
LEMMA RetryEffect ==
    ASSUME LargeArrays, IInv, NEW id \in FreshIds, Retry(id),
           NEW a, a = RawAlloc(heap, req.length, req.ref, id)
    PROVE  /\ AllocRetry(a) /\ heap' = a.heap /\ req' = NoReq
           /\ UNCHANGED <<nursery_start, old_frontier, out, root, frames, forward_map, scan, dest,
                          remembered, entry, copy_scan, copy_slot, old_before, nursery_used>>
           /\ req.length \in Nat /\ req.ref \in BOOLEAN /\ id \in Ids \cup {NoId}
           /\ a.ref = SENTINEL => a.heap = heap /\ ~Fits(heap, req.length)
           /\ a.ref # SENTINEL =>
                 AtRest /\ Ready(heap, old_frontier, nursery_start)
<1>1. pc = "retry"
  BY DEF Retry, AllocRetry
<1>2. /\ Types /\ GenPhase /\ Seen /\ nursery_start # 0
      /\ (AtRest /\ heap.watermark = nursery_start) \/ Full
      /\ req # NoReq
  BY <1>1, RetryMeans
<1>3. /\ AllocRetry(a) /\ heap' = a.heap /\ req' = NoReq
      /\ UNCHANGED <<nursery_start, old_frontier, out, root, frames, forward_map, scan, dest,
                     remembered, entry, copy_scan, copy_slot, old_before, nursery_used>>
  BY <1>2 DEF Retry, LayOut, Alloc, AllocRetry, markVars, compactVars, minorVars
<1>4. req.length \in Nat /\ req.ref \in BOOLEAN /\ id \in Ids \cup {NoId} /\ req \in Request
  BY <1>2, AskedTypes DEF Types, CompactTypes
<1>5. req.length >= 2
  BY <1>2, <1>4, AskedLarge
<1>6. heap \in Heap /\ heap.watermark \in Base .. HeapEnd
  <2>1. heap \in Heap /\ heap.watermark \in Nat /\ heap.watermark <= HeapEnd
    BY <1>2, Numbers DEF Types, CompactTypes, Heap
  <2>2. Base <= heap.watermark
    <3>1. CASE AtRest
      <4>1. Rest(heap, roots, old_frontier, nursery_start)
        BY <3>1 DEF AtRest
      <4>2. /\ old_frontier \in Nat /\ nursery_start \in Nat
            /\ 2 <= old_frontier /\ old_frontier + 2 <= nursery_start
            /\ nursery_start <= heap.watermark
        BY <4>1, RestMeans
      <4> QED
        BY ONLY <2>1, <4>2
    <3>2. CASE Full
      BY <3>2 DEF Full, WellFormed
    <3> QED
      BY <1>2, <3>1, <3>2
  <2> QED
    BY <2>1, <2>2, Numbers
<1>7. \/ ~Fits(heap, req.length) /\ a.ref = SENTINEL /\ a.heap = heap
      \/ Fits(heap, req.length) /\ a.ref \in Addr
  BY <1>4, <1>6, RawAllocEffect
<1>8. a.ref = SENTINEL => a.heap = heap /\ ~Fits(heap, req.length)
  BY <1>7, Numbers
<1>9. ASSUME a.ref # SENTINEL
      PROVE  AtRest /\ Ready(heap, old_frontier, nursery_start)
  <2>1. heap.watermark + Header + req.length <= HeapEnd
    BY <1>7, <1>9 DEF Fits
  <2>2. ~Full
    <3>1. SUFFICES ASSUME heap.watermark + 2 * Header > HeapEnd PROVE FALSE
      BY DEF Full
    <3>2. heap.watermark \in Nat /\ HeapEnd \in Nat
      BY <1>6, Numbers
    <3> QED
      BY ONLY <1>4, <1>5, <2>1, <3>1, <3>2
  <2>3. AtRest
    BY <1>2, <2>2
  <2>4. view = ViewOf(heap, roots) /\ Distinct(heap, Live(heap, roots))
    BY <1>2 DEF Seen
  <2> QED
    BY <2>3, <2>4 DEF AtRest, Ready
<1> QED
  BY <1>3, <1>4, <1>8, <1>9

LEMMA RetryIInv ==
    ASSUME LargeArrays, IInv, NEW id \in FreshIds, Retry(id)
    PROVE  IInv'
<1> DEFINE a == RawAlloc(heap, req.length, req.ref, id)
           o == old_frontier
           n == nursery_start
<1>a. a = RawAlloc(heap, req.length, req.ref, id)
  OBVIOUS
<1> HIDE DEF a
<1>1. /\ AllocRetry(a) /\ heap' = a.heap /\ req' = NoReq
      /\ UNCHANGED <<nursery_start, old_frontier, out, root, frames, forward_map, scan, dest,
                     remembered, entry, copy_scan, copy_slot, old_before, nursery_used>>
      /\ req.length \in Nat /\ req.ref \in BOOLEAN /\ id \in Ids \cup {NoId}
      /\ a.ref = SENTINEL => a.heap = heap
      /\ a.ref # SENTINEL => AtRest /\ Ready(heap, o, n)
  BY <1>a, RetryEffect
<1>2. pc = "retry"
  BY <1>1 DEF AllocRetry
<1>3. /\ Types /\ GenPhase /\ Seen /\ root = 1 /\ frames = <<>> /\ n # 0
      /\ (AtRest /\ heap.watermark = n) \/ Full
  BY <1>2, RetryMeans
<1>4. GenTypes' /\ req' \in Request
  BY <1>1, <1>3 DEF Types, GenTypes, Request
<1>5. CASE a.ref = SENTINEL
  <2>1. pc' = "oom" /\ UNCHANGED <<heap, roots, net, view>>
    BY <1>1, <1>5 DEF AllocRetry
  <2>2. Types'
    BY <1>1, <1>3, <1>4, <2>1 DEF Types, CompactTypes
  <2>3. (AtRest => AtRest') /\ (Full => Full') /\ Seen'
    BY <1>1, <1>3, <2>1 DEF AtRest, Full, Seen
  <2>4. GenPhase'
    BY <1>1, <1>3, <2>1, <2>3 DEF GenPhase, Major, Walking
  <2> QED
    BY <2>1, <2>2, <2>4, QuietIInv DEF Quiet
<1>6. CASE a.ref # SENTINEL
  <2>1. /\ roots \in [RootSlots -> Addr] /\ Readable(heap, Live(heap, roots))
        /\ \A b \in Live(heap, roots) : Unmoved(heap, a.heap, b)
        /\ Zeroed(a.heap, a.ref, req.length, ArrayTag(req.ref, id))
        /\ Rest(a.heap, roots, o, n) /\ a.ref \in Generations(a.heap, o, n)
        /\ Remembers(a.heap, o, n, remembered)
    BY <1>1, <1>6, <1>a, ReadyBump
  <2> DEFINE r == req.slot
  <2>2. Push(r, a) /\ pc' = "run"
    BY <1>1, <1>6 DEF AllocRetry
  <2>3. Seen'
    BY <1>1, <1>3, <2>1, <2>2, PushSees
  <2>4. roots' = [roots EXCEPT ![r] = a.ref]
    BY <2>2 DEF Push
  <2> HIDE DEF r
  <2>5. Rest(a.heap, roots', o, n)
    BY <2>1, <2>4, RestPush
  <2>6. AtRest'
    BY <1>1, <2>1, <2>5 DEF AtRest
  <2>7. heap' \in Heap /\ net' \in Int
    <3>1. a.heap \in Heap /\ a.heap.word[a.ref] \in Nat
      <4>1. a.heap \in Heap /\ a.ref \in Addr
        BY <2>1, RestMeans, RestApart
      <4> QED
        BY <4>1, WordTypes
    <3> QED
      BY <1>1, <1>3, <2>2, <3>1 DEF Push, ObjectWords, Types, CompactTypes
  <2>8. Types'
    BY <1>1, <1>3, <1>4, <2>2, <2>7 DEF Types, CompactTypes
  <2>9. GenPhase'
    BY <1>1, <1>3, <2>2, <2>3, <2>6 DEF GenPhase, Major, Walking
  <2> QED
    BY <2>2, <2>8, <2>9, QuietIInv DEF Quiet
<1> QED
  BY <1>5, <1>6

-----------------------------------------------------------------------------
(* The running program.                                                     *)

\* A program that has an array to use finds the generations at rest.
LEMMA FreshIsIdle ==
    ASSUME Fresh
    PROVE  /\ Sound(heap, roots, {}) /\ \A r \in RootSlots : roots[r] = GC_NULL
<1>1. WellFormed(heap, roots, Base, Base)
  BY DEF Fresh
<1>2. Allocated(heap, Base, Base) = {}
  BY TiledEmpty DEF Allocated
<1>3. Sound(heap, roots, {})
  BY <1>1, <1>2, WellFormedSound
<1> QED
  BY <1>1, <1>2, <1>3 DEF WellFormed

LEMMA ProgramRests ==
    ASSUME IInv, pc = "run",
           ProgramStep \/ \E r, s \in RootSlots, k \in Elements : AIAStore(r, k, s)
    PROVE  nursery_start # 0 /\ AtRest /\ Sound(heap, roots, Generations(heap, old_frontier, nursery_start))
<1>1. Fresh \/ (nursery_start # 0 /\ AtRest)
  BY RunMeans
<1>2. ~Fresh
  <2> SUFFICES ASSUME Fresh PROVE FALSE
    OBVIOUS
  <2>1. \A r \in RootSlots : roots[r] = GC_NULL
    BY FreshIsIdle
  <2> QED
    BY <2>1 DEF ProgramStep, AIALoad, IAStore, Pop, AIAStore, HasElement
<1> QED
  BY <1>1, <1>2 DEF AtRest, Rest

LEMMA ProgramIInv ==
    ASSUME IInv, UNCHANGED collectorVars, ProgramStep
    PROVE  IInv'
<1> DEFINE o == old_frontier
           n == nursery_start
<1>1. pc = "run"
  BY DEF ProgramStep, AIALoad, IAStore, Pop
<1>2. UNCHANGED <<root, frames, forward_map, scan, dest, nursery_start, old_frontier,
                  remembered, entry, copy_scan, copy_slot, old_before, nursery_used>>
  BY DEF collectorVars, markVars, compactVars, genVars, minorVars
<1>3. /\ Types /\ GenPhase /\ Seen /\ root = 1 /\ frames = <<>> /\ req = NoReq
  BY <1>1, RunMeans
<1>4. n # 0 /\ AtRest /\ Sound(heap, roots, Generations(heap, o, n))
  BY <1>1, ProgramRests
<1>5. Rest(heap, roots, o, n) /\ Remembers(heap, o, n, remembered)
  BY <1>4 DEF AtRest
<1>6. Rest(heap', roots', o, n) /\ UNCHANGED <<pc, req, out, net>>
  BY <1>5, RestProgram
<1>7. Remembers(heap', o, n, remembered)
  BY <1>5, ProgramRemembers
<1>8. Seen'
  BY <1>3, <1>4, SoundSees
<1>9. heap' \in Heap
  BY <1>6, RestMeans
<1>10. AtRest'
  BY <1>2, <1>6, <1>7 DEF AtRest
<1>11. Types'
  BY <1>2, <1>3, <1>6, <1>9 DEF Types, CompactTypes, GenTypes
<1>12. GenPhase'
  BY <1>1, <1>2, <1>3, <1>4, <1>6, <1>8, <1>10 DEF GenPhase, Major, Walking
<1> QED
  BY <1>1, <1>6, <1>11, <1>12, QuietIInv DEF Quiet

LEMMA StoreRefIInv ==
    ASSUME IInv, NEW r \in RootSlots, NEW s \in RootSlots, NEW k \in Elements, StoreRef(r, k, s)
    PROVE  IInv'
<1> DEFINE o == old_frontier
           n == nursery_start
<1>1. pc = "run" /\ AIAStore(r, k, s)
  BY DEF StoreRef, AIAStore
<1>2. UNCHANGED <<root, frames, forward_map, scan, dest, nursery_start, old_frontier,
                  entry, copy_scan, copy_slot, old_before, nursery_used>>
  BY DEF StoreRef, markVars, compactVars, minorVars
<1>3. /\ Types /\ GenPhase /\ Seen /\ root = 1 /\ frames = <<>> /\ req = NoReq
  BY <1>1, RunMeans
<1>4. n # 0 /\ AtRest /\ Sound(heap, roots, Generations(heap, o, n))
  BY <1>1, ProgramRests
<1>5. Rest(heap, roots, o, n) /\ Remembers(heap, o, n, remembered)
      /\ remembered \in Seq(Addr \X Nat)
  BY <1>3, <1>4 DEF AtRest, Types, GenTypes
<1>6. Rest(heap', roots', o, n) /\ UNCHANGED <<pc, req, out, net>>
  BY <1>1, <1>5, RestProgram
<1>7. /\ remembered' \in Seq(Addr \X Nat)
      /\ Len(remembered) < MaxRemembered /\ Len(remembered') <= Len(remembered) + 1
      /\ Remembers(heap', o, n, remembered')
  BY <1>5, StoreRemembers
<1>8. Seen'
  BY <1>1, <1>3, <1>4, SoundSees
<1>9. heap' \in Heap
  BY <1>6, RestMeans
<1>10. AtRest'
  BY <1>2, <1>6, <1>7 DEF AtRest
<1>t. Len(remembered') <= MaxRemembered
  <2>1. Len(remembered) \in Nat /\ Len(remembered') \in Nat /\ MaxRemembered \in Nat
    BY <1>5, <1>7, RememberedAssumption
  <2> QED
    BY ONLY <1>7, <2>1
<1>11. Types'
  BY <1>2, <1>3, <1>6, <1>7, <1>9, <1>t DEF Types, CompactTypes, GenTypes
<1>12. GenPhase'
  BY <1>1, <1>2, <1>3, <1>4, <1>6, <1>8, <1>10 DEF GenPhase, Major, Walking
<1> QED
  BY <1>1, <1>6, <1>11, <1>12, QuietIInv DEF Quiet

-----------------------------------------------------------------------------
(* A minor collection.                                                      *)

\* Every offset of a minor collection is one of the heap.
LEMMA PromotingTypes ==
    ASSUME NEW h0, NEW rs0, NEW F, NEW h, NEW rs, NEW b, NEW n, NEW o,
           NEW q, NEW r, NEW e, NEW c, NEW s,
           Promoting(h0, rs0, F, h, rs, b, n, o, q, r, e, c, s)
    PROVE  /\ h \in Heap /\ rs \in [RootSlots -> Addr]
           /\ b \in Nat /\ o \in Nat /\ n \in Nat /\ h.watermark \in Nat
           /\ 2 <= b /\ b <= o /\ o + 4 <= n /\ n <= h.watermark /\ h.watermark <= HeapEnd
           /\ o \in Word /\ c \in Word /\ s \in Word
<1>1. /\ Filled(h0, rs0, b, n) /\ DOMAIN F \subseteq Headers(h0, n, h0.watermark)
      /\ Promoted(h0, F, h, b, n, o) /\ RootsTo(rs0, F, n, rs, r) /\ ScanAt(h, b, o, c, s)
  BY DEF Promoting
<1>2. Rest(h0, rs0, b, n)
  BY <1>1 DEF Filled
<1>3. /\ b \in Nat /\ n \in Nat /\ h0.watermark \in Nat /\ HeapEnd \in Nat
      /\ 2 <= b /\ n <= h0.watermark /\ h0.watermark <= HeapEnd
  BY <1>2, RestMeans
<1>4. o \in Nat /\ b <= o /\ o + 2 * Header <= n
  BY <1>1, CopiesWithin
<1>5. h \in Heap /\ h.watermark = h0.watermark /\ Tiled(h, b, o)
  BY <1>1 DEF Promoted
<1>6. rs \in [RootSlots -> Addr]
  BY <1>1 DEF RootsTo
<1>7. /\ c \in Headers(h, b, o) \cup {o} /\ s \in Nat
      /\ IF c = o THEN s = c + Header ELSE s <= c + ObjectWords(h, c)
  BY <1>1 DEF ScanAt
<1>8. c \in Nat /\ c <= o /\ s <= o + 2
  <2>1. CASE c = o
    BY <1>4, <1>7, <2>1
  <2>2. CASE c # o
    <3>1. c \in Headers(h, b, o) /\ s <= c + ObjectWords(h, c)
      BY <1>7, <2>2
    <3>2. /\ c \in Nat /\ c < o /\ ObjectWords(h, c) \in Nat /\ c + ObjectWords(h, c) <= o
      BY <1>3, <1>4, <1>5, <3>1, TiledWithin
    <3> QED
      BY ONLY <1>4, <1>7, <3>1, <3>2
  <2> QED
    BY <2>1, <2>2
<1>9. /\ b \in Nat /\ o \in Nat /\ n \in Nat /\ h.watermark \in Nat
      /\ 2 <= b /\ b <= o /\ o + 4 <= n /\ n <= h.watermark /\ h.watermark <= HeapEnd
  BY <1>3, <1>4, <1>5
<1>10. o \in Word /\ c \in Word /\ s \in Word
  BY ONLY <1>3, <1>7, <1>8, <1>9, Numbers DEF Word
<1> QED
  BY <1>5, <1>6, <1>9, <1>10

\* What holds during a minor collection.
LEMMA MinorMeans ==
    ASSUME IInv, pc = "minor"
    PROVE  /\ Types /\ frames = <<>> /\ nursery_start # 0 /\ req # NoReq
           /\ nursery_start \in Word /\ remembered \in Seq(Addr \X Nat)
           /\ Len(remembered) \in Nat /\ Len(remembered) <= MaxRemembered /\ MaxRemembered \in Nat
           /\ \E h0, rs0, F :
                 /\ Promoting(h0, rs0, F, heap, roots, old_before, nursery_start, old_frontier,
                              remembered, root, entry, copy_scan, copy_slot)
                 /\ Began(h0, rs0)
<1>1. Types /\ frames = <<>> /\ nursery_start # 0 /\ req # NoReq
  BY DEF IInv, GenPhase
<1>2. nursery_start \in Word /\ remembered \in Seq(Addr \X Nat) /\ Len(remembered) <= MaxRemembered
  BY <1>1 DEF Types, GenTypes
<1>3. Len(remembered) \in Nat /\ MaxRemembered \in Nat
  BY <1>2, RememberedAssumption
<1> QED
  BY <1>1, <1>2, <1>3 DEF IInv, Minor

\* A step within a minor collection.
LEMMA MinorStays ==
    ASSUME IInv, pc = "minor",
           UNCHANGED <<pc, req, out, net, view, frames, forward_map, scan, dest, nursery_start,
                       remembered, old_before, nursery_used>>,
           root' \in 1 .. NRoots + 1, entry' \in 1 .. MaxRemembered + 1,
           NEW h0, NEW rs0, Began(h0, rs0),
           \E F : Promoting(h0, rs0, F, heap', roots', old_before, nursery_start, old_frontier',
                            remembered, root', entry', copy_scan', copy_slot')
    PROVE  IInv'
<1>1. /\ Types /\ frames = <<>> /\ nursery_start # 0 /\ req # NoReq
  BY MinorMeans
<1>2. PICK F : Promoting(h0, rs0, F, heap', roots', old_before, nursery_start, old_frontier',
                         remembered, root', entry', copy_scan', copy_slot')
  OBVIOUS
<1>3. heap' \in Heap /\ old_frontier' \in Word /\ copy_scan' \in Word /\ copy_slot' \in Word
  BY <1>2, PromotingTypes
<1>4. Types'
  BY <1>1, <1>3 DEF Types, CompactTypes, GenTypes
<1>5. CompactPhase' /\ CompactTraced'
  BY DEF CompactPhase, CompactTraced, Walking
<1>6. GenPhase'
  BY <1>1 DEF GenPhase, Major, Walking
<1>7. Began(h0, rs0)'
  BY DEF Began
<1>8. Minor'
  BY <1>2, <1>7 DEF Minor
<1> QED
  BY <1>4, <1>5, <1>6, <1>8 DEF IInv

LEMMA MinorStartIInv ==
    ASSUME IInv, MinorStart
    PROVE  IInv'
<1>1. /\ pc = "collect" /\ ~NeedsMajor /\ pc' = "minor" /\ heap' = GapFilled
      /\ root' = 1 /\ entry' = 1 /\ copy_scan' = old_frontier /\ copy_slot' = old_frontier + Header
      /\ old_before' = old_frontier /\ nursery_used' = heap.watermark - nursery_start
      /\ UNCHANGED <<roots, req, out, net, view, frames, forward_map, scan, dest,
                     nursery_start, old_frontier, remembered>>
  BY DEF MinorStart, compactVars, genVars
<1>2. /\ Types /\ AtRest /\ Seen /\ frames = <<>> /\ nursery_start # 0 /\ req # NoReq
  BY <1>1 DEF IInv, GenPhase
<1>3. remembered \in Seq(Addr \X Nat)
  BY <1>2 DEF Types, GenTypes
<1>4. PICK F : Promoting(heap', roots, F, heap', roots, old_frontier, nursery_start,
                         old_frontier, remembered, 1, 1, old_frontier, old_frontier + Header)
  BY <1>1, <1>2, <1>3, MinorBegins
<1>5. Began(heap, roots)'
  BY <1>1, <1>2, <1>3, MinorBegins
<1>6. heap' \in Heap /\ old_frontier \in Word /\ old_frontier + Header \in Word
  BY <1>4, PromotingTypes
<1>7. nursery_used' \in Word
  BY <1>1, <1>2, RouterExact DEF AtRest
<1>8. root' \in 1 .. NRoots + 1 /\ entry' \in 1 .. MaxRemembered + 1
  BY <1>1, MutatorAssumption, RememberedAssumption DEF MutatorAssumption
<1>9. Types'
  BY <1>1, <1>2, <1>6, <1>7, <1>8 DEF Types, CompactTypes, GenTypes
<1>10. CompactPhase' /\ CompactTraced'
  BY <1>1 DEF CompactPhase, CompactTraced, Walking
<1>11. GenPhase'
  BY <1>1, <1>2 DEF GenPhase, Major, Walking
<1>12. Minor'
  <2>1. Promoting(heap', roots', F, heap', roots', old_before', nursery_start', old_frontier',
                  remembered', root', entry', copy_scan', copy_slot')
    BY <1>1, <1>4
  <2>2. \E h0, rs0 : Promoting(h0, rs0, F, heap', roots', old_before', nursery_start', old_frontier',
                  remembered', root', entry', copy_scan', copy_slot') /\ Began(h0, rs0)'
    BY <1>5, <2>1
  <2> QED
    BY <2>2 DEF Minor
<1> QED
  BY <1>9, <1>10, <1>11, <1>12 DEF IInv

LEMMA MinorRootIInv ==
    ASSUME IInv, MinorRoot
    PROVE  IInv'
<1> DEFINE p == ProcessObj(roots[root])
<1>1. /\ pc = "minor" /\ root \in RootSlots
      /\ roots' = [roots EXCEPT ![root] = p.ref] /\ heap' = p.heap /\ old_frontier' = p.frontier
      /\ root' = root + 1
      /\ UNCHANGED <<pc, req, out, net, view, frames, forward_map, scan, dest, nursery_start,
                     remembered, entry, copy_scan, copy_slot, old_before, nursery_used>>
  BY DEF MinorRoot, compactVars, minorVars
<1>2. /\ Types
      /\ \E h0, rs0, F :
            /\ Promoting(h0, rs0, F, heap, roots, old_before, nursery_start, old_frontier,
                         remembered, root, entry, copy_scan, copy_slot)
            /\ Began(h0, rs0)
  BY <1>1, MinorMeans
<1>3. PICK h0, rs0, F :
            /\ Promoting(h0, rs0, F, heap, roots, old_before, nursery_start, old_frontier,
                         remembered, root, entry, copy_scan, copy_slot)
            /\ Began(h0, rs0)
  BY <1>2
<1> HIDE DEF p
<1>p. p = ProcessObj(roots[root])
  BY DEF p
<1>4. \E F2 : Promoting(h0, rs0, F2, p.heap, roots', old_before, nursery_start, p.frontier,
                        remembered, root + 1, entry, copy_scan, copy_slot)
  BY <1>1, <1>3, <1>p, RootProcessed
<1>5. \E F2 : Promoting(h0, rs0, F2, heap', roots', old_before, nursery_start, old_frontier',
                        remembered, root', entry', copy_scan', copy_slot')
  BY <1>1, <1>4
<1>6. root' \in 1 .. NRoots + 1
  <2>1. NRoots \in Nat /\ root \in 1 .. NRoots
    BY <1>1, MutatorAssumption DEF MutatorAssumption, RootSlots
  <2> QED
    BY <1>1, <2>1
<1>7. entry' \in 1 .. MaxRemembered + 1
  BY <1>1, <1>2 DEF Types, GenTypes
<1> QED
  BY <1>1, <1>3, <1>5, <1>6, <1>7, MinorStays

LEMMA MinorRememberedIInv ==
    ASSUME IInv, MinorRemembered
    PROVE  IInv'
<1> DEFINE t == RememberedSlot(remembered[entry])
           p == ProcessObj(heap.word[t])
<1>1. /\ pc = "minor" /\ entry <= Len(remembered)
      /\ heap' = [p.heap EXCEPT !.word[t] = p.ref] /\ old_frontier' = p.frontier
      /\ entry' = entry + 1
      /\ UNCHANGED <<roots, pc, req, out, net, view, root, frames, forward_map, scan, dest,
                     nursery_start, remembered, copy_scan, copy_slot, old_before, nursery_used>>
  BY DEF MinorRemembered, RootsDone, ProcessSlotAt, compactVars, markVars
<1>2. /\ Types /\ remembered \in Seq(Addr \X Nat) /\ Len(remembered) \in Nat
      /\ Len(remembered) <= MaxRemembered /\ MaxRemembered \in Nat
      /\ \E h0, rs0, F :
            /\ Promoting(h0, rs0, F, heap, roots, old_before, nursery_start, old_frontier,
                         remembered, root, entry, copy_scan, copy_slot)
            /\ Began(h0, rs0)
  BY <1>1, MinorMeans
<1>3. PICK h0, rs0, F :
            /\ Promoting(h0, rs0, F, heap, roots, old_before, nursery_start, old_frontier,
                         remembered, root, entry, copy_scan, copy_slot)
            /\ Began(h0, rs0)
  BY <1>2
<1>4. entry \in 1 .. MaxRemembered + 1 /\ root \in 1 .. NRoots + 1
  BY <1>2 DEF Types, GenTypes, CompactTypes
<1>5. entry \in DOMAIN remembered /\ entry + 1 \in 1 .. MaxRemembered + 1
  <2>1. entry \in Nat /\ 1 <= entry
    BY <1>2, <1>4
  <2>2. DOMAIN remembered = 1 .. Len(remembered)
    BY <1>2
  <2>3. entry \in 1 .. Len(remembered) /\ entry + 1 \in 1 .. MaxRemembered + 1
    BY ONLY <1>1, <1>2, <2>1
  <2> QED
    BY <2>2, <2>3
<1> HIDE DEF p, t
<1>t. t = RememberedSlot(remembered[entry])
  BY DEF t
<1>p. p = ProcessObj(heap.word[t])
  BY DEF p
<1> DEFINE g == [p.heap EXCEPT !.word[t] = p.ref]
<1>6. g = [p.heap EXCEPT !.word[t] = p.ref]
  OBVIOUS
<1>7. heap' = g
  BY <1>1
<1> HIDE DEF g
<1>8. \E F2 : Promoting(h0, rs0, F2, g, roots, old_before, nursery_start, p.frontier,
                        remembered, root, entry + 1, copy_scan, copy_slot)
  BY ONLY <1>2, <1>3, <1>5, <1>t, <1>p, <1>6, EntryProcessed
<1>9. \E F2 : Promoting(h0, rs0, F2, heap', roots', old_before, nursery_start, old_frontier',
                        remembered, root', entry', copy_scan', copy_slot')
  BY <1>1, <1>7, <1>8
<1>10. root' \in 1 .. NRoots + 1 /\ entry' \in 1 .. MaxRemembered + 1
  BY <1>1, <1>4, <1>5
<1> QED
  BY <1>1, <1>3, <1>9, <1>10, MinorStays

LEMMA MinorSlotIInv ==
    ASSUME IInv, MinorSlot
    PROVE  IInv'
<1> DEFINE p == ProcessObj(heap.word[copy_slot])
<1>1. /\ pc = "minor" /\ copy_scan < old_frontier /\ copy_slot \in RefSlots(heap, copy_scan)
      /\ heap' = [p.heap EXCEPT !.word[copy_slot] = p.ref] /\ old_frontier' = p.frontier
      /\ copy_slot' = copy_slot + 1
      /\ UNCHANGED <<roots, pc, req, out, net, view, root, frames, forward_map, scan, dest,
                     nursery_start, remembered, entry, copy_scan, old_before, nursery_used>>
  BY DEF MinorSlot, ScanLoop, RootsDone, ProcessSlotAt, compactVars, markVars
<1>2. /\ Types
      /\ \E h0, rs0, F :
            /\ Promoting(h0, rs0, F, heap, roots, old_before, nursery_start, old_frontier,
                         remembered, root, entry, copy_scan, copy_slot)
            /\ Began(h0, rs0)
  BY <1>1, MinorMeans
<1>3. PICK h0, rs0, F :
            /\ Promoting(h0, rs0, F, heap, roots, old_before, nursery_start, old_frontier,
                         remembered, root, entry, copy_scan, copy_slot)
            /\ Began(h0, rs0)
  BY <1>2
<1> HIDE DEF p
<1>p. p = ProcessObj(heap.word[copy_slot])
  BY DEF p
<1> DEFINE g == [p.heap EXCEPT !.word[copy_slot] = p.ref]
<1>6. g = [p.heap EXCEPT !.word[copy_slot] = p.ref]
  OBVIOUS
<1>7. heap' = g
  BY <1>1
<1> HIDE DEF g
<1>8. \E F2 : Promoting(h0, rs0, F2, g, roots, old_before, nursery_start, p.frontier,
                        remembered, root, entry, copy_scan, copy_slot + 1)
  BY ONLY <1>1, <1>3, <1>p, <1>6, SlotProcessed
<1>9. \E F2 : Promoting(h0, rs0, F2, heap', roots', old_before, nursery_start, old_frontier',
                        remembered, root', entry', copy_scan', copy_slot')
  BY <1>1, <1>7, <1>8
<1>10. root' \in 1 .. NRoots + 1 /\ entry' \in 1 .. MaxRemembered + 1
  BY <1>1, <1>2 DEF Types, GenTypes, CompactTypes
<1> QED
  BY <1>1, <1>3, <1>9, <1>10, MinorStays

LEMMA MinorNextCopyIInv ==
    ASSUME IInv, MinorNextCopy
    PROVE  IInv'
<1> DEFINE d == copy_scan + ObjectWords(heap, copy_scan)
<1>1. /\ pc = "minor" /\ copy_scan < old_frontier /\ copy_slot \notin RefSlots(heap, copy_scan)
      /\ copy_scan' = d /\ copy_slot' = d + Header
      /\ UNCHANGED <<heap, roots, pc, req, out, net, view, root, frames, forward_map, scan, dest,
                     nursery_start, old_frontier, remembered, entry, old_before, nursery_used>>
  BY DEF MinorNextCopy, ScanLoop, RootsDone, AfterScan, compactVars, markVars, mutatorVars, genVars
<1>2. /\ Types
      /\ \E h0, rs0, F :
            /\ Promoting(h0, rs0, F, heap, roots, old_before, nursery_start, old_frontier,
                         remembered, root, entry, copy_scan, copy_slot)
            /\ Began(h0, rs0)
  BY <1>1, MinorMeans
<1>3. PICK h0, rs0, F :
            /\ Promoting(h0, rs0, F, heap, roots, old_before, nursery_start, old_frontier,
                         remembered, root, entry, copy_scan, copy_slot)
            /\ Began(h0, rs0)
  BY <1>2
<1>d. d = copy_scan + ObjectWords(heap, copy_scan)
  OBVIOUS
<1> HIDE DEF d
<1>8. Promoting(h0, rs0, F, heap, roots, old_before, nursery_start, old_frontier,
                remembered, root, entry, d, d + Header)
  BY <1>1, <1>3, <1>d, CopyScanned
<1>9. \E F2 : Promoting(h0, rs0, F2, heap', roots', old_before, nursery_start, old_frontier',
                        remembered, root', entry', copy_scan', copy_slot')
  BY <1>1, <1>8
<1>10. root' \in 1 .. NRoots + 1 /\ entry' \in 1 .. MaxRemembered + 1
  BY <1>1, <1>2 DEF Types, GenTypes, CompactTypes
<1> QED
  BY <1>1, <1>3, <1>9, <1>10, MinorStays

LEMMA MinorEndIInv ==
    ASSUME IInv, MinorEnd
    PROVE  IInv'
<1> DEFINE o == old_frontier
           n == nursery_start
           promoted == o - old_before
           g == Vacate(SetWatermark(heap, n), n, heap.watermark)
<1>1. /\ pc = "minor" /\ root > NRoots /\ entry > Len(remembered) /\ copy_scan >= o
      /\ pc' = "return" /\ heap' = g /\ remembered' = <<>>
      /\ out' = [moved   |-> promoted,
                 freed   |-> IF nursery_used > promoted THEN nursery_used - promoted ELSE 0,
                 live    |-> o - Base,
                 free    |-> HeapEnd - o,
                 largest |-> HeapEnd - o]
      /\ root' = 1 /\ entry' = 1 /\ copy_scan' = 0 /\ copy_slot' = 0
      /\ old_before' = 0 /\ nursery_used' = 0
      /\ UNCHANGED <<roots, req, net, view, frames, forward_map, scan, dest, nursery_start,
                     old_frontier>>
  BY DEF MinorEnd, ScanLoop, RootsDone, compactVars, RememberedAfter
<1>2. /\ Types /\ frames = <<>> /\ nursery_start # 0 /\ req # NoReq
      /\ remembered \in Seq(Addr \X Nat) /\ Len(remembered) \in Nat
      /\ \E h0, rs0, F :
            /\ Promoting(h0, rs0, F, heap, roots, old_before, n, o,
                         remembered, root, entry, copy_scan, copy_slot)
            /\ Began(h0, rs0)
  BY <1>1, MinorMeans
<1>3. PICK h0, rs0, F :
            /\ Promoting(h0, rs0, F, heap, roots, old_before, n, o,
                         remembered, root, entry, copy_scan, copy_slot)
            /\ Began(h0, rs0)
  BY <1>2
<1>4. /\ heap \in Heap /\ old_before \in Nat /\ o \in Nat /\ n \in Nat /\ heap.watermark \in Nat
      /\ 2 <= old_before /\ old_before <= o /\ o + 4 <= n /\ n <= heap.watermark
      /\ heap.watermark <= HeapEnd
  BY <1>3, PromotingTypes
<1>5. /\ entry \in 1 .. MaxRemembered + 1 /\ root \in 1 .. NRoots + 1 /\ nursery_used \in Word
      /\ copy_scan \in Word /\ HeapEnd \in Nat /\ NRoots \in Nat
      /\ NRoots + 1 \in 1 .. NRoots + 1 /\ 1 \in 1 .. MaxRemembered + 1 /\ 1 \in 1 .. NRoots + 1
  BY <1>2, Numbers, MutatorAssumption, RememberedAssumption
     DEF Types, GenTypes, CompactTypes, MutatorAssumption
<1>6. \A i \in RootSlots : i < root
  BY <1>1, <1>5 DEF RootSlots
<1>7. entry \in Nat /\ Len(remembered) < entry /\ ~(copy_scan < o)
  <2>1. entry \in Nat /\ copy_scan \in Nat
    BY <1>5, Numbers DEF Word
  <2> QED
    BY <1>1, <1>2, <1>4, <2>1
<1>8. Distinct(h0, Live(h0, rs0)) /\ view = ViewOf(h0, rs0)
  BY <1>3 DEF Began
<1>g. g = Vacate(SetWatermark(heap, n), n, heap.watermark)
  OBVIOUS
<1> HIDE DEF g
<1>9. /\ Rest(g, roots, o, n) /\ g.watermark = n /\ Remembers(g, o, n, <<>>)
      /\ ViewOf(g, roots) = ViewOf(h0, rs0) /\ Distinct(g, Live(g, roots))
  BY ONLY <1>2, <1>3, <1>6, <1>7, <1>8, <1>g, PromotionEnds
<1>10. AtRest' /\ heap'.watermark = nursery_start'
  BY <1>1, <1>9 DEF AtRest
<1>11. Seen'
  BY <1>1, <1>8, <1>9 DEF Seen
<1>12. out' \in Outs
  <2>1. nursery_used \in Nat
    BY <1>5, Numbers DEF Word
  <2>2. promoted \in Nat /\ o - Base \in Nat /\ HeapEnd - o \in Nat
    BY <1>4, <1>5
  <2> HIDE DEF promoted
  <2>3. (IF nursery_used > promoted THEN nursery_used - promoted ELSE 0) \in Nat
    BY <2>1, <2>2
  <2> QED
    BY <1>1, <2>2, <2>3 DEF Outs
<1>13. heap' \in Heap
  BY <1>1, <1>9, RestMeans
<1>14. remembered' \in Seq(Addr \X Nat) /\ Len(remembered') <= MaxRemembered
  <2>1. <<>> \in Seq(Addr \X Nat) /\ Len(<<>>) = 0 /\ MaxRemembered \in Nat
    BY RememberedAssumption
  <2> QED
    BY <1>1, <2>1
<1>15. Types'
  <2>1. 0 \in Word
    BY Numbers DEF Word
  <2> QED
    BY <1>1, <1>2, <1>5, <1>12, <1>13, <1>14, <2>1 DEF Types, CompactTypes, GenTypes
<1>16. GenPhase'
  BY <1>1, <1>2, <1>10, <1>11 DEF GenPhase, Major, Walking
<1>17. pc' \in Quiet
  BY <1>1 DEF Quiet
<1> QED
  BY <1>15, <1>16, <1>17, QuietIInv

-----------------------------------------------------------------------------
(* A major collection.                                                      *)

LEMMA MajorStartIInv ==
    ASSUME IInv, MajorStart
    PROVE  IInv'
<1>1. /\ pc = "collect" /\ pc' = "mark" /\ heap' = GapFilled
      /\ UNCHANGED <<roots, req, out, net, view, root, frames, forward_map, scan, dest,
                     nursery_start, old_frontier, remembered, entry, copy_scan, copy_slot,
                     old_before, nursery_used>>
  BY DEF MajorStart, collectorVars, markVars, compactVars, genVars, minorVars
<1>2. /\ Types /\ AtRest /\ Seen /\ root = 1 /\ frames = <<>> /\ nursery_start # 0
      /\ req # NoReq /\ out.moved = 0
  BY <1>1 DEF IInv, GenPhase
<1>3. /\ MarkInv' /\ MarkPrecise' /\ Seen' /\ NoForwards(heap')
      /\ heap' \in Heap /\ ~heap'.tag[GC_NULL].ref
  BY <1>1, <1>2, MajorBegins
<1>4. Types'
  BY <1>1, <1>2, <1>3 DEF Types, CompactTypes, GenTypes
<1>5. CompactPhase' /\ CompactTraced'
  BY <1>1, <1>2, <1>3 DEF CompactPhase, CompactTraced, Walking
<1>6. GenPhase'
  BY <1>1, <1>2, <1>3 DEF GenPhase, Major, Walking
<1>7. Minor'
  BY <1>1 DEF Minor
<1> QED
  BY <1>4, <1>5, <1>6, <1>7 DEF IInv

LEMMA CompactIInv ==
    ASSUME IInv, CompactStep, UNCHANGED <<genVars, minorVars>>
    PROVE  IInv'
<1>1. CompactInv /\ CompactTraced /\ Types /\ GenPhase
  BY DEF IInv, Types, CompactInv
<1>2. CompactInv' /\ pc \in {"mark"} \cup Walking /\ pc' \in {"mark"} \cup Walking
  BY <1>1, CompactStepKeeps
<1>3. CompactTraced'
  BY <1>1, CompactStepTraced
<1>4. NoForwards(heap)
  BY <1>1, <1>2 DEF GenPhase, Major
<1>5. NoForwards(heap')
  BY <1>1, <1>4, CompactStepForwards
<1>6. UNCHANGED req
  BY DEF CompactStep, VisitRoot, VisitRef, LocateStart, LocateStep, UpdateRoots, UpdateStep,
         RelocateStart, RelocateStep, mutatorVars
<1>7. UNCHANGED <<nursery_start, old_frontier, remembered, entry, copy_scan, copy_slot,
                  old_before, nursery_used>>
  BY DEF genVars, minorVars
<1>8. Types'
  BY <1>1, <1>2, <1>7 DEF Types, CompactInv, GenTypes, Walking
<1>9. CompactPhase'
  BY <1>2 DEF CompactInv
<1>10. nursery_start # 0 /\ req # NoReq
  BY <1>1, <1>2 DEF GenPhase, Walking
<1>11. pc' # "mark" => root' = 1 /\ frames' = <<>>
  BY <1>2, <1>9 DEF CompactPhase, Walking
<1>12. pc' \in {"mark", "locate"} => Seen'
  BY <1>3 DEF CompactTraced
<1>13. GenPhase'
  BY <1>2, <1>5, <1>6, <1>7, <1>10, <1>11, <1>12 DEF GenPhase, Major, Walking
<1>14. Minor'
  BY <1>2 DEF Minor, Walking
<1> QED
  BY <1>3, <1>8, <1>9, <1>13, <1>14 DEF IInv

LEMMA CompactEndIInv ==
    ASSUME IInv, CompactEnd("majorEnd"), UNCHANGED <<genVars, minorVars>>
    PROVE  IInv'
<1>1. CompactInv /\ CompactTraced /\ Types /\ GenPhase
  BY DEF IInv, Types, CompactInv
<1>2. /\ WellFormed(heap', roots', Base, heap'.watermark) /\ NoMarks(heap')
      /\ ~heap'.tag[GC_NULL].ref /\ CompactTypes' /\ pc = "relocate" /\ pc' = "majorEnd"
      /\ root = 1 /\ frames = <<>> /\ UNCHANGED <<root, frames, roots, req>>
  BY <1>1, CompactEndKeeps
<1>3. Seen' /\ Headers(heap', Base, heap'.watermark) = Live(heap', roots')
  BY <1>1, CompactEndTraced
<1>4. NoForwards(heap)
  BY <1>1, <1>2 DEF GenPhase, Major, Walking
<1>5. NoForwards(heap')
  BY <1>1, <1>4, CompactEndForwards
<1>6. UNCHANGED <<nursery_start, old_frontier, remembered, entry, copy_scan, copy_slot,
                  old_before, nursery_used>>
  BY DEF genVars, minorVars
<1>7. Types'
  BY <1>1, <1>2, <1>6 DEF Types, GenTypes
<1>8. CompactPhase' /\ CompactTraced'
  BY <1>2 DEF CompactPhase, CompactTraced, Walking
<1>9. nursery_start # 0 /\ req # NoReq
  BY <1>1, <1>2 DEF GenPhase
<1>10. GenPhase'
  BY <1>2, <1>3, <1>5, <1>6, <1>9 DEF GenPhase, Major, Walking
<1>11. Minor'
  BY <1>2 DEF Minor
<1> QED
  BY <1>7, <1>8, <1>10, <1>11 DEF IInv

LEMMA MajorEndIInv ==
    ASSUME IInv, MajorEnd
    PROVE  IInv'
<1> DEFINE w == heap.watermark
           room == HeapEnd - w
           n == w + (HeapEnd - w) \div 2
           g == SetWatermark(heap, n)
<1>1. /\ pc = "majorEnd" /\ pc' = "return" /\ old_frontier' = w
      /\ out' = [out EXCEPT !.free = room, !.largest = room]
      /\ IF w + 2 * Header > HeapEnd
         THEN UNCHANGED <<heap, nursery_start, remembered>>
         ELSE nursery_start' = n /\ heap' = g /\ remembered' = <<>>
      /\ UNCHANGED <<roots, req, net, view, root, frames, forward_map, scan, dest,
                     entry, copy_scan, copy_slot, old_before, nursery_used>>
  BY DEF MajorEnd, markVars, compactVars, minorVars, RememberedAfter
<1>2. /\ Types /\ WellFormed(heap, roots, Base, w) /\ NoMarks(heap) /\ NoForwards(heap)
      /\ ~heap.tag[GC_NULL].ref /\ Seen /\ Headers(heap, Base, w) = Live(heap, roots)
      /\ nursery_start # 0 /\ req # NoReq /\ root = 1 /\ frames = <<>>
  BY <1>1 DEF IInv, GenPhase, Major
<1>3. /\ heap \in Heap /\ w \in Nat /\ w <= HeapEnd /\ w \in Word /\ out \in Outs /\ HeapEnd \in Nat
  BY <1>2, Numbers DEF Types, CompactTypes, Heap, Word
<1>4. room \in Nat
  BY <1>3
<1>5. out' \in Outs
  BY <1>1, <1>3, <1>4 DEF Outs
<1>6. pc' \in Quiet
  BY <1>1 DEF Quiet
<1>7. CASE w + 2 * Header > HeapEnd
  <2>1. UNCHANGED <<heap, nursery_start, remembered>>
    BY <1>1, <1>7
  <2>2. Full'
    BY <1>1, <1>2, <1>7, <2>1 DEF Full
  <2>3. Seen'
    BY <1>1, <1>2, <2>1 DEF Seen
  <2>4. Types'
    BY <1>1, <1>2, <1>3, <1>5, <2>1 DEF Types, CompactTypes, GenTypes
  <2>5. GenPhase'
    BY <1>1, <1>2, <2>1, <2>2, <2>3 DEF GenPhase, Major, Walking
  <2> QED
    BY <1>6, <2>4, <2>5, QuietIInv
<1>8. CASE ~(w + 2 * Header > HeapEnd)
  <2>1. nursery_start' = n /\ heap' = g /\ remembered' = <<>>
    BY <1>1, <1>8
  <2>2. w + 2 * Header <= HeapEnd
    BY <1>3, <1>8
  <2>n. n = w + (HeapEnd - w) \div 2
    OBVIOUS
  <2>g. g = SetWatermark(heap, n)
    OBVIOUS
  <2> HIDE DEF n, g
  <2>3. /\ Rest(g, roots, w, n) /\ g.watermark = n
        /\ n \in Word /\ n # 0
        /\ Remembers(g, w, n, <<>>)
        /\ ViewOf(g, roots) = ViewOf(heap, roots) /\ Distinct(g, Live(g, roots))
    BY <1>2, <2>2, <2>n, <2>g, MajorEnds
  <2>4. AtRest' /\ heap'.watermark = nursery_start'
    BY <1>1, <2>1, <2>3 DEF AtRest
  <2>5. Seen'
    BY <1>1, <1>2, <2>1, <2>3 DEF Seen
  <2>6. heap' \in Heap
    BY <2>1, <2>3, RestMeans
  <2>7. remembered' \in Seq(Addr \X Nat) /\ Len(remembered') <= MaxRemembered
    <3>1. <<>> \in Seq(Addr \X Nat) /\ Len(<<>>) = 0 /\ MaxRemembered \in Nat
      BY RememberedAssumption
    <3> QED
      BY <2>1, <3>1
  <2>8. Types'
    BY <1>1, <1>2, <1>3, <1>5, <2>1, <2>3, <2>6, <2>7 DEF Types, CompactTypes, GenTypes
  <2>9. GenPhase'
    BY <1>1, <1>2, <2>1, <2>3, <2>4, <2>5 DEF GenPhase, Major, Walking
  <2> QED
    BY <1>6, <2>8, <2>9, QuietIInv
<1> QED
  BY <1>7, <1>8

LEMMA CollectReturnIInv ==
    ASSUME IInv, CollectReturn, UNCHANGED collectorVars
    PROVE  IInv'
<1>1. /\ pc = "return" /\ net' = (IF CountBytes THEN net - out.freed ELSE 0) /\ out' = ZeroOut
      /\ pc' = (IF req = NoReq THEN "run" ELSE "retry")
      /\ UNCHANGED <<heap, roots, req, view, root, frames, forward_map, scan, dest,
                     nursery_start, old_frontier, remembered, entry, copy_scan, copy_slot,
                     old_before, nursery_used>>
  BY DEF CollectReturn, collectorVars, markVars, compactVars, genVars, minorVars
<1>2. /\ Types /\ Seen /\ root = 1 /\ frames = <<>> /\ nursery_start # 0
      /\ (AtRest /\ heap.watermark = nursery_start) \/ Full
      /\ req # NoReq
  BY <1>1, RetryMeans
<1>3. pc' = "retry" /\ pc' \in Quiet
  BY <1>1, <1>2 DEF Quiet
<1>4. net' \in Int /\ out' \in Outs
  BY <1>1, <1>2 DEF Types, CompactTypes, Outs, ZeroOut
<1>5. Types'
  BY <1>1, <1>2, <1>3, <1>4 DEF Types, CompactTypes, GenTypes
<1>6. (AtRest => AtRest') /\ (Full => Full') /\ Seen'
  BY <1>1, <1>2 DEF AtRest, Full, Seen
<1>7. GenPhase'
  BY <1>1, <1>2, <1>3, <1>6 DEF GenPhase, Major, Walking
<1> QED
  BY <1>3, <1>5, <1>7, QuietIInv

-----------------------------------------------------------------------------
(* The invariant.                                                           *)

LEMMA InitIInv == Init => IInv
<1> SUFFICES ASSUME Init PROVE IInv
  OBVIOUS
<1>1. /\ MutatorInit /\ MarkInit /\ CompactInit
      /\ nursery_start = 0 /\ old_frontier = 0 /\ remembered = <<>>
      /\ entry = 1 /\ copy_scan = 0 /\ copy_slot = 0 /\ old_before = 0 /\ nursery_used = 0
  BY DEF Init
<1>2. /\ WellFormed(heap, roots, Base, Base) /\ heap.watermark = Base
      /\ ~heap.tag[GC_NULL].ref /\ \A a \in Addr : heap.tag[a] = NoTag
      /\ pc = "run" /\ req = NoReq /\ req \in Request /\ out \in Outs /\ net \in Int
  BY <1>1, InitHeap DEF MutatorInit
<1>3. root = 1 /\ frames = <<>> /\ scan = SENTINEL /\ dest = Base
      /\ forward_map = [i \in Addr |-> Unwritten]
  BY <1>1 DEF MarkInit, CompactInit
<1>4. NoForwards(heap)
  BY <1>2 DEF NoForwards, NoTag
<1>5. Fresh
  BY <1>1, <1>2, <1>4 DEF Fresh
<1>6. Seen
  BY <1>1, InitSeen
<1>7. Types
  <2>1. root \in 1 .. NRoots + 1 /\ frames \in Seq(Frame) /\ 1 \in 1 .. MaxRemembered + 1
    BY <1>3, MutatorAssumption, RememberedAssumption DEF MutatorAssumption
  <2>2. dest \in Base .. HeapEnd /\ 0 \in Word
    BY <1>3, Numbers DEF Word
  <2>3. heap \in Heap
    BY <1>2 DEF WellFormed
  <2>4. <<>> \in Seq(Addr \X Nat) /\ Len(<<>>) <= MaxRemembered
    BY RememberedAssumption
  <2> QED
    BY <1>1, <1>2, <1>3, <2>1, <2>2, <2>3, <2>4 DEF Types, CompactTypes, GenTypes
<1>8. CompactPhase /\ CompactTraced /\ Minor
  BY <1>2 DEF CompactPhase, CompactTraced, Minor, Walking
<1>9. GenPhase
  BY <1>2, <1>3, <1>5, <1>6 DEF GenPhase, Major, Walking
<1> QED
  BY <1>7, <1>8, <1>9 DEF IInv

\* A step that changes nothing.
LEMMA StutterIInv ==
    ASSUME IInv, UNCHANGED vars
    PROVE  IInv'
<1>1. UNCHANGED <<heap, roots, pc, req, out, net, view, root, frames, forward_map, scan, dest,
                  nursery_start, old_frontier, remembered, entry, copy_scan, copy_slot,
                  old_before, nursery_used>>
  BY DEF vars, mutatorVars, markVars, compactVars, genVars, minorVars
<1>2. (MarkInv => MarkInv') /\ (MarkPrecise => MarkPrecise') /\ (Seen => Seen') /\ Marked' = Marked
  BY <1>1 DEF MarkInv, MarkPrecise, Marked, Arrays, Seen
<1>3. \A h0, rs0 : Began(h0, rs0) => Began(h0, rs0)'
  BY <1>1 DEF Began
<1>4. (AtRest => AtRest') /\ (Fresh => Fresh') /\ (Full => Full')
  BY <1>1 DEF AtRest, Fresh, Full
<1>5. Types'
  BY <1>1 DEF IInv, Types, CompactTypes, GenTypes
<1>6. CompactPhase'
  BY <1>1, <1>2 DEF IInv, CompactPhase
<1>7. CompactTraced'
  BY <1>1, <1>2, <1>3 DEF IInv, CompactTraced
<1>8. GenPhase'
  BY <1>1, <1>2, <1>4 DEF IInv, GenPhase
<1>9. Minor'
  BY <1>1, <1>3 DEF IInv, Minor
<1> QED
  BY <1>5, <1>6, <1>7, <1>8, <1>9 DEF IInv

LEMMA NextIInv == LargeArrays /\ NoWrap /\ IInv /\ [Next]_vars => IInv'
<1> SUFFICES ASSUME LargeArrays, NoWrap, IInv, [Next]_vars PROVE IInv'
  OBVIOUS
<1>1. CASE Program
  <2>1. CASE \E r \in RootSlots, length \in Lengths, ref \in Kinds, id \in FreshIds :
                NewArray(r, length, ref, id)
    BY <2>1, NewArrayIInv
  <2>2. CASE \E r, s \in RootSlots, k \in Elements : StoreRef(r, k, s)
    BY <2>2, StoreRefIInv
  <2>3. CASE ProgramStep /\ UNCHANGED collectorVars
    BY <2>3, ProgramIInv
  <2>4. CASE GCInstruction
    BY <2>4 DEF GCInstruction, LargeArrays
  <2> QED
    BY <1>1, <2>1, <2>2, <2>3, <2>4 DEF Program
<1>2. CASE CollectorStep
  <2>1. CASE \/ MinorStart \/ MinorRoot \/ MinorRemembered \/ MinorSlot \/ MinorNextCopy \/ MinorEnd
    BY <2>1, MinorStartIInv, MinorRootIInv, MinorRememberedIInv, MinorSlotIInv,
       MinorNextCopyIInv, MinorEndIInv
  <2>2. CASE MajorStart \/ MajorEnd
    BY <2>2, MajorStartIInv, MajorEndIInv
  <2>3. CASE (CompactStep \/ CompactEnd("majorEnd")) /\ UNCHANGED <<genVars, minorVars>>
    BY <2>3, CompactIInv, CompactEndIInv
  <2>4. CASE CollectReturn /\ UNCHANGED collectorVars
    BY <2>4, CollectReturnIInv
  <2>5. CASE \E id \in FreshIds : Retry(id)
    BY <2>5, RetryIInv
  <2> QED
    BY <1>2, <2>1, <2>2, <2>3, <2>4, <2>5 DEF CollectorStep
<1>3. CASE UNCHANGED vars
  BY <1>3, StutterIInv
<1> QED
  BY <1>1, <1>2, <1>3 DEF Next

LEMMA AlwaysIInv ==
    ASSUME LargeArrays, NoWrap
    PROVE  Spec => []IInv
<1>1. IInv /\ [Next]_vars => IInv'
  BY NextIInv
<1> QED
  BY <1>1, InitIInv, PTL DEF Spec

-----------------------------------------------------------------------------
(* What the runs check, for every value of the constants.                   *)

\* The offsets a root may hold are addresses in every phase.
LEMMA RootsAreAddresses == IInv => roots \in [RootSlots -> Addr]
<1> SUFFICES ASSUME IInv PROVE roots \in [RootSlots -> Addr]
  OBVIOUS
<1>1. Types /\ GenPhase /\ CompactPhase
  BY DEF IInv
<1>2. ASSUME NEW start, NEW end, WellFormed(heap, roots, start, end)
      PROVE  roots \in [RootSlots -> Addr]
  BY <1>2, WellFormedTypes
<1>3. ASSUME AtRest PROVE roots \in [RootSlots -> Addr]
  <2>1. Sound(heap, roots, Generations(heap, old_frontier, nursery_start))
    BY <1>3 DEF AtRest, Rest
  <2>2. GC_NULL \in Addr
    BY Numbers DEF Addr
  <2> QED
    BY <2>1, <2>2 DEF Sound
<1>4. CASE pc \in Walking
  BY <1>1, <1>4, CompactRoots DEF Types, CompactInv
<1>5. CASE pc = "mark"
  <2>1. WellFormed(heap, roots, Base, heap.watermark)
    BY <1>1, <1>5 DEF CompactPhase, MarkInv
  <2> QED
    BY <1>2, <2>1
<1>6. CASE pc = "minor"
  <2>1. \E h0, rs0, F : Promoting(h0, rs0, F, heap, roots, old_before, nursery_start, old_frontier,
                                  remembered, root, entry, copy_scan, copy_slot)
    BY <1>6, MinorMeans
  <2> QED
    BY <2>1, PromotingTypes
<1>7. CASE pc = "majorEnd"
  <2>1. WellFormed(heap, roots, Base, heap.watermark)
    BY <1>1, <1>7 DEF GenPhase
  <2> QED
    BY <1>2, <2>1
<1>8. CASE pc \in Quiet
  <2>1. Fresh \/ AtRest \/ Full
    BY <1>1, <1>8 DEF GenPhase, Quiet
  <2> QED
    BY <1>2, <1>3, <2>1 DEF Fresh, Full
<1> QED
  BY <1>1, <1>4, <1>5, <1>6, <1>7, <1>8 DEF Types, Walking, Quiet

\* The types the runs check.
LEMMA TypesHold == IInv => TypeOK
<1> SUFFICES ASSUME IInv PROVE TypeOK
  OBVIOUS
<1>1. Types /\ roots \in [RootSlots -> Addr]
  BY RootsAreAddresses DEF IInv
<1>2. DOMAIN out = DOMAIN ZeroOut /\ \A f \in DOMAIN out : out[f] \in Nat
  BY <1>1 DEF Types, CompactTypes, Outs, ZeroOut
<1> QED
  BY <1>1, <1>2 DEF TypeOK, MutatorTypeOK, CompactTypeOK, MarkTypeOK, Types, CompactTypes, GenTypes

\* While the program runs over generations that are laid out, they are at rest.
LEMMA LaidOutMeans ==
    ASSUME IInv, LaidOut
    PROVE  /\ Rest(heap, roots, old_frontier, nursery_start)
           /\ Remembers(heap, old_frontier, nursery_start, remembered)
           /\ OldArrays = Headers(heap, Base, old_frontier)
           /\ YoungArrays = Headers(heap, nursery_start, heap.watermark)
<1>1. AtRest
  BY DEF IInv, GenPhase, LaidOut, Fresh
<1>2. /\ Rest(heap, roots, old_frontier, nursery_start)
      /\ Remembers(heap, old_frontier, nursery_start, remembered)
  BY <1>1 DEF AtRest
<1>3. \A a \in Generations(heap, old_frontier, nursery_start) : ~heap.tag[a].free
  BY <1>2 DEF Rest
<1>4. OldArrays = Headers(heap, Base, old_frontier)
  BY <1>3 DEF OldArrays, Allocated, Generations
<1>5. YoungArrays = Headers(heap, nursery_start, heap.watermark)
  BY <1>3 DEF YoungArrays, Allocated, Generations
<1> QED
  BY <1>2, <1>4, <1>5

\* For every heap and every program of larger arrays, the variables of generational.c keep
\* their types.
THEOREM GenerationalTypeOK ==
    ASSUME LargeArrays, NoWrap
    PROVE  Spec => []TypeOK
<1>1. IInv => TypeOK
  BY TypesHold
<1> QED
  BY <1>1, AlwaysIInv, PTL

\* Between collections both generations are walkable, in order and with room between them,
\* no mark or forwarding is left over, and no reference dangles.
THEOREM GenerationalHeapIntact ==
    ASSUME LargeArrays, NoWrap
    PROVE  Spec => []HeapIntact
<1>1. IInv => HeapIntact
  <2> SUFFICES ASSUME IInv PROVE HeapIntact
    OBVIOUS
  <2>1. ASSUME LaidOut
        PROVE  /\ Base <= old_frontier
               /\ old_frontier + Header <= nursery_start
               /\ Tiled(heap, Base, old_frontier)
               /\ Tiled(heap, nursery_start, heap.watermark)
               /\ \A a \in OldArrays \cup YoungArrays : ~IsMarked(heap, a) /\ ~IsForwarded(heap, a)
               /\ ReferencesValid(OldArrays \cup YoungArrays)
    <3> DEFINE A == Generations(heap, old_frontier, nursery_start)
    <3>1. Rest(heap, roots, old_frontier, nursery_start) /\ OldArrays \cup YoungArrays = A
      BY <2>1, LaidOutMeans DEF Generations
    <3>2. /\ Base <= old_frontier /\ old_frontier + Header <= nursery_start
          /\ Tiled(heap, Base, old_frontier) /\ Tiled(heap, nursery_start, heap.watermark)
          /\ \A a \in A : ~heap.tag[a].marked
          /\ Sound(heap, roots, A) /\ NoForwards(heap)
      BY <3>1 DEF Rest
    <3> HIDE DEF A
    <3>3. \A a \in A : ~IsMarked(heap, a) /\ ~IsForwarded(heap, a)
      BY <3>2 DEF Sound, NoForwards, IsMarked, IsForwarded
    <3>4. ReferencesValid(A)
      BY <3>2 DEF Sound, ReferencesValid
    <3> QED
      BY <3>1, <3>2, <3>3, <3>4
  <2> QED
    BY <2>1, TypesHold DEF HeapIntact
<1> QED
  BY <1>1, AlwaysIInv, PTL

\* The write barrier and the rebuilding of the remembered set agree with the heap: every slot
\* of an old array that holds a nursery array is remembered, and nothing but slots of old
\* arrays is.
THEOREM GenerationalRememberedExact ==
    ASSUME LargeArrays, NoWrap
    PROVE  Spec => []RememberedExact
<1>1. IInv => RememberedExact
  <2> SUFFICES ASSUME IInv, LaidOut
               PROVE  /\ \A a \in OldArrays : \A s \in RefSlots(heap, a) :
                            heap.word[s] >= nursery_start =>
                               \E e \in ToSet(remembered) : RememberedSlot(e) = s
                      /\ \A e \in ToSet(remembered) :
                            e[1] \in OldArrays /\ RememberedSlot(e) \in RefSlots(heap, e[1])
    BY DEF RememberedExact
  <2>1. /\ Remembers(heap, old_frontier, nursery_start, remembered)
        /\ OldArrays = Headers(heap, Base, old_frontier)
    BY LaidOutMeans
  <2>2. ToSet(remembered) = {remembered[i] : i \in DOMAIN remembered}
    BY DEF ToSet
  <2>3. ASSUME NEW a \in OldArrays, NEW s \in RefSlots(heap, a), heap.word[s] >= nursery_start
        PROVE  \E e \in ToSet(remembered) : RememberedSlot(e) = s
    <3>1. PICK i \in DOMAIN remembered : RememberedSlot(remembered[i]) = s
      BY <2>1, <2>3 DEF Remembers
    <3> QED
      BY <2>2, <3>1
  <2>4. ASSUME NEW e \in ToSet(remembered)
        PROVE  e[1] \in OldArrays /\ RememberedSlot(e) \in RefSlots(heap, e[1])
    <3>1. PICK i \in DOMAIN remembered : e = remembered[i]
      BY <2>2
    <3> QED
      BY <2>1, <3>1 DEF Remembers, Entries
  <2> QED
    BY <2>3, <2>4
<1> QED
  BY <1>1, AlwaysIInv, PTL

\* Promotion never fills the old generation, so split_block always leaves a remainder:
\* the headroom the router asks for outlives every copy.
THEOREM GenerationalHeadroomKept ==
    ASSUME LargeArrays, NoWrap
    PROVE  Spec => []HeadroomKept
<1>1. IInv => HeadroomKept
  <2> SUFFICES ASSUME IInv, pc = "minor" PROVE nursery_start - old_frontier >= 2 * Header
    BY DEF HeadroomKept
  <2>1. \E h0, rs0, F : Promoting(h0, rs0, F, heap, roots, old_before, nursery_start, old_frontier,
                                  remembered, root, entry, copy_scan, copy_slot)
    BY MinorMeans
  <2>2. old_frontier \in Nat /\ nursery_start \in Nat /\ old_frontier + 4 <= nursery_start
    BY <2>1, PromotingTypes
  <2> QED
    BY ONLY <2>2
<1> QED
  BY <1>1, AlwaysIInv, PTL

\* A major collection runs the same compaction: the marks find all that is reached, the
\* forwarding entries are those of this collection, and sliding overwrites no array that is
\* still to be moved.
THEOREM GenerationalMajorSafe ==
    ASSUME LargeArrays, NoWrap
    PROVE  Spec => [](TriColour /\ ForwardExact /\ SlideSafe)
<1>1. IInv => TriColour /\ ForwardExact /\ SlideSafe
  <2> SUFFICES ASSUME IInv PROVE TriColour /\ ForwardExact /\ SlideSafe
    OBVIOUS
  <2>1. CompactInv
    BY DEF IInv, Types, CompactInv
  <2>2. TriColour
    BY <2>1, MarkInvMeans DEF CompactInv, CompactPhase
  <2> QED
    BY <2>1, <2>2, CompactForwards, CompactSlides
<1> QED
  BY <1>1, AlwaysIInv, PTL

\* The router's unsigned differences are the differences: a minor collection starts only when
\* the old generation has room for the whole nursery and two headers.
THEOREM GenerationalMinorHasRoom ==
    ASSUME LargeArrays, NoWrap
    PROVE  Spec => MinorHasRoom
<1> DEFINE HasRoom == pc = "collect" /\ pc' = "minor" =>
                      heap.watermark - nursery_start + 2 * Header <= nursery_start - old_frontier
<1>1. IInv /\ [Next]_vars => HasRoom
  <2> SUFFICES ASSUME IInv, [Next]_vars, pc = "collect", pc' = "minor"
               PROVE  heap.watermark - nursery_start + 2 * Header <= nursery_start - old_frontier
    OBVIOUS
  <2>1. MinorStart
    BY DEF Next, Program, CollectorStep, NewArray, StoreRef, AIAStore, AllocFirst, Retry, AllocRetry,
           ProgramStep, AIALoad, IAStore, Pop, GCInstruction, CollectReturn, MinorRoot,
           MinorRemembered, MinorSlot, MinorNextCopy, RootsDone, ScanLoop, MinorEnd, MajorStart,
           MajorEnd, CompactStep, CompactEnd, VisitRoot, VisitRef, LocateStart, MarkDone, LocateStep,
           UpdateRoots, UpdateStep, RelocateStart, RelocateStep, vars, mutatorVars
  <2>2. ~NeedsMajor /\ Rest(heap, roots, old_frontier, nursery_start)
    BY <2>1 DEF MinorStart, IInv, GenPhase, AtRest
  <2>3. /\ old_frontier \in Nat /\ nursery_start \in Nat /\ heap.watermark \in Nat
    BY <2>2, RestMeans
  <2>4. old_frontier + (heap.watermark - nursery_start) + 2 * Header <= nursery_start
    BY <2>2, RouterExact
  <2> QED
    BY ONLY <2>3, <2>4 DEF Header
<1>2. Spec => [][HasRoom]_vars
  BY <1>1, AlwaysIInv, PTL DEF Spec
<1> QED
  BY <1>2 DEF MinorHasRoom

\* The program runs out of memory only when the array does not fit in an empty nursery, or
\* when the arrays it still reaches leave less than two headers.
THEOREM GenerationalOomMeansNurseryTooSmall ==
    ASSUME LargeArrays, NoWrap
    PROVE  Spec => OomMeansNurseryTooSmall
<1> DEFINE Small == (pc = "retry" /\ pc' = "oom") =>
                       \/ nursery_start + Header + req.length > HeapEnd
                       \/ old_frontier + 2 * Header > HeapEnd
<1>1. IInv /\ [Next]_vars => Small
  <2> SUFFICES ASSUME IInv, [Next]_vars, pc = "retry", pc' = "oom"
               PROVE  \/ nursery_start + Header + req.length > HeapEnd
                      \/ old_frontier + 2 * Header > HeapEnd
    OBVIOUS
  <2>1. PICK id \in FreshIds : Retry(id)
    BY DEF Next, Program, CollectorStep, NewArray, StoreRef, AIAStore, AllocFirst,
           ProgramStep, AIALoad, IAStore, Pop, GCInstruction, CollectReturn, MinorStart, MinorRoot,
           MinorRemembered, MinorSlot, MinorNextCopy, RootsDone, ScanLoop, MinorEnd, MajorStart,
           MajorEnd, CompactStep, CompactEnd, VisitRoot, VisitRef, LocateStart, MarkDone, LocateStep,
           UpdateRoots, UpdateStep, RelocateStart, RelocateStep, vars, mutatorVars
  <2> DEFINE a == RawAlloc(heap, req.length, req.ref, id)
  <2>a. a = RawAlloc(heap, req.length, req.ref, id)
    OBVIOUS
  <2> HIDE DEF a
  <2>2. /\ AllocRetry(a) /\ req.length \in Nat
        /\ a.ref = SENTINEL => ~Fits(heap, req.length)
    BY <2>1, <2>a, RetryEffect
  <2>3. a.ref = SENTINEL
    BY <2>2 DEF AllocRetry
  <2>4. (AtRest /\ heap.watermark = nursery_start) \/ Full
    BY RetryMeans
  <2>5. CASE AtRest /\ heap.watermark = nursery_start
    <3>1. ~(nursery_start + Header + req.length <= HeapEnd)
      BY <2>2, <2>3, <2>5 DEF Fits
    <3>2. nursery_start \in Nat /\ HeapEnd \in Nat
      <4>1. Rest(heap, roots, old_frontier, nursery_start)
        BY <2>5 DEF AtRest
      <4> QED
        BY <4>1, RestMeans
    <3> QED
      BY ONLY <2>2, <3>1, <3>2 DEF Header
  <2>6. CASE Full
    BY <2>6 DEF Full
  <2> QED
    BY <2>4, <2>5, <2>6
<1>2. Spec => [][Small]_vars
  BY <1>1, AlwaysIInv, PTL DEF Spec
<1> QED
  BY <1>2 DEF OomMeansNurseryTooSmall

\* For every heap and every program of larger arrays, neither promotion nor compaction shows:
\* every root leads to the array it led to, whose elements lead to theirs.
THEOREM GenerationalViewPreserved ==
    ASSUME LargeArrays, NoWrap
    PROVE  Spec => []ViewPreserved
<1>1. IInv => ViewPreserved
  <2> SUFFICES ASSUME IInv, pc \in {"run", "retry", "oom"}
               PROVE  /\ view = ViewOf(heap, roots)
                      /\ \A a, b \in LiveRefs : heap.tag[a].id = heap.tag[b].id => a = b
    BY DEF ViewPreserved
  <2>1. Seen
    BY DEF IInv, GenPhase
  <2> QED
    BY <2>1, SeenMeans
<1> QED
  BY <1>1, AlwaysIInv, PTL

-----------------------------------------------------------------------------
(* The abstract heap.                                                       *)

\* A root that waits for the array stays null while the roots are rewritten.
LEMMA NextWaiting == Waiting /\ [Next]_vars => Waiting'
<1> SUFFICES ASSUME Waiting, [Next]_vars PROVE Waiting'
  OBVIOUS
<1>0. req \in Request /\ (req # NoReq => roots[req.slot] = GC_NULL)
  BY DEF Waiting
<1>1. req # NoReq => req.slot \in RootSlots
  BY <1>0 DEF Request
<1>2. CASE UpdateRoots
  <2>1. UNCHANGED req /\ pc' = "update" /\ roots' = [r \in RootSlots |-> Updated(roots[r])]
    BY <1>2 DEF UpdateRoots
  <2>2. req # NoReq => roots'[req.slot] = GC_NULL
    BY <1>0, <1>1, <2>1 DEF Updated
  <2> QED
    BY <1>0, <2>1, <2>2 DEF Waiting
<1>3. CASE MinorRoot
  <2>1. /\ pc = "minor" /\ UNCHANGED <<pc, req>>
        /\ roots' = [roots EXCEPT ![root] = ProcessObj(roots[root]).ref]
    BY <1>3 DEF MinorRoot
  <2>2. ProcessObj(GC_NULL).ref = GC_NULL
    BY DEF ProcessObj
  <2>3. req # NoReq => roots'[req.slot] = GC_NULL
    BY <1>0, <2>1, <2>2
  <2> QED
    BY <1>0, <2>1, <2>3 DEF Waiting
<1>4. CASE ~UpdateRoots /\ ~MinorRoot
  <2>1. \/ \E r \in RootSlots, length \in Lengths, ref \in Kinds : \E a : AllocFirst(r, length, ref, a)
        \/ \E a : AllocRetry(a)
        \/ GCInstruction \/ CollectReturn
        \/ ProgramStep \/ \E r, s \in RootSlots, k \in Elements : AIAStore(r, k, s)
        \/ UNCHANGED <<roots, req>> /\ (pc' = pc \/ pc' \notin {"run", "retry"})
    BY <1>4 DEF Next, Program, CollectorStep, CompactStep, NewArray, Retry, StoreRef, MinorStart,
           MinorRemembered, MinorSlot, MinorNextCopy, MinorEnd, MajorStart, MajorEnd, LocateStart,
           LocateStep, UpdateStep, RelocateStart, RelocateStep, CompactEnd, VisitRoot, VisitRef,
           vars, mutatorVars
  <2> QED
    BY <2>1, WaitingKept
<1> QED
  BY <1>2, <1>3, <1>4

\* Each step of the program is one of AbstractHeap, and no step of a collection is.
LEMMA NextIsAbstract ==
    ASSUME LargeArrays, NoWrap, IInv, Waiting, [Next]_vars
    PROVE  [Abstract!Next]_(Abstract!vars)
<1> SUFFICES Abstract!Next \/ UNCHANGED view
  BY DEF Abstract!vars
<1>1. ASSUME NEW r \in RootSlots, NEW length \in Lengths, NEW ref \in Kinds,
             NEW id \in FreshIds, NewArray(r, length, ref, id)
      PROVE  Abstract!Next \/ UNCHANGED view
  <2> DEFINE h == IF nursery_start = 0 THEN SetWatermark(heap, nursery_start') ELSE heap
             a == RawAlloc(h, length, ref, id)
             o == old_frontier'
             n == nursery_start'
  <2>1. length \in Nat /\ ref \in BOOLEAN /\ id \in Ids \cup {NoId}
    BY AskedTypes
  <2>2. /\ LayOut /\ AllocFirst(r, length, ref, a) /\ pc = "run" /\ heap' = a.heap
        /\ roots[r] = GC_NULL
    BY <1>1 DEF NewArray, Alloc, AllocFirst
  <2>3. Types /\ GenPhase /\ Seen /\ (Fresh \/ (nursery_start # 0 /\ AtRest))
    BY <2>2, RunMeans
  <2>4. Ready(h, o, n)
    BY <2>2, <2>3, LayOutEffect
  <2>a. a = RawAlloc(h, length, ref, id)
    OBVIOUS
  <2> HIDE DEF h, a, o, n
  <2>5. CASE a.ref = SENTINEL
    BY <2>2, <2>5 DEF AllocFirst
  <2>6. CASE a.ref # SENTINEL
    <3>1. /\ roots \in [RootSlots -> Addr] /\ Readable(heap, Live(heap, roots))
          /\ \A b \in Live(heap, roots) : Unmoved(heap, a.heap, b)
          /\ Zeroed(a.heap, a.ref, length, ArrayTag(ref, id))
      BY <2>1, <2>4, <2>6, <2>a, ReadyBump
    <3>2. Push(r, a)
      BY <2>2, <2>6 DEF AllocFirst
    <3>3. Abstract!New(r)
      BY <2>1, <2>2, <2>3, <3>1, <3>2, PushIsNew
    <3> QED
      BY <3>3, NewIsAbstract
  <2> QED
    BY <2>5, <2>6
<1>2. ASSUME NEW id \in FreshIds, Retry(id) PROVE Abstract!Next \/ UNCHANGED view
  <2> DEFINE a == RawAlloc(heap, req.length, req.ref, id)
             r == req.slot
             length == req.length
             ref == req.ref
  <2>a. a = RawAlloc(heap, length, ref, id)
    OBVIOUS
  <2>1. pc = "retry"
    BY <1>2 DEF Retry, AllocRetry
  <2>2. /\ r \in RootSlots /\ roots[r] = GC_NULL
        /\ length \in Lengths /\ length \in Nat /\ ref \in BOOLEAN
    BY <2>1, WaitingMeans
  <2>3. Seen
    BY <2>1, RetryMeans
  <2>4. /\ AllocRetry(a) /\ heap' = a.heap /\ id \in Ids \cup {NoId}
        /\ a.ref # SENTINEL => Ready(heap, old_frontier, nursery_start)
    BY <1>2, RetryEffect
  <2>5. a.ref # SENTINEL => Push(r, a)
    BY <2>4 DEF AllocRetry
  <2>6. a.ref = SENTINEL => UNCHANGED view
    BY <2>4 DEF AllocRetry
  <2> HIDE DEF a, r, length, ref
  <2>7. CASE a.ref # SENTINEL
    <3>1. /\ roots \in [RootSlots -> Addr] /\ Readable(heap, Live(heap, roots))
          /\ \A b \in Live(heap, roots) : Unmoved(heap, a.heap, b)
          /\ Zeroed(a.heap, a.ref, length, ArrayTag(ref, id))
      BY <2>2, <2>4, <2>7, <2>a, ReadyBump
    <3>2. Abstract!New(r)
      BY <2>2, <2>3, <2>4, <2>5, <2>7, <3>1, PushIsNew
    <3> QED
      BY <2>2, <3>2, NewIsAbstract
  <2> QED
    BY <2>6, <2>7
<1>3. CASE ProgramStep \/ \E r, s \in RootSlots, k \in Elements : AIAStore(r, k, s)
  <2>1. pc = "run"
    BY <1>3 DEF ProgramStep, AIALoad, IAStore, Pop, AIAStore
  <2>2. Sound(heap, roots, Generations(heap, old_frontier, nursery_start))
    BY <1>3, <2>1, ProgramRests
  <2>3. Seen
    BY <2>1, RunMeans
  <2> QED
    BY <1>3, <2>2, <2>3, SoundIsAbstract
<1>4. CASE UNCHANGED view
  BY <1>4
<1> QED
  BY <1>1, <1>2, <1>3, <1>4
     DEF Next, Program, CollectorStep, CompactStep, StoreRef, MinorStart, MinorRoot,
         MinorRemembered, MinorSlot, MinorNextCopy, MinorEnd, MajorStart, MajorEnd, LocateStart,
         LocateStep, UpdateRoots, UpdateStep, RelocateStart, RelocateStep, CompactEnd,
         CollectReturn, VisitRoot, VisitRef, GCInstruction, Stop, vars, mutatorVars

\* The generational collector implements AbstractHeap: the program's instructions do there
\* what they do here, and no collection of either kind does anything there.
THEOREM GenerationalRefinesAbstract ==
    ASSUME LargeArrays, NoWrap
    PROVE  Spec => RefinesAbstract
<1>1. Init => Waiting /\ Abstract!Init
  BY InitWaiting, InitIsAbstract DEF Init
<1>2. IInv /\ Waiting /\ [Next]_vars => [Abstract!Next]_(Abstract!vars)
  BY NextIsAbstract
<1> QED
  BY <1>1, <1>2, NextWaiting, AlwaysIInv, PTL DEF Spec, RefinesAbstract, Abstract!Spec
=============================================================================
