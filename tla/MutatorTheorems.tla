--------------------------- MODULE MutatorTheorems ---------------------------
(***************************************************************************)
(* What every collector's proof rests on. The first part is about the host *)
(* services: what they do to the type of the heap, to its tiling by        *)
(* chunks, and to the words outside the chunk they write. The second is    *)
(* about the running program, whatever the collector: a heap is well       *)
(* formed when it is walkable and no root and no element of an allocated   *)
(* array dangles, and every instruction keeps it so.                       *)
(***************************************************************************)
EXTENDS Mutator, FiniteSetsExt, FiniteSetTheorems, WellFoundedInduction, TLAPS

USE DEF Header, Base, GC_NULL

\* What a service that formats the words of [a, end) does inside and outside.
Cleared(g, a, end) == \A x \in Addr : x > a /\ x < end => g.word[x] = 0 /\ g.tag[x] = NoTag
Untouched(h, g, a, end) ==
    \A x \in Addr : x < a \/ x >= end => g.word[x] = h.word[x] /\ g.tag[x] = h.tag[x]

\* The constants as numbers.
LEMMA Numbers ==
    /\ HeapEnd \in Nat /\ W \in Nat /\ HeapEnd > 4 /\ HeapEnd < W - 2
    /\ Addr \subseteq Word /\ Addr \subseteq Nat /\ Word \subseteq Nat
    /\ SENTINEL \in Word /\ SENTINEL \notin Addr /\ Stale \in Word
  BY HeapAssumption DEF HeapAssumption, Addr, Word, SENTINEL, Stale

\* The tags the services write are tags.
LEMMA TagTypes ==
    /\ NoTag \in Tag /\ FreeTag \in Tag
    /\ \A b \in BOOLEAN, i \in Ids \cup {NoId} : ArrayTag(b, i) \in Tag
  BY DEF Tag, NoTag, FreeTag, ArrayTag

\* A header and its zeroed elements leave a heap, with only those words changed.
LEMMA InitObjectEffect ==
    ASSUME NEW h \in Heap, NEW a \in Addr, NEW length \in Word, NEW tag \in Tag,
           NEW g, g = InitObject(h, a, length, tag)
    PROVE  /\ g \in Heap
           /\ g.watermark = h.watermark
           /\ g.word[a] = length /\ g.tag[a] = tag
           /\ Cleared(g, a, a + Header + length)
           /\ Untouched(h, g, a, a + Header + length)
<1> DEFINE end == a + Header + length
           word == [x \in Addr |-> IF x = a THEN length
                                   ELSE IF x > a /\ x < end THEN 0 ELSE h.word[x]]
           tags == [x \in Addr |-> IF x = a THEN tag
                                   ELSE IF x > a /\ x < end THEN NoTag ELSE h.tag[x]]
<1>1. h = [word |-> h.word, tag |-> h.tag, watermark |-> h.watermark]
      /\ h.word \in [Addr -> Word] /\ h.tag \in [Addr -> Tag] /\ h.watermark \in 0 .. HeapEnd
  BY DEF Heap
<1>2. g = [word |-> word, tag |-> tags, watermark |-> h.watermark]
  BY <1>1 DEF InitObject
<1>3. 0 \in Word
  BY Numbers DEF Word
<1>4. word \in [Addr -> Word]
  BY <1>1, <1>3
<1>5. tags \in [Addr -> Tag]
  BY <1>1, TagTypes
<1>6. g \in Heap
  BY <1>1, <1>2, <1>4, <1>5 DEF Heap
<1>7. a \in Nat /\ length \in Nat
  BY Numbers
<1>8. \A x \in Addr : x \in Nat
  BY Numbers
<1>9. g.word = word /\ g.tag = tags
  BY <1>2
<1>10. Cleared(g, a, a + Header + length)
  BY <1>7, <1>8, <1>9 DEF Cleared
<1>11. Untouched(h, g, a, a + Header + length)
  BY <1>7, <1>8, <1>9 DEF Untouched
<1> QED
  BY <1>2, <1>6, <1>10, <1>11

LEMMA SetWatermarkType ==
    ASSUME NEW h \in Heap, NEW w \in 0 .. HeapEnd
    PROVE  /\ SetWatermark(h, w) \in Heap
           /\ SetWatermark(h, w).watermark = w
           /\ SetWatermark(h, w).word = h.word
           /\ SetWatermark(h, w).tag = h.tag
  BY DEF SetWatermark, Heap

\* gc_host_make_free_block over [a, end).
LEMMA MakeFreeBlockEffect ==
    ASSUME NEW h \in Heap, NEW a \in Addr, NEW end \in Nat, a + Header <= end, end <= HeapEnd,
           NEW g, g = MakeFreeBlock(h, a, end)
    PROVE  /\ g \in Heap
           /\ g.watermark = h.watermark
           /\ g.word[a] = end - a - Header /\ g.tag[a] = FreeTag
           /\ Cleared(g, a, end) /\ Untouched(h, g, a, end)
<1> DEFINE length == end - a - Header
           tag == FreeTag
<1>1. a \in Nat /\ length \in Word /\ tag \in Tag
  BY Numbers, TagTypes DEF Word
<1>2. g = InitObject(h, a, length, tag)
  BY DEF MakeFreeBlock
<1>3. a + Header + length = end
  BY <1>1
<1> HIDE DEF length, tag
<1>4. /\ g \in Heap /\ g.watermark = h.watermark
      /\ g.word[a] = length /\ g.tag[a] = tag
      /\ Cleared(g, a, a + Header + length) /\ Untouched(h, g, a, a + Header + length)
  BY <1>1, <1>2, InitObjectEffect
<1> QED
  BY <1>3, <1>4 DEF length, tag
-----------------------------------------------------------------------------
(* Tilings.                                                                 *)

\* Where the headers of a region are.
LEMMA HeadersWithin ==
    ASSUME NEW h, NEW start, NEW end, NEW a \in Headers(h, start, end)
    PROVE  a \in Addr /\ a \in Nat /\ start <= a /\ a < end /\ h.tag[a].head
  BY Numbers DEF Headers

\* What a word of a heap and a chunk's size are.
LEMMA WordTypes ==
    ASSUME NEW h \in Heap, NEW a \in Addr
    PROVE  /\ h.word[a] \in Word /\ h.word[a] \in Nat /\ h.tag[a] \in Tag
           /\ h.tag[a].head \in BOOLEAN /\ h.tag[a].free \in BOOLEAN
           /\ h.tag[a].ref \in BOOLEAN /\ h.tag[a].marked \in BOOLEAN
           /\ ObjectWords(h, a) = 2 + h.word[a] /\ ObjectLength(h, a) = h.word[a]
<1>1. h.word[a] \in Word /\ h.tag[a] \in Tag
  BY DEF Heap
<1> QED
  BY <1>1, Numbers DEF Tag, ObjectWords, ObjectLength

\* A chunk is at least a header long.
LEMMA ChunkSize ==
    ASSUME NEW h \in Heap
    PROVE  \A a \in Addr : ObjectWords(h, a) \in Nat /\ ObjectWords(h, a) >= Header
  BY WordTypes

\* A header of a tiled region, with its chunk, lies in the region.
LEMMA TiledWithin ==
    ASSUME NEW h \in Heap, NEW start \in Nat, NEW end \in Nat, Tiled(h, start, end),
           NEW a \in Headers(h, start, end)
    PROVE  /\ a \in Addr /\ a \in Nat /\ start <= a /\ a < end
           /\ ObjectWords(h, a) \in Nat /\ ObjectWords(h, a) >= Header
           /\ a + ObjectWords(h, a) <= end
           /\ \A x \in Headers(h, start, end) : ~(a < x /\ x < a + ObjectWords(h, a))
<1>1. /\ a \in Addr /\ start <= a /\ a < end
      /\ h.word[a] \in Word
  BY DEF Headers, Heap
<1>2. a \in Nat /\ h.word[a] \in Nat /\ ObjectWords(h, a) = 2 + h.word[a]
  BY <1>1, Numbers DEF ObjectWords
<1>3. \A x \in Headers(h, start, end) : x < end /\ x \in Nat
  BY Numbers DEF Headers
<1>4. a + ObjectWords(h, a) \in Headers(h, start, end) \cup {end}
  BY DEF Tiled
<1>5. \A x \in Headers(h, start, end) : a < x => a + ObjectWords(h, a) <= x
  BY DEF Tiled
<1>6. ObjectWords(h, a) \in Nat /\ ObjectWords(h, a) >= Header
  BY <1>2
<1>7. a + ObjectWords(h, a) <= end
  BY <1>2, <1>3, <1>4, <1>6
<1>8. \A x \in Headers(h, start, end) : ~(a < x /\ x < a + ObjectWords(h, a))
  BY <1>2, <1>3, <1>5, <1>6
<1> QED
  BY <1>1, <1>2, <1>6, <1>7, <1>8

\* The headers of a region are those of its two parts.
LEMMA HeadersJoin ==
    ASSUME NEW h \in Heap, NEW start \in Nat, NEW mid \in Nat, NEW end \in Nat,
           start <= mid, mid <= end
    PROVE  Headers(h, start, end) = Headers(h, start, mid) \cup Headers(h, mid, end)
<1>1. \A x \in Addr : x \in Nat
  BY Numbers
<1>2. \A x : x \in Headers(h, start, end) <=>
                x \in Headers(h, start, mid) \/ x \in Headers(h, mid, end)
  BY <1>1 DEF Headers
<1> QED
  BY <1>2

\* Two tiled regions in a row make one.
LEMMA TiledJoin ==
    ASSUME NEW h \in Heap, NEW start \in Nat, NEW mid \in Nat, NEW end \in Nat,
           start <= mid, mid <= end, Tiled(h, start, mid), Tiled(h, mid, end)
    PROVE  Tiled(h, start, end)
<1> DEFINE L == Headers(h, start, mid)
           R == Headers(h, mid, end)
           H == Headers(h, start, end)
<1>1. H = L \cup R
  BY HeadersJoin
<1>2. /\ start \in L \cup {mid}
      /\ \A a \in L : a + ObjectWords(h, a) \in L \cup {mid}
      /\ \A a, b \in L : a < b => a + ObjectWords(h, a) <= b
  BY DEF Tiled
<1>3. /\ mid \in R \cup {end}
      /\ \A a \in R : a + ObjectWords(h, a) \in R \cup {end}
      /\ \A a, b \in R : a < b => a + ObjectWords(h, a) <= b
  BY DEF Tiled
<1>4. \A a \in L : a \in Nat /\ a < mid /\ ObjectWords(h, a) \in Nat
                   /\ a + ObjectWords(h, a) <= mid
  BY TiledWithin
<1>5. \A b \in R : b \in Nat /\ b >= mid /\ ObjectWords(h, b) \in Nat
  BY TiledWithin
<1>6. start \in H \cup {end}
  BY <1>1, <1>2, <1>3
<1>7. \A a \in H : a + ObjectWords(h, a) \in H \cup {end}
  BY <1>1, <1>2, <1>3
<1>8. \A a, b \in H : a < b => a + ObjectWords(h, a) <= b
  <2> SUFFICES ASSUME NEW a \in H, NEW b \in H, a < b
               PROVE  a + ObjectWords(h, a) <= b
    OBVIOUS
  <2>1. CASE a \in L /\ b \in R
    BY <2>1, <1>4, <1>5
  <2>2. CASE a \in L /\ b \in L
    BY <2>2, <1>2
  <2>3. CASE a \in R /\ b \in R
    BY <2>3, <1>3
  <2>4. CASE a \in R /\ b \in L
    BY <2>4, <1>4, <1>5
  <2> QED
    BY <1>1, <2>1, <2>2, <2>3, <2>4
<1> QED
  BY <1>6, <1>7, <1>8 DEF Tiled

\* A tiled region splits where a chunk begins.
LEMMA TiledCut ==
    ASSUME NEW h \in Heap, NEW start \in Nat, NEW end \in Nat, start <= end,
           Tiled(h, start, end), NEW mid \in Headers(h, start, end) \cup {end}
    PROVE  Tiled(h, start, mid) /\ Tiled(h, mid, end)
<1> DEFINE L == Headers(h, start, mid)
           R == Headers(h, mid, end)
           H == Headers(h, start, end)
<1>1. mid \in Nat /\ start <= mid /\ mid <= end
  BY TiledWithin
<1>2. H = L \cup R
  BY <1>1, HeadersJoin
<1>3. /\ start \in H \cup {end}
      /\ \A a \in H : a + ObjectWords(h, a) \in H \cup {end}
      /\ \A a, b \in H : a < b => a + ObjectWords(h, a) <= b
  BY DEF Tiled
<1>4. \A a \in H : a \in Nat /\ a < end /\ ObjectWords(h, a) \in Nat /\ ObjectWords(h, a) >= 2
  BY TiledWithin
<1>5. /\ \A a : a \in L <=> a \in H /\ a < mid
      /\ \A a : a \in R <=> a \in H /\ a >= mid
  <2>1. \A x \in Addr : x \in Nat
    BY Numbers
  <2>2. \A a \in Addr : a \in L <=> a \in H /\ a < mid
    BY <1>1, <2>1 DEF Headers
  <2>3. \A a \in Addr : a \in R <=> a \in H /\ a >= mid
    BY <1>1, <2>1 DEF Headers
  <2>4. \A a : a \in L \/ a \in R \/ a \in H => a \in Addr
    BY DEF Headers
  <2> QED
    BY <2>2, <2>3, <2>4
<1>6. \A a \in L : a + ObjectWords(h, a) \in L \cup {mid}
  <2> SUFFICES ASSUME NEW a \in L
               PROVE  a + ObjectWords(h, a) \in L \cup {mid}
    OBVIOUS
  <2>1. a \in H /\ a < mid
    BY <1>5
  <2>2. a + ObjectWords(h, a) <= mid
    BY <2>1, <1>1, <1>3, <1>4
  <2> QED
    BY <2>1, <2>2, <1>1, <1>3, <1>4, <1>5
<1>7. \A a \in R : a + ObjectWords(h, a) \in R \cup {end}
  BY <1>1, <1>3, <1>4, <1>5
<1>8. start \in L \cup {mid}
  BY <1>1, <1>3, <1>5
<1>9. mid \in R \cup {end}
  BY <1>1, <1>5
<1> QED
  BY <1>2, <1>3, <1>6, <1>7, <1>8, <1>9 DEF Tiled

\* An empty region is tiled.
LEMMA TiledEmpty ==
    ASSUME NEW h, NEW end \in Nat
    PROVE  Headers(h, end, end) = {} /\ Tiled(h, end, end)
<1>1. \A x \in Addr : ~(end <= x /\ x < end)
  BY Numbers
<1> QED
  BY <1>1 DEF Tiled, Headers

\* One chunk tiles the words it covers.
LEMMA TiledOne ==
    ASSUME NEW h \in Heap, NEW a \in Addr, NEW end \in Nat, h.tag[a].head,
           a + ObjectWords(h, a) = end,
           \A x \in Addr : a < x /\ x < end => ~h.tag[x].head
    PROVE  Headers(h, a, end) = {a} /\ Tiled(h, a, end)
<1>1. a \in Nat /\ h.word[a] \in Nat
  BY Numbers DEF Heap
<1>2. a < end
  BY <1>1 DEF ObjectWords
<1>3. \A x \in Addr : x \in Nat
  BY Numbers
<1>4. \A x \in Addr : x \in Headers(h, a, end) <=> x = a
  BY <1>1, <1>2, <1>3 DEF Headers
<1>5. Headers(h, a, end) \subseteq Addr
  BY DEF Headers
<1>6. Headers(h, a, end) = {a}
  BY <1>4, <1>5
<1> QED
  BY <1>6, <1>1 DEF Tiled

\* A tiling depends on the headers of its region only.
LEMMA TiledSame ==
    ASSUME NEW h, NEW g, NEW start \in Nat, NEW end \in Nat,
           \A x \in Addr : start <= x /\ x < end =>
              /\ g.tag[x].head <=> h.tag[x].head
              /\ h.tag[x].head => g.word[x] = h.word[x]
    PROVE  /\ Headers(g, start, end) = Headers(h, start, end)
           /\ Tiled(h, start, end) => Tiled(g, start, end)
<1>1. Headers(g, start, end) = Headers(h, start, end)
  BY DEF Headers
<1>2. \A a \in Headers(h, start, end) : ObjectWords(g, a) = ObjectWords(h, a)
  BY DEF Headers, ObjectWords
<1> QED
  BY <1>1, <1>2 DEF Tiled

\* What is written elsewhere does not disturb a tiling.
LEMMA TiledAside ==
    ASSUME NEW h, NEW g, NEW a \in Nat, NEW next \in Nat, Untouched(h, g, a, next),
           NEW start \in Nat, NEW end \in Nat, end <= a \/ start >= next
    PROVE  /\ Headers(g, start, end) = Headers(h, start, end)
           /\ Tiled(h, start, end) => Tiled(g, start, end)
<1>1. ASSUME NEW x \in Addr, start <= x, x < end
      PROVE  g.word[x] = h.word[x] /\ g.tag[x] = h.tag[x]
  <2>1. x \in Nat
    BY Numbers
  <2>2. x < a \/ x >= next
    BY <2>1, <1>1
  <2> QED
    BY <2>2 DEF Untouched
<1>2. Headers(g, start, end) = Headers(h, start, end)
  BY <1>1 DEF Headers
<1>3. \A x \in Headers(h, start, end) : ObjectWords(g, x) = ObjectWords(h, x)
  BY <1>1 DEF Headers, ObjectWords
<1> QED
  BY <1>2, <1>3 DEF Tiled

\* Formatting one chunk over some neighbouring ones keeps a region tiled.
LEMMA FormatTiled ==
    ASSUME NEW h \in Heap, NEW start \in Nat, NEW end \in Nat, start <= end,
           Tiled(h, start, end),
           NEW a \in Headers(h, start, end), NEW next \in Headers(h, start, end) \cup {end},
           NEW g \in Heap, g.tag[a].head, a + ObjectWords(g, a) = next,
           Cleared(g, a, next), Untouched(h, g, a, next)
    PROVE  /\ Tiled(g, start, end)
           /\ \A x : x \in Headers(g, start, end) <=>
                 x = a \/ (x \in Headers(h, start, end) /\ ~(a <= x /\ x < next))
<1>1. a \in Addr /\ a \in Nat /\ start <= a /\ a < end
  BY TiledWithin
<1>2. next \in Nat /\ next <= end
  BY HeadersWithin
<1>3. a < next
  BY <1>1, <1>2, WordTypes
<1>4. Tiled(h, start, a) /\ Tiled(h, next, end)
  BY TiledCut
<1>5. Headers(g, start, a) = Headers(h, start, a) /\ Tiled(g, start, a)
  BY <1>1, <1>2, <1>4, TiledAside
<1>6. Headers(g, next, end) = Headers(h, next, end) /\ Tiled(g, next, end)
  BY <1>1, <1>2, <1>4, TiledAside
<1>7. Headers(g, a, next) = {a} /\ Tiled(g, a, next)
  <2>1. \A x \in Addr : a < x /\ x < next => ~g.tag[x].head
    BY <1>1, <1>2, Numbers DEF NoTag, Cleared
  <2> QED
    BY <2>1, <1>1, <1>2, TiledOne
<1>8. Tiled(g, a, end) /\ Headers(g, a, end) = {a} \cup Headers(h, next, end)
  BY <1>1, <1>2, <1>3, <1>6, <1>7, TiledJoin, HeadersJoin
<1>9. Tiled(g, start, end) /\ Headers(g, start, end)
          = Headers(h, start, a) \cup {a} \cup Headers(h, next, end)
  BY <1>1, <1>2, <1>3, <1>5, <1>8, TiledJoin, HeadersJoin
<1>10. Headers(h, start, end)
          = Headers(h, start, a) \cup Headers(h, a, next) \cup Headers(h, next, end)
  BY <1>1, <1>2, <1>3, HeadersJoin
<1>11. /\ \A x \in Headers(h, start, a) : x \in Nat /\ x < a
       /\ \A x \in Headers(h, a, next) : x \in Nat /\ a <= x /\ x < next
       /\ \A x \in Headers(h, next, end) : x \in Nat /\ next <= x
  BY Numbers DEF Headers
<1>12. ASSUME NEW x, x \in Headers(h, start, end), ~(a <= x /\ x < next)
       PROVE  x \in Headers(g, start, end)
  BY <1>12, <1>9, <1>10, <1>11
<1>13. ASSUME NEW x, x \in Headers(g, start, end), x # a
       PROVE  x \in Headers(h, start, end) /\ ~(a <= x /\ x < next)
  BY <1>13, <1>1, <1>2, <1>3, <1>9, <1>10, <1>11
<1>14. a \in Headers(g, start, end)
  BY <1>9
<1> QED
  BY <1>9, <1>12, <1>13, <1>14

\* A chunk written over some neighbouring ones: the region stays tiled, and
\* nothing outside the new chunk changes.
LEMMA OverlayOne ==
    ASSUME NEW h \in Heap, NEW start \in Nat, NEW end \in Nat, start <= end, end <= HeapEnd,
           Tiled(h, start, end),
           NEW a \in Headers(h, start, end), NEW next \in Headers(h, start, end) \cup {end},
           NEW length \in Word, a + Header + length = next, NEW tag \in Tag, tag.head,
           NEW g, g = InitObject(h, a, length, tag)
    PROVE  /\ g \in Heap /\ g.watermark = h.watermark
           /\ g.word[a] = length /\ g.tag[a] = tag /\ a + ObjectWords(g, a) = next
           /\ Cleared(g, a, next) /\ Untouched(h, g, a, next)
           /\ Tiled(g, start, end)
           /\ \A x : x \in Headers(g, start, end) <=>
                 x = a \/ (x \in Headers(h, start, end) /\ ~(a <= x /\ x < next))
<1>1. a \in Addr /\ a \in Nat /\ length \in Nat
  BY HeadersWithin, Numbers
<1>2. /\ g \in Heap /\ g.watermark = h.watermark /\ g.word[a] = length /\ g.tag[a] = tag
      /\ Cleared(g, a, a + Header + length) /\ Untouched(h, g, a, a + Header + length)
  BY <1>1, InitObjectEffect
<1>3. Cleared(g, a, next) /\ Untouched(h, g, a, next)
  BY <1>2
<1>4. g.tag[a].head /\ a + ObjectWords(g, a) = next
  BY <1>1, <1>2 DEF ObjectWords
<1>5. /\ Tiled(g, start, end)
      /\ \A x : x \in Headers(g, start, end) <=>
            x = a \/ (x \in Headers(h, start, end) /\ ~(a <= x /\ x < next))
  <2>1. /\ h \in Heap /\ start \in Nat /\ end \in Nat /\ start <= end /\ Tiled(h, start, end)
        /\ a \in Headers(h, start, end) /\ next \in Headers(h, start, end) \cup {end}
        /\ g \in Heap /\ g.tag[a].head /\ a + ObjectWords(g, a) = next
        /\ Cleared(g, a, next) /\ Untouched(h, g, a, next)
    BY <1>2, <1>3, <1>4
  <2> QED
    BY ONLY <2>1, FormatTiled
<1> QED
  BY <1>2, <1>3, <1>4, <1>5

\* The same with a free chunk behind the new one.
LEMMA OverlayTwo ==
    ASSUME NEW h \in Heap, NEW start \in Nat, NEW end \in Nat, start <= end, end <= HeapEnd,
           Tiled(h, start, end),
           NEW a \in Headers(h, start, end), NEW next \in Headers(h, start, end) \cup {end},
           NEW length \in Word, NEW b, b = a + Header + length, b + Header <= next,
           NEW tag \in Tag, tag.head,
           NEW g, g = MakeFreeBlock(InitObject(h, a, length, tag), b, next)
    PROVE  /\ g \in Heap /\ g.watermark = h.watermark
           /\ b \in Addr /\ b \in Nat /\ a \in Nat /\ a < b /\ b < next
           /\ g.word[a] = length /\ g.tag[a] = tag /\ a + ObjectWords(g, a) = b
           /\ g.tag[b] = FreeTag /\ b + ObjectWords(g, b) = next
           /\ Cleared(g, a, b) /\ Cleared(g, b, next) /\ Untouched(h, g, a, next)
           /\ Tiled(g, start, end)
           /\ \A x : x \in Headers(g, start, end) <=>
                 x = a \/ x = b \/ (x \in Headers(h, start, end) /\ ~(a <= x /\ x < next))
<1> DEFINE i == InitObject(h, a, length, tag)
<1>1. a \in Addr /\ a \in Nat /\ length \in Nat /\ next \in Nat /\ next <= HeapEnd
  BY HeadersWithin, Numbers
<1>2. b \in Nat /\ a < b /\ b < next /\ b \in Addr
  BY <1>1, Numbers DEF Addr
<1>3. g = MakeFreeBlock(i, b, next) /\ i = InitObject(h, a, length, tag)
  OBVIOUS
<1> HIDE DEF i
<1>4. /\ i \in Heap /\ i.watermark = h.watermark /\ i.word[a] = length /\ i.tag[a] = tag
      /\ Cleared(i, a, b) /\ Untouched(h, i, a, b)
  <2>1. /\ i \in Heap /\ i.watermark = h.watermark /\ i.word[a] = length /\ i.tag[a] = tag
        /\ Cleared(i, a, a + Header + length) /\ Untouched(h, i, a, a + Header + length)
    BY <1>1, <1>3, InitObjectEffect
  <2> QED
    BY <2>1
<1>5. /\ g \in Heap /\ g.watermark = i.watermark
      /\ g.word[b] = next - b - Header /\ g.tag[b] = FreeTag
      /\ Cleared(g, b, next) /\ Untouched(i, g, b, next)
  <2>1. i \in Heap /\ b \in Addr /\ next \in Nat /\ b + Header <= next /\ next <= HeapEnd
    BY <1>1, <1>2, <1>4
  <2> QED
    BY <2>1, <1>3, MakeFreeBlockEffect
<1>6. g.word[a] = length /\ g.tag[a] = tag
  BY <1>1, <1>2, <1>4, <1>5 DEF Untouched
<1>7. a + ObjectWords(g, a) = b /\ b + ObjectWords(g, b) = next
  BY <1>1, <1>2, <1>5, <1>6 DEF ObjectWords
<1>8. Cleared(g, a, b)
  BY <1>4, <1>5 DEF Cleared, Untouched
<1>9. Untouched(h, g, a, next)
  <2>1. \A x \in Addr : x \in Nat
    BY Numbers
  <2>2. \A x \in Addr : x < a \/ x >= next => (x < b \/ x >= next) /\ (x < a \/ x >= b)
    BY <2>1, <1>1, <1>2
  <2> QED
    BY <2>2, <1>4, <1>5 DEF Untouched
<1>10. g.tag[a].head /\ g.tag[b].head
  BY <1>5, <1>6 DEF FreeTag
<1>11. /\ Tiled(g, start, end)
       /\ \A x : x \in Headers(g, start, end) <=>
             x = a \/ x = b \/ (x \in Headers(h, start, end) /\ ~(a <= x /\ x < next))
  <2>1. a \in Addr /\ a \in Nat /\ start <= a /\ a < end /\ b \in Nat
    BY <1>2, TiledWithin, Numbers
  <2>2. next \in Nat /\ next <= end
    BY HeadersWithin
  <2>3. a < b /\ b < next /\ g \in Heap
    BY <1>2, <1>5
  <2>4. Tiled(h, start, a) /\ Tiled(h, next, end)
    BY TiledCut
  <2>5. Headers(g, start, a) = Headers(h, start, a) /\ Tiled(g, start, a)
    BY <2>1, <2>2, <2>4, <1>9, TiledAside
  <2>6. Headers(g, next, end) = Headers(h, next, end) /\ Tiled(g, next, end)
    BY <2>1, <2>2, <2>4, <1>9, TiledAside
  <2>7. Headers(g, a, b) = {a} /\ Tiled(g, a, b)
    <3>1. \A x \in Addr : a < x /\ x < b => ~g.tag[x].head
      BY <1>8 DEF NoTag, Cleared
    <3> QED
      BY <3>1, <2>1, <2>3, <1>7, <1>10, TiledOne
  <2>8. Headers(g, b, next) = {b} /\ Tiled(g, b, next)
    <3>1. \A x \in Addr : b < x /\ x < next => ~g.tag[x].head
      BY <1>5 DEF NoTag, Cleared
    <3> QED
      BY <3>1, <2>2, <2>3, <1>2, <1>7, <1>10, TiledOne
  <2>9. Tiled(g, a, next) /\ Headers(g, a, next) = {a, b}
    BY <2>1, <2>2, <2>3, <2>7, <2>8, TiledJoin, HeadersJoin
  <2>10. Tiled(g, a, end) /\ Headers(g, a, end) = {a, b} \cup Headers(h, next, end)
    BY <2>1, <2>2, <2>3, <2>6, <2>9, TiledJoin, HeadersJoin
  <2>11. Tiled(g, start, end) /\ Headers(g, start, end)
            = Headers(h, start, a) \cup {a, b} \cup Headers(h, next, end)
    BY <2>1, <2>2, <2>3, <2>5, <2>10, TiledJoin, HeadersJoin
  <2>12. Headers(h, start, end)
            = Headers(h, start, a) \cup Headers(h, a, next) \cup Headers(h, next, end)
    BY <2>1, <2>2, <2>3, HeadersJoin
  <2>13. /\ \A x \in Headers(h, start, a) : x \in Nat /\ x < a
         /\ \A x \in Headers(h, a, next) : x \in Nat /\ a <= x /\ x < next
         /\ \A x \in Headers(h, next, end) : x \in Nat /\ next <= x
    BY Numbers DEF Headers
  <2>14. ASSUME NEW x, x \in Headers(h, start, end), ~(a <= x /\ x < next)
         PROVE  x \in Headers(g, start, end)
    BY <2>14, <2>11, <2>12, <2>13
  <2>15. ASSUME NEW x, x \in Headers(g, start, end), x # a, x # b
         PROVE  x \in Headers(h, start, end) /\ ~(a <= x /\ x < next)
    BY <2>15, <2>1, <2>2, <2>3, <2>11, <2>12, <2>13
  <2>16. a \in Headers(g, start, end) /\ b \in Headers(g, start, end)
    BY <2>11
  <2> QED
    BY <2>11, <2>14, <2>15, <2>16
<1> QED
  BY <1>1, <1>2, <1>4, <1>5, <1>6, <1>7, <1>8, <1>9, <1>11

\* The slots of a chunk lie inside it, and no chunk begins there.
LEMMA SlotRange ==
    ASSUME NEW h \in Heap, NEW start \in Nat, NEW end \in Nat, end <= HeapEnd,
           Tiled(h, start, end), NEW a \in Headers(h, start, end), NEW s \in RefSlots(h, a)
    PROVE  /\ s \in Addr /\ s \in Nat /\ s < end
           /\ a \in Nat /\ s >= a + Header /\ s < a + ObjectWords(h, a)
           /\ s \notin Headers(h, start, end)
<1>1. /\ a \in Addr /\ a \in Nat /\ a + ObjectWords(h, a) <= end
      /\ \A x \in Headers(h, start, end) : ~(a < x /\ x < a + ObjectWords(h, a))
  BY TiledWithin
<1>2. h.word[a] \in Nat /\ ObjectWords(h, a) = 2 + h.word[a]
  BY <1>1, WordTypes
<1>3. s \in (a + 2) .. (a + 2 + h.word[a] - 1)
  BY DEF RefSlots
<1>4. s \in Nat /\ s >= a + 2 /\ s < a + ObjectWords(h, a) /\ s < end
  BY <1>1, <1>2, <1>3
<1>5. s \in Addr
  BY <1>4, Numbers DEF Addr
<1> QED
  BY <1>1, <1>4, <1>5

\* Two chunks do not overlap.
LEMMA ChunksApart ==
    ASSUME NEW h \in Heap, NEW start \in Nat, NEW end \in Nat, Tiled(h, start, end),
           NEW a \in Headers(h, start, end), NEW b \in Headers(h, start, end), a # b
    PROVE  \/ a < b /\ a + ObjectWords(h, a) <= b
           \/ b < a /\ b + ObjectWords(h, b) <= a
<1>1. a \in Nat /\ b \in Nat
  BY HeadersWithin
<1> QED
  BY <1>1 DEF Tiled

\* Where a walk stands: at a chunk, or at the end.
At(h, c) == IF c # SENTINEL THEN c ELSE h.watermark

\* gc_host_heap_first is where the tiling begins, or the end.
LEMMA FirstEffect ==
    ASSUME NEW h \in Heap, Base <= h.watermark, Tiled(h, Base, h.watermark)
    PROVE  /\ HeapFirst(h) \in Headers(h, Base, h.watermark) \cup {SENTINEL}
           /\ At(h, HeapFirst(h)) = Base
<1>1. h.watermark \in Nat /\ h.watermark <= HeapEnd /\ SENTINEL # Base
  BY Numbers DEF Heap, SENTINEL
<1>2. CASE Base < h.watermark
  BY <1>1, <1>2 DEF HeapFirst, At, Tiled
<1>3. CASE ~(Base < h.watermark)
  BY <1>1, <1>3 DEF HeapFirst, At
<1> QED
  BY <1>2, <1>3

\* gc_host_heap_next steps to the next chunk or to the end.
LEMMA NextEffect ==
    ASSUME NEW h \in Heap, Base <= h.watermark, Tiled(h, Base, h.watermark),
           NEW a \in Headers(h, Base, h.watermark), NEW n, n = HeapNext(h, a)
    PROVE  /\ n \in Headers(h, Base, h.watermark) \cup {SENTINEL}
           /\ At(h, n) = a + ObjectWords(h, a) /\ a < At(h, n) /\ At(h, n) <= h.watermark
           /\ At(h, n) \in Nat
           /\ \A b \in Headers(h, Base, h.watermark) : b < At(h, n) <=> b < a \/ b = a
<1>1. h.watermark \in Nat
  BY DEF Heap
<1>2. /\ a \in Nat /\ ObjectWords(h, a) \in Nat /\ ObjectWords(h, a) >= 2
      /\ a + ObjectWords(h, a) <= h.watermark
  BY <1>1, TiledWithin
<1>3. a + ObjectWords(h, a) \in Headers(h, Base, h.watermark) \cup {h.watermark}
  BY DEF Tiled
<1>4. \A b \in Headers(h, Base, h.watermark) : b \in Nat /\ b < h.watermark /\ b # SENTINEL
  BY HeadersWithin, Numbers
<1>5. n = IF a + ObjectWords(h, a) < h.watermark THEN a + ObjectWords(h, a) ELSE SENTINEL
  BY DEF HeapNext
<1>6. n \in Headers(h, Base, h.watermark) \cup {SENTINEL} /\ At(h, n) = a + ObjectWords(h, a)
  BY <1>1, <1>2, <1>3, <1>4, <1>5 DEF At
<1>7. ASSUME NEW b \in Headers(h, Base, h.watermark)
      PROVE  b < a + ObjectWords(h, a) <=> b < a \/ b = a
  <2>1. CASE a = b
    BY <2>1, <1>2
  <2>2. CASE a # b
    <3>1. \/ a < b /\ a + ObjectWords(h, a) <= b
          \/ b < a /\ b + ObjectWords(h, b) <= a
      BY <2>2, <1>1, ChunksApart
    <3> QED
      BY <3>1, <2>2, <1>2, <1>4
  <2> QED
    BY <2>1, <2>2
<1> QED
  BY <1>2, <1>6, <1>7

\* The same for a walk of a heap that is tiled from the offset start on.
LEMMA NextFrom ==
    ASSUME NEW h \in Heap, NEW start \in Nat, start <= h.watermark, Tiled(h, start, h.watermark),
           NEW a \in Headers(h, start, h.watermark), NEW n, n = HeapNext(h, a)
    PROVE  /\ n \in Headers(h, start, h.watermark) \cup {SENTINEL}
           /\ At(h, n) = a + ObjectWords(h, a) /\ a < At(h, n) /\ At(h, n) <= h.watermark
           /\ At(h, n) \in Nat
<1> DEFINE H == Headers(h, start, h.watermark)
           m == a + ObjectWords(h, a)
<1>1. /\ a \in Nat /\ ObjectWords(h, a) \in Nat /\ ObjectWords(h, a) >= Header
      /\ m <= h.watermark /\ h.watermark \in Nat
  BY TiledWithin DEF Heap
<1>2. m \in H \cup {h.watermark}
  BY DEF Tiled
<1>3. n = IF m < h.watermark THEN m ELSE SENTINEL
  BY DEF HeapNext
<1>4. SENTINEL \notin Addr
  BY Numbers
<1>5. CASE m < h.watermark
  <2>1. m \in H /\ m \in Addr
    BY <1>1, <1>2, <1>5 DEF Headers
  <2> QED
    BY <1>1, <1>3, <1>4, <1>5, <2>1 DEF At
<1>6. CASE ~(m < h.watermark)
  BY <1>1, <1>3, <1>6 DEF At
<1> QED
  BY <1>5, <1>6

-----------------------------------------------------------------------------
(* The words chunks cover, and the chunks a walk meets.                     *)

\* Chunks that do not meet one at p cover as many words fewer than they do with it
\* as that one is long.
LEMMA CoveredApart ==
    ASSUME NEW h \in Heap, NEW S, S \subseteq Addr, NEW p \in Addr,
           \A a \in S : a + ObjectWords(h, a) <= p \/ p + ObjectWords(h, p) <= a
    PROVE  /\ IsFiniteSet(Covered(h, S)) /\ Cardinality(Covered(h, S)) \in Nat
           /\ Cardinality(Covered(h, S \cup {p})) = Cardinality(Covered(h, S)) + ObjectWords(h, p)
<1> DEFINE n == ObjectWords(h, p)
           new == p .. (p + n - 1)
           old == Covered(h, S)
<1>1. /\ p \in Nat /\ n \in Nat /\ n >= 2
      /\ \A a \in S : /\ a \in Nat /\ ObjectWords(h, a) \in Nat
                      /\ a < HeapEnd /\ ObjectWords(h, a) < W + 2
  <2>1. ASSUME NEW a \in Addr
        PROVE  /\ a \in Nat /\ ObjectWords(h, a) \in Nat /\ ObjectWords(h, a) >= 2
               /\ a < HeapEnd /\ ObjectWords(h, a) < W + 2
    <3>1. h.word[a] \in Word /\ ObjectWords(h, a) = 2 + h.word[a]
      BY WordTypes
    <3> QED
      BY <3>1, Numbers DEF Word, Addr
  <2> QED
    BY <2>1
<1>2. Covered(h, S \cup {p}) = old \cup new
  BY DEF Covered
<1>3. \A x \in old : x \in 0 .. (HeapEnd + W + 2) /\ ~(p <= x /\ x < p + n)
  <2> SUFFICES ASSUME NEW a \in S, NEW x \in a .. (a + ObjectWords(h, a) - 1)
               PROVE  x \in 0 .. (HeapEnd + W + 2) /\ ~(p <= x /\ x < p + n)
    BY DEF Covered
  <2>1. /\ a \in Nat /\ ObjectWords(h, a) \in Nat /\ a < HeapEnd /\ ObjectWords(h, a) < W + 2
        /\ a + ObjectWords(h, a) <= p \/ p + n <= a
    BY <1>1
  <2> QED
    BY <2>1, <1>1, Numbers
<1>4. IsFiniteSet(0 .. (HeapEnd + W + 2))
  BY FS_Interval, Numbers
<1>5. old \subseteq 0 .. (HeapEnd + W + 2)
  BY <1>3
<1>6. IsFiniteSet(old) /\ Cardinality(old) \in Nat
  BY <1>4, <1>5, FS_Subset, FS_CardinalityType
<1>7. IsFiniteSet(new) /\ Cardinality(new) = n
  <2> HIDE DEF n
  <2>1. p \in Int /\ p + n - 1 \in Int /\ ~(p > p + n - 1) /\ (p + n - 1) - p + 1 = n
    BY <1>1
  <2>2. /\ IsFiniteSet(p .. (p + n - 1))
        /\ Cardinality(p .. (p + n - 1)) =
              IF p > p + n - 1 THEN 0 ELSE (p + n - 1) - p + 1
    BY <2>1, FS_Interval
  <2> QED
    BY <2>1, <2>2
<1>8. old \cap new = {}
  <2> HIDE DEF n, old
  <2> QED
    BY <1>1, <1>3
<1>9. Cardinality(old \cap new) = 0
  BY <1>8, FS_EmptySet
<1>10. Cardinality(old \cup new) = Cardinality(old) + Cardinality(new) - Cardinality(old \cap new)
  BY <1>6, <1>7, FS_Union, Zenon
<1>11. n \in Nat
  BY <1>1
<1> HIDE DEF n, new, old
<1>12. Cardinality(Covered(h, S \cup {p})) = Cardinality(old) + n
  <2>1. Cardinality(old \cup new) = Cardinality(old) + n
    BY <1>6, <1>7, <1>9, <1>10, <1>11
  <2> QED
    BY <1>2, <2>1
<1> QED
  BY <1>6, <1>12 DEF n, old

\* The same for chunks that end at or before p.
LEMMA CoveredGrows ==
    ASSUME NEW h \in Heap, NEW S, S \subseteq Addr, NEW p \in Addr,
           \A a \in S : a + ObjectWords(h, a) <= p
    PROVE  /\ IsFiniteSet(Covered(h, S)) /\ Cardinality(Covered(h, S)) \in Nat
           /\ Cardinality(Covered(h, S \cup {p})) = Cardinality(Covered(h, S)) + ObjectWords(h, p)
  BY CoveredApart

\* Chunks of a tiled region cover no more words than it has.
LEMMA CoveredWithin ==
    ASSUME NEW h \in Heap, NEW start \in Nat, NEW end \in Nat, start <= end,
           Tiled(h, start, end), NEW S, S \subseteq Headers(h, start, end)
    PROVE  /\ IsFiniteSet(Covered(h, S)) /\ Cardinality(Covered(h, S)) \in Nat
           /\ Cardinality(Covered(h, S)) <= end - start
<1> DEFINE C == Covered(h, S)
<1>1. C \subseteq start .. (end - 1)
  <2> SUFFICES ASSUME NEW a \in S, NEW x \in a .. (a + ObjectWords(h, a) - 1)
               PROVE  x \in start .. (end - 1)
    BY DEF Covered
  <2>1. a \in Nat /\ start <= a /\ ObjectWords(h, a) \in Nat /\ a + ObjectWords(h, a) <= end
    BY TiledWithin
  <2> QED
    BY <2>1
<1>2. IsFiniteSet(start .. (end - 1)) /\ Cardinality(start .. (end - 1)) = end - start
  <2>1. start \in Int /\ end - 1 \in Int
    OBVIOUS
  <2>2. /\ IsFiniteSet(start .. (end - 1))
        /\ Cardinality(start .. (end - 1)) = IF start > end - 1 THEN 0 ELSE (end - 1) - start + 1
    BY <2>1, FS_Interval
  <2>3. (IF start > end - 1 THEN 0 ELSE (end - 1) - start + 1) = end - start
    OBVIOUS
  <2> QED
    BY <2>2, <2>3
<1> HIDE DEF C
<1>3. IsFiniteSet(C) /\ Cardinality(C) \in Nat /\ Cardinality(C) <= Cardinality(start .. (end - 1))
  BY <1>1, <1>2, FS_Subset, FS_CardinalityType
<1> QED
  BY <1>2, <1>3 DEF C

\* No chunk covers nothing, and what is covered depends on the headers only.
LEMMA CoveredBy ==
    /\ \A h : Cardinality(Covered(h, {})) = 0
    /\ \A h, g, S : (\A a \in S : g.word[a] = h.word[a]) => Covered(g, S) = Covered(h, S)
  BY FS_EmptySet DEF Covered, ObjectWords

\* The chunks of a tiled region cover every word of it.
LEMMA TiledCovers ==
    ASSUME NEW h \in Heap, NEW start \in Nat, NEW end \in Nat, start <= end,
           Tiled(h, start, end)
    PROVE  /\ Covered(h, Headers(h, start, end)) = start .. (end - 1)
           /\ Cardinality(Covered(h, Headers(h, start, end))) = end - start
<1> DEFINE H == Headers(h, start, end)
           C == Covered(h, H)
           Bad == {x \in start .. (end - 1) : x \notin C}
<1>1. ASSUME NEW a \in H
      PROVE  /\ a \in Nat /\ start <= a /\ ObjectWords(h, a) \in Nat /\ ObjectWords(h, a) >= 2
             /\ a + ObjectWords(h, a) <= end
             /\ \A x \in a .. (a + ObjectWords(h, a) - 1) : x \in C
  BY TiledWithin DEF Covered
<1>2. C \subseteq start .. (end - 1)
  <2> SUFFICES ASSUME NEW a \in H, NEW x \in a .. (a + ObjectWords(h, a) - 1)
               PROVE  x \in start .. (end - 1)
    BY DEF Covered
  <2> QED
    BY <1>1
<1>3. start \in H \cup {end} /\ \A a \in H : a + ObjectWords(h, a) \in H \cup {end}
  BY DEF Tiled
<1>4. ASSUME NEW x \in C
      PROVE  \E a \in H : a <= x /\ x < a + ObjectWords(h, a)
  <2>1. PICK a \in H : x \in a .. (a + ObjectWords(h, a) - 1)
    BY DEF Covered
  <2> QED
    BY <2>1, <1>1
<1> HIDE DEF H, C
<1>5. Bad = {}
  <2> SUFFICES ASSUME Bad # {} PROVE FALSE
    OBVIOUS
  <2>1. Bad \subseteq Nat
    OBVIOUS
  <2>2. PICK x \in Bad : \A y \in Bad : ~ (<<y, x>> \in OpToRel(<, Nat))
    BY <2>1, WFMin, NatLessThanWellFounded
  <2>3. x \in Nat /\ \A y \in Bad : ~(y < x)
    BY <2>1, <2>2, Zenon DEF OpToRel
  <2>4. start <= x /\ x < end /\ x \notin C
    OBVIOUS
  <2>5. ASSUME x \in H PROVE FALSE
    <3>1. x \in x .. (x + ObjectWords(h, x) - 1)
      BY <1>1, <2>5, <2>3
    <3> QED
      BY <1>1, <2>4, <2>5, <3>1
  <2>6. start < x
    BY <1>3, <2>4, <2>5, <2>3
  <2>7. x - 1 \in start .. (end - 1) /\ x - 1 < x
    BY <2>3, <2>4, <2>6
  <2>8. x - 1 \in C
    BY <2>3, <2>7
  <2>9. PICK a \in H : a <= x - 1 /\ x - 1 < a + ObjectWords(h, a)
    BY <2>8, <1>4
  <2>10. a \in Nat /\ ObjectWords(h, a) \in Nat
    BY <1>1
  <2>11. ~(x < a + ObjectWords(h, a))
    <3> SUFFICES ASSUME x < a + ObjectWords(h, a) PROVE FALSE
      OBVIOUS
    <3>1. x \in a .. (a + ObjectWords(h, a) - 1)
      BY <2>3, <2>9, <2>10
    <3> QED
      BY <1>1, <2>4, <3>1
  <2>12. x = a + ObjectWords(h, a)
    BY <2>3, <2>9, <2>10, <2>11
  <2> QED
    BY <1>3, <2>4, <2>5, <2>12
<1>6. C = start .. (end - 1)
  BY <1>2, <1>5
<1>7. Cardinality(start .. (end - 1)) = end - start
  <2>1. start \in Int /\ end - 1 \in Int
    OBVIOUS
  <2>2. Cardinality(start .. (end - 1)) = IF start > end - 1 THEN 0 ELSE (end - 1) - start + 1
    BY <2>1, FS_Interval
  <2>3. (IF start > end - 1 THEN 0 ELSE (end - 1) - start + 1) = end - start
    OBVIOUS
  <2> QED
    BY <2>2, <2>3
<1> QED
  BY <1>6, <1>7 DEF C, H

\* The sum of the sizes of chunks that do not meet is the number of words they cover.
LEMMA SumCovered ==
    ASSUME NEW h \in Heap, NEW start \in Nat, NEW end \in Nat, Tiled(h, start, end),
           NEW S, S \subseteq Headers(h, start, end)
    PROVE  MapThenSumSet(LAMBDA a : ObjectWords(h, a), S) = Cardinality(Covered(h, S))
<1> DEFINE G(s) == Cardinality(Covered(h, s))
           Pick(s) == CHOOSE x \in s : TRUE
           Equation(f) == f = [s \in SUBSET S |->
                                 IF s = {} THEN 0 ELSE ObjectWords(h, Pick(s)) + f[s \ {Pick(s)}]]
           f0 == [s \in SUBSET S |-> G(s)]
           iter == CHOOSE f : Equation(f)
<1>1. MapThenSumSet(LAMBDA a : ObjectWords(h, a), S) = iter[S]
  BY DEF MapThenSumSet, MapThenFoldSet
<1>2. S \subseteq Addr /\ IsFiniteSet(S)
  <2>1. S \subseteq Addr
    BY DEF Headers
  <2>2. IsFiniteSet(Addr)
    BY FS_Interval, Numbers DEF Addr
  <2> QED
    BY <2>1, <2>2, FS_Subset
<1>3. \A s \in SUBSET S : s # {} => Pick(s) \in s
  OBVIOUS
<1> HIDE DEF Pick
<1>4. G({}) = 0
  BY CoveredBy
<1>5. ASSUME NEW s \in SUBSET S, s # {}
      PROVE  G(s) = ObjectWords(h, Pick(s)) + G(s \ {Pick(s)})
  <2> DEFINE p == Pick(s)
             T == s \ {p}
  <2>1. p \in s /\ T \subseteq Addr /\ p \in Addr /\ T \cup {p} = s
    BY <1>2, <1>3, <1>5
  <2>2. \A a \in T : a + ObjectWords(h, a) <= p \/ p + ObjectWords(h, p) <= a
    <3> SUFFICES ASSUME NEW a \in T PROVE a + ObjectWords(h, a) <= p \/ p + ObjectWords(h, p) <= a
      OBVIOUS
    <3>1. a \in Headers(h, start, end) /\ p \in Headers(h, start, end) /\ a # p
      BY <2>1
    <3> HIDE DEF p, T
    <3> QED
      BY <3>1, ChunksApart
  <2>3. ObjectWords(h, p) \in Nat
    BY <2>1, ChunkSize
  <2> HIDE DEF p, T
  <2>4. /\ Cardinality(Covered(h, T)) \in Nat
        /\ Cardinality(Covered(h, T \cup {p})) = Cardinality(Covered(h, T)) + ObjectWords(h, p)
    BY <2>1, <2>2, CoveredApart
  <2>5. Cardinality(Covered(h, s)) = ObjectWords(h, p) + Cardinality(Covered(h, T))
    <3>1. Cardinality(Covered(h, s)) = Cardinality(Covered(h, T)) + ObjectWords(h, p)
      BY <2>1, <2>4
    <3> QED
      BY <2>3, <2>4, <3>1
  <2> QED
    BY <2>5 DEF p, T
<1> HIDE DEF G
<1>6. Equation(f0)
  <2>1. \A s \in SUBSET S : f0[s] = IF s = {} THEN 0 ELSE ObjectWords(h, Pick(s)) + f0[s \ {Pick(s)}]
    BY <1>4, <1>5
  <2>2. f0 = [s \in SUBSET S |-> f0[s]]
    OBVIOUS
  <2> HIDE DEF f0
  <2> QED
    BY <2>1, <2>2
<1>7. Equation(iter)
  BY <1>6
<1> HIDE DEF iter
<1>8. \A s \in SUBSET S : iter[s] = IF s = {} THEN 0 ELSE ObjectWords(h, Pick(s)) + iter[s \ {Pick(s)}]
  <2>1. iter = [s \in SUBSET S |-> IF s = {} THEN 0
                                   ELSE ObjectWords(h, Pick(s)) + iter[s \ {Pick(s)}]]
    BY <1>7
  <2> QED
    BY <2>1, Zenon
<1> HIDE DEF Equation, f0
<1> DEFINE Bad == {s \in SUBSET S : iter[s] # G(s)}
           Sizes == {Cardinality(s) : s \in Bad}
<1>9. ASSUME Bad # {} PROVE FALSE
  <2>1. \A s \in SUBSET S : IsFiniteSet(s) /\ Cardinality(s) \in Nat
    BY <1>2, FS_Subset, FS_CardinalityType
  <2>2. Sizes \subseteq Nat /\ Sizes # {}
    BY <1>9, <2>1
  <2>3. PICK n \in Sizes : \A m \in Sizes : ~ (<<m, n>> \in OpToRel(<, Nat))
    BY <2>2, WFMin, NatLessThanWellFounded
  <2>4. n \in Nat /\ \A m \in Sizes : ~(m < n)
    BY <2>2, <2>3, Zenon DEF OpToRel
  <2>5. PICK s \in Bad : n = Cardinality(s)
    OBVIOUS
  <2>6. s \in SUBSET S /\ iter[s] # G(s) /\ s # {}
    BY <1>4, <1>8
  <2> DEFINE T == s \ {Pick(s)}
  <2>7. T \in SUBSET S /\ Cardinality(T) = Cardinality(s) - 1
    BY <2>1, <2>6, <1>3, FS_RemoveElement
  <2>8. iter[s] = ObjectWords(h, Pick(s)) + iter[T] /\ G(s) = ObjectWords(h, Pick(s)) + G(T)
    BY <2>6, <1>5, <1>8
  <2> HIDE DEF T
  <2>9. T \in Bad
    BY <2>6, <2>7, <2>8
  <2>10. Cardinality(T) \in Sizes /\ Cardinality(T) < n
    BY <2>4, <2>5, <2>7, <2>9
  <2> QED
    BY <2>4, <2>10
<1>10. iter[S] = G(S)
  BY <1>9
<1> QED
  BY <1>1, <1>10 DEF G

\* The heap walk meets the headers of a tiled region, and nothing else.
LEMMA WalkMeets ==
    ASSUME NEW h \in Heap, NEW start \in Nat, NEW end \in Nat, start <= end, end <= HeapEnd,
           Tiled(h, start, end)
    PROVE  ChunksFrom(h, start, end) = Headers(h, start, end)
<1> DEFINE Next(x) == x + ObjectWords(h, x)
           Equation(f) == f = [x \in Nat |-> IF x >= end THEN {} ELSE {x} \cup f[Next(x)]]
           walk == CHOOSE f : Equation(f)
           Tails(x) == {S \in SUBSET Nat : x \in S /\ \A y \in S : y < end => Next(y) \in S}
           Met(x) == {y \in Nat : y < end /\ \A S \in Tails(x) : y \in S}
           f0 == [x \in Nat |-> Met(x)]
           H == Headers(h, start, end)
<1>1. ChunksFrom(h, start, end) = walk[start]
  BY DEF ChunksFrom
<1>2. ASSUME NEW x \in Nat, x < end
      PROVE  Next(x) \in Nat /\ x < Next(x) /\ x \in Addr
  <2>1. x \in Addr
    BY <1>2, Numbers DEF Addr
  <2>2. ObjectWords(h, x) \in Nat /\ ObjectWords(h, x) >= 2
    BY <2>1, ChunkSize
  <2> QED
    BY <2>1, <2>2
<1> HIDE DEF Next
<1>3. ASSUME NEW x \in Nat
      PROVE  Met(x) = IF x >= end THEN {} ELSE {x} \cup Met(Next(x))
  <2>1. CASE x >= end
    <3> DEFINE S == {y \in Nat : y >= end}
    <3>1. S \in Tails(x)
      BY <2>1
    <3>2. \A y \in Met(x) : y \in S /\ y < end
      BY <3>1
    <3> QED
      BY <2>1, <3>2
  <2>2. CASE x < end
    <3>1. Next(x) \in Nat
      BY <2>2, <1>2
    <3>2. x \in Met(x)
      BY <2>2
    <3>3. \A S \in Tails(x) : S \in Tails(Next(x))
      BY <2>2
    <3>4. ASSUME NEW y \in Met(x), y # x, NEW S \in Tails(Next(x)) PROVE y \in S
      <4>1. S \cup {x} \in Tails(x)
        OBVIOUS
      <4> QED
        BY <3>4, <4>1
    <3> QED
      BY <2>2, <3>2, <3>3, <3>4
  <2> QED
    BY <2>1, <2>2
<1> HIDE DEF Met
<1>4. Equation(f0)
  <2>1. ASSUME NEW x \in Nat PROVE f0[x] = IF x >= end THEN {} ELSE {x} \cup f0[Next(x)]
    BY <1>2, <1>3
  <2>2. f0 = [x \in Nat |-> f0[x]]
    OBVIOUS
  <2> HIDE DEF f0
  <2> QED
    BY <2>1, <2>2
<1>5. Equation(walk)
  BY <1>4
<1> HIDE DEF walk
<1>6. \A x \in Nat : walk[x] = IF x >= end THEN {} ELSE {x} \cup walk[Next(x)]
  BY <1>5
<1> HIDE DEF Equation, f0
<1>7. /\ \A x \in H : x \in Nat /\ start <= x /\ x < end /\ Next(x) \in H \cup {end}
      /\ \A x, y \in H : x < y => Next(x) <= y
      /\ start \in H \cup {end}
  BY HeadersWithin DEF Tiled, Next
<1> HIDE DEF H
<1> DEFINE Bad == {x \in H : walk[x] # {y \in H : x <= y}}
           Rests == {end - x : x \in Bad}
<1>8. walk[end] = {}
  <2>1. end >= end
    OBVIOUS
  <2> QED
    BY <1>6, <2>1
<1>9. ASSUME Bad # {} PROVE FALSE
  <2>1. Rests \subseteq Nat /\ Rests # {}
    <3>1. \A x \in Bad : end - x \in Nat
      BY <1>7
    <3> HIDE DEF Bad
    <3> QED
      BY <1>9, <3>1
  <2>2. PICK n \in Rests : \A m \in Rests : ~ (<<m, n>> \in OpToRel(<, Nat))
    BY <2>1, WFMin, NatLessThanWellFounded
  <2>3. n \in Nat /\ \A m \in Rests : ~(m < n)
    BY <2>1, <2>2, Zenon DEF OpToRel
  <2>4. PICK x \in Bad : n = end - x
    OBVIOUS
  <2>5. /\ x \in H /\ x \in Nat /\ x < end /\ walk[x] # {y \in H : x <= y}
        /\ Next(x) \in H \cup {end} /\ x < Next(x) /\ Next(x) \in Nat
    BY <1>2, <1>7
  <2>6. walk[x] = {x} \cup walk[Next(x)]
    <3>1. ~(x >= end)
      BY <2>5
    <3> QED
      BY <1>6, <2>5, <3>1
  <2>7. walk[Next(x)] = {y \in H : Next(x) <= y}
    <3>1. CASE Next(x) = end
      <4>1. \A y \in H : ~(end <= y)
        BY <1>7
      <4> QED
        BY <3>1, <4>1, <1>8
    <3>2. CASE Next(x) \in H
      <4>1. end - Next(x) < n /\ end - Next(x) \in Nat
        BY <3>2, <2>4, <2>5, <1>7
      <4>2. Next(x) \notin Bad
        BY <4>1, <2>3
      <4> QED
        BY <3>2, <4>2
    <3> QED
      BY <2>5, <3>1, <3>2
  <2>8. {y \in H : x <= y} = {x} \cup {y \in H : Next(x) <= y}
    <3>1. \A y \in H : x <= y <=> y = x \/ Next(x) <= y
      BY <2>5, <1>7
    <3> QED
      BY <2>5, <3>1
  <2> QED
    BY <2>5, <2>6, <2>7, <2>8
<1>10. walk[start] = H
  <2>1. CASE start \in H
    <3>1. walk[start] = {y \in H : start <= y}
      BY <2>1, <1>9
    <3> QED
      BY <3>1, <1>7
  <2>2. CASE start = end
    <3>1. H = {}
      BY <2>2, <1>7
    <3> QED
      BY <2>2, <3>1, <1>8
  <2> QED
    BY <2>1, <2>2, <1>7
<1> QED
  BY <1>1, <1>10 DEF H

-----------------------------------------------------------------------------
(* The allocators.                                                          *)

\* gc_host_raw_alloc refuses, or appends one chunk at the watermark.
LEMMA RawAllocEffect ==
    ASSUME NEW h \in Heap, h.watermark \in Base .. HeapEnd, NEW length \in Nat,
           NEW is_ref \in BOOLEAN, NEW id \in Ids \cup {NoId},
           NEW a, a = RawAlloc(h, length, is_ref, id)
    PROVE  \/ ~Fits(h, length) /\ a.ref = SENTINEL /\ a.heap = h
           \/ /\ Fits(h, length) /\ a.ref = h.watermark /\ a.ref \in Addr /\ length \in Word
              /\ a.heap \in Heap
              /\ a.heap.watermark = a.ref + Header + length /\ a.heap.watermark <= HeapEnd
              /\ a.heap.word[a.ref] = length /\ a.heap.tag[a.ref] = ArrayTag(is_ref, id)
              /\ \A x \in Addr : x > a.ref /\ x < a.heap.watermark =>
                    a.heap.word[x] = 0 /\ a.heap.tag[x] = NoTag
              /\ \A x \in Addr : x < a.ref \/ x >= a.heap.watermark =>
                    a.heap.word[x] = h.word[x] /\ a.heap.tag[x] = h.tag[x]
<1>1. CASE ~Fits(h, length)
  BY <1>1 DEF RawAlloc
<1>2. CASE Fits(h, length)
  <2> DEFINE w == h.watermark
             g == InitObject(h, w, length, ArrayTag(is_ref, id))
             n == w + Header + length
  <2>1. w \in Nat /\ w + 2 + length <= HeapEnd
    BY <1>2, Numbers DEF Fits
  <2>2. w \in Addr /\ length \in Word /\ n \in 0 .. HeapEnd /\ n <= HeapEnd /\ n \in Nat
    BY <2>1, Numbers DEF Addr, Word
  <2>3. a.ref = w /\ a.heap = SetWatermark(g, n)
    BY <1>2 DEF RawAlloc, Bumped
  <2>4. ArrayTag(is_ref, id) \in Tag
    BY TagTypes
  <2> HIDE DEF g, n
  <2>5. /\ g \in Heap
        /\ g.word[w] = length /\ g.tag[w] = ArrayTag(is_ref, id)
        /\ \A x \in Addr : x > w /\ x < w + Header + length => g.word[x] = 0 /\ g.tag[x] = NoTag
        /\ \A x \in Addr : x < w \/ x >= w + Header + length =>
              g.word[x] = h.word[x] /\ g.tag[x] = h.tag[x]
    BY <2>2, <2>4, InitObjectEffect DEF g, Cleared, Untouched
  <2>6. a.heap \in Heap /\ a.heap.watermark = n /\ a.heap.word = g.word /\ a.heap.tag = g.tag
    BY <2>2, <2>3, <2>5, SetWatermarkType
  <2> QED
    BY <1>2, <2>2, <2>3, <2>5, <2>6 DEF n
<1> QED
  BY <1>1, <1>2

\* A bump that does not answer the sentinel.
LEMMA BumpEffect ==
    ASSUME NEW h \in Heap, h.watermark \in Base .. HeapEnd, NEW length \in Nat,
           NEW is_ref \in BOOLEAN, NEW id \in Ids \cup {NoId},
           NEW a, a = RawAlloc(h, length, is_ref, id), a.ref # SENTINEL
    PROVE  /\ a.ref = h.watermark /\ a.ref \in Addr /\ length \in Word
           /\ a.heap \in Heap
           /\ a.heap.watermark = a.ref + Header + length /\ a.heap.watermark <= HeapEnd
           /\ a.heap.word[a.ref] = length /\ a.heap.tag[a.ref] = ArrayTag(is_ref, id)
           /\ \A x \in Addr : x > a.ref /\ x < a.heap.watermark =>
                 a.heap.word[x] = 0 /\ a.heap.tag[x] = NoTag
           /\ \A x \in Addr : x < a.ref \/ x >= a.heap.watermark =>
                 a.heap.word[x] = h.word[x] /\ a.heap.tag[x] = h.tag[x]
  BY RawAllocEffect

-----------------------------------------------------------------------------
(* Moving objects.                                                          *)

\* memmove of a chunk whose source and destination lie in the heap.
LEMMA MoveObjectEffect ==
    ASSUME NEW h \in Heap, NEW from \in Addr, NEW to \in Nat,
           from + ObjectWords(h, from) <= HeapEnd, to + ObjectWords(h, from) <= HeapEnd,
           NEW g, g = MoveObject(h, from, to)
    PROVE  /\ g \in Heap /\ g.watermark = h.watermark
           /\ \A x \in Addr : to <= x /\ x < to + ObjectWords(h, from) =>
                 /\ from + (x - to) \in Addr
                 /\ g.word[x] = h.word[from + (x - to)] /\ g.tag[x] = h.tag[from + (x - to)]
           /\ Untouched(h, g, to, to + ObjectWords(h, from))
<1> DEFINE end == to + ObjectWords(h, from)
           word == [x \in Addr |-> IF x >= to /\ x < end THEN h.word[from + (x - to)]
                                                          ELSE h.word[x]]
           tags == [x \in Addr |-> IF x >= to /\ x < end THEN h.tag[from + (x - to)]
                                                          ELSE h.tag[x]]
<1>1. h = [word |-> h.word, tag |-> h.tag, watermark |-> h.watermark]
      /\ h.word \in [Addr -> Word] /\ h.tag \in [Addr -> Tag] /\ h.watermark \in 0 .. HeapEnd
  BY DEF Heap
<1>2. g = [word |-> word, tag |-> tags, watermark |-> h.watermark]
  BY <1>1 DEF MoveObject
<1>3. from \in Nat /\ ObjectWords(h, from) \in Nat /\ HeapEnd \in Nat /\ \A x \in Addr : x \in Nat
  BY Numbers, WordTypes
<1>4. \A x \in Addr : to <= x /\ x < end => from + (x - to) \in Addr
  BY <1>3 DEF Addr
<1>5. word \in [Addr -> Word] /\ tags \in [Addr -> Tag]
  BY <1>1, <1>3, <1>4
<1>6. g \in Heap /\ g.word = word /\ g.tag = tags /\ g.watermark = h.watermark
  BY <1>1, <1>2, <1>5 DEF Heap
<1> QED
  BY <1>3, <1>4, <1>6 DEF Untouched

\* The words from start to end belong to no chunk any more.
LEMMA VacateEffect ==
    ASSUME NEW h \in Heap, NEW start \in Nat, NEW end \in Nat, NEW g, g = Vacate(h, start, end)
    PROVE  /\ g \in Heap /\ g.watermark = h.watermark
           /\ \A x \in Addr : start <= x /\ x < end => g.word[x] = Stale /\ g.tag[x] = NoTag
           /\ Untouched(h, g, start, end)
<1> DEFINE word == [x \in Addr |-> IF x >= start /\ x < end THEN Stale ELSE h.word[x]]
           tags == [x \in Addr |-> IF x >= start /\ x < end THEN NoTag ELSE h.tag[x]]
<1>1. h = [word |-> h.word, tag |-> h.tag, watermark |-> h.watermark]
      /\ h.word \in [Addr -> Word] /\ h.tag \in [Addr -> Tag] /\ h.watermark \in 0 .. HeapEnd
  BY DEF Heap
<1>2. g = [word |-> word, tag |-> tags, watermark |-> h.watermark]
  BY <1>1 DEF Vacate
<1>3. word \in [Addr -> Word] /\ tags \in [Addr -> Tag]
  BY <1>1, Numbers, TagTypes
<1>4. g \in Heap /\ g.word = word /\ g.tag = tags /\ g.watermark = h.watermark
  BY <1>1, <1>2, <1>3 DEF Heap
<1>5. \A x \in Addr : x \in Nat
  BY Numbers
<1> QED
  BY <1>4, <1>5 DEF Untouched

-----------------------------------------------------------------------------
(* Closure: what Reachable computes, whatever the edges N of the graph.     *)

Step(N, R) == R \cup UNION {N[a] : a \in R}
ClosedIn(N, C) == \A a \in C : N[a] \subseteq C
Closes(U, N, c) == \A R \in SUBSET U : c[R] = IF Step(N, R) = R THEN R ELSE c[Step(N, R)]
LeastClosed(U, N, T, L) ==
    /\ T \subseteq L /\ ClosedIn(N, L)
    /\ \A C \in SUBSET U : T \subseteq C /\ ClosedIn(N, C) => L \subseteq C

\* The recursion that closes a set under the edges N has a solution.
LEMMA ClosureExists ==
    ASSUME NEW U, NEW N \in [U -> SUBSET U]
    PROVE  \E c : c = [R \in SUBSET U |-> IF Step(N, R) = R THEN R ELSE c[Step(N, R)]]
<1> DEFINE Above(R) == {C \in SUBSET U : R \subseteq C /\ ClosedIn(N, C)}
           Least(R) == {x \in U : \A C \in Above(R) : x \in C}
           lfp == [R \in SUBSET U |-> Least(R)]
<1>1. \A R \in SUBSET U : Step(N, R) \in SUBSET U /\ R \subseteq Step(N, R)
  BY DEF Step
<1>2. ASSUME NEW R \in SUBSET U
      PROVE  Least(R) = IF Step(N, R) = R THEN R ELSE Least(Step(N, R))
  <2>1. CASE Step(N, R) = R
    <3>1. R \in Above(R)
      BY <2>1 DEF Step, ClosedIn
    <3> QED
      BY <2>1, <3>1
  <2>2. Above(R) = Above(Step(N, R))
    BY DEF Step, ClosedIn
  <2> HIDE DEF Above
  <2> QED
    BY <2>1, <2>2
<1> HIDE DEF Least
<1>3. \A R \in SUBSET U : lfp[R] = IF Step(N, R) = R THEN R ELSE lfp[Step(N, R)]
  BY <1>1, <1>2
<1>4. lfp = [R \in SUBSET U |-> lfp[R]]
  OBVIOUS
<1> HIDE DEF lfp
<1> QED
  BY <1>3, <1>4

\* From within a finite closed set, every solution finds the least closed set.
LEMMA ClosureLeast ==
    ASSUME NEW U, NEW N \in [U -> SUBSET U], NEW D \in SUBSET U, IsFiniteSet(D), ClosedIn(N, D),
           NEW c, Closes(U, N, c), NEW T \in SUBSET D
    PROVE  c[T] \subseteq D /\ LeastClosed(U, N, T, c[T])
<1> DEFINE Good(R) == /\ c[R] \subseteq D /\ R \subseteq c[R] /\ ClosedIn(N, c[R])
                      /\ \A C \in SUBSET U : R \subseteq C /\ ClosedIn(N, C) => c[R] \subseteq C
           Rest(R) == Cardinality(D \ R)
           Bad == {R \in SUBSET D : ~Good(R)}
           Sizes == {Rest(R) : R \in Bad}
<1>1. /\ \A R \in SUBSET D : Rest(R) \in Nat
      /\ \A R, Q \in SUBSET D : R \subseteq Q /\ R # Q => Rest(Q) < Rest(R)
  <2>1. \A R \in SUBSET D : IsFiniteSet(D \ R) /\ Rest(R) \in Nat
    BY FS_Subset, FS_CardinalityType
  <2>2. ASSUME NEW R \in SUBSET D, NEW Q \in SUBSET D, R \subseteq Q, R # Q
        PROVE  Rest(Q) < Rest(R)
    <3>1. D \ Q \in SUBSET (D \ R) /\ D \ R # D \ Q
      BY <2>2
    <3>2. Rest(Q) <= Rest(R) /\ Rest(R) # Rest(Q)
      BY <2>1, <3>1, FS_Subset
    <3>3. Rest(Q) \in Nat /\ Rest(R) \in Nat
      BY <2>1
    <3> HIDE DEF Rest
    <3> QED
      BY <3>2, <3>3
  <2> QED
    BY <2>1, <2>2
<1>2. \A R \in SUBSET D : R \in SUBSET U /\ Step(N, R) \in SUBSET D /\ R \subseteq Step(N, R)
  BY DEF Step, ClosedIn
<1>3. \A R \in SUBSET D : Step(N, R) = R => Good(R)
  <2> SUFFICES ASSUME NEW R \in SUBSET D, Step(N, R) = R PROVE Good(R)
    OBVIOUS
  <2>1. c[R] = R
    BY <1>2 DEF Closes
  <2>2. ClosedIn(N, R)
    BY DEF Step, ClosedIn
  <2> QED
    BY <2>1, <2>2
<1>4. \A R \in SUBSET D : Step(N, R) # R /\ Good(Step(N, R)) => Good(R)
  <2> SUFFICES ASSUME NEW R \in SUBSET D, Step(N, R) # R, Good(Step(N, R)) PROVE Good(R)
    OBVIOUS
  <2>1. c[R] = c[Step(N, R)]
    BY <1>2 DEF Closes
  <2>2. \A C \in SUBSET U : R \subseteq C /\ ClosedIn(N, C) => Step(N, R) \subseteq C
    BY DEF Step, ClosedIn
  <2> QED
    BY <1>2, <2>1, <2>2
<1> HIDE DEF Rest, Good
<1>5. ASSUME Bad # {} PROVE FALSE
  <2>1. Sizes \subseteq Nat /\ Sizes # {}
    BY <1>1, <1>5
  <2>2. PICK n \in Sizes : \A m \in Sizes : ~ (<<m, n>> \in OpToRel(<, Nat))
    BY <2>1, WFMin, NatLessThanWellFounded
  <2>3. n \in Nat /\ \A m \in Sizes : ~(m < n)
    BY <2>1, <2>2, Zenon DEF OpToRel
  <2>4. PICK R \in Bad : n = Rest(R)
    OBVIOUS
  <2>5. R \in SUBSET D /\ ~Good(R) /\ Step(N, R) # R /\ ~Good(Step(N, R))
    BY <1>3, <1>4
  <2>6. Step(N, R) \in Bad /\ Rest(Step(N, R)) < Rest(R)
    BY <2>5, <1>1, <1>2
  <2> QED
    BY <2>3, <2>4, <2>6
<1> QED
  BY <1>5 DEF Good, LeastClosed

-----------------------------------------------------------------------------
(* The running program.                                                     *)

\* The program's arrays are in [start, end), and its roots are rs.
WellFormed(h, rs, start, end) ==
    /\ h \in Heap
    /\ start \in Nat /\ end \in Nat /\ start <= end /\ end <= HeapEnd
    /\ Tiled(h, start, end)
    /\ rs \in [RootSlots -> Allocated(h, start, end) \cup {GC_NULL}]
    /\ \A a \in Allocated(h, start, end) : \A s \in RefSlots(h, a) :
          h.word[s] \in Allocated(h, start, end) \cup {GC_NULL}

\* The headers of [start, end) are untouched, and so are all tags.
SameChunks(h, g, start, end) ==
    /\ g.tag = h.tag
    /\ \A a \in Headers(h, start, end) : g.word[a] = h.word[a]

\* The fields of a gc_collect_stats.
Outs == [moved : Nat, freed : Nat, live : Nat, free : Nat, largest : Nat]

\* It is what HeapIntact asks for, of the heap and the roots of a state.
LEMMA WellFormedMeans ==
    ASSUME NEW start, NEW end, WellFormed(heap, roots, start, end)
    PROVE  /\ Tiled(heap, start, end)
           /\ ReferencesValid(Allocated(heap, start, end))
  BY DEF WellFormed, ReferencesValid

\* The slots of an allocated array lie inside it, and no chunk begins there.
LEMMA SlotsInside ==
    ASSUME NEW h, NEW rs, NEW start, NEW end, WellFormed(h, rs, start, end),
           NEW a \in Allocated(h, start, end), NEW k \in Nat, k < ObjectLength(h, a),
           NEW s, s = a + Header + k
    PROVE  /\ s \in Addr /\ s \in Nat /\ start <= s /\ s < end
           /\ s \notin Headers(h, start, end)
<1>1. /\ h \in Heap /\ start \in Nat /\ end \in Nat /\ end <= HeapEnd /\ Tiled(h, start, end)
      /\ a \in Headers(h, start, end)
  BY DEF WellFormed, Allocated
<1>2. /\ a \in Addr /\ a \in Nat /\ start <= a
      /\ a + ObjectWords(h, a) <= end
      /\ \A x \in Headers(h, start, end) : ~(a < x /\ x < a + ObjectWords(h, a))
  BY <1>1, TiledWithin
<1>3. ObjectWords(h, a) = 2 + ObjectLength(h, a) /\ ObjectLength(h, a) \in Nat
  BY <1>1, <1>2, WordTypes
<1>4. s \in Nat /\ a < s /\ s < a + ObjectWords(h, a) /\ s < end /\ s < HeapEnd
  BY <1>1, <1>2, <1>3, Numbers
<1>5. s \in Addr
  BY <1>4, Numbers DEF Addr
<1> QED
  BY <1>1, <1>2, <1>4, <1>5

\* What the arrays, roots and slots of a well formed heap are.
LEMMA WellFormedTypes ==
    ASSUME NEW h, NEW rs, NEW start, NEW end, WellFormed(h, rs, start, end)
    PROVE  /\ h \in Heap /\ start \in Nat /\ end \in Nat /\ start <= end /\ end <= HeapEnd
           /\ GC_NULL \in Addr /\ Addr \subseteq Nat
           /\ Allocated(h, start, end) \subseteq Addr
           /\ rs \in [RootSlots -> Addr]
           /\ \A r \in RootSlots : rs[r] \in Allocated(h, start, end) \cup {GC_NULL}
<1>1. /\ h \in Heap /\ start \in Nat /\ end \in Nat /\ start <= end /\ end <= HeapEnd
      /\ rs \in [RootSlots -> Allocated(h, start, end) \cup {GC_NULL}]
  BY DEF WellFormed
<1>2. GC_NULL \in Addr /\ Addr \subseteq Nat
  BY HeapAssumption DEF Addr, HeapAssumption
<1>3. Allocated(h, start, end) \subseteq Addr
  BY DEF Allocated, Headers
<1>4. Allocated(h, start, end) \cup {GC_NULL} \subseteq Addr
  BY <1>2, <1>3
<1> QED
  BY <1>1, <1>2, <1>3, <1>4

\* The reference slots of an allocated array, and what they hold.
LEMMA SlotTypes ==
    ASSUME NEW h, NEW rs, NEW start, NEW end, WellFormed(h, rs, start, end),
           NEW a \in Allocated(h, start, end), NEW s \in RefSlots(h, a)
    PROVE  /\ s \in Addr /\ s \in Nat /\ start <= s /\ s < end
           /\ a \in Nat /\ s >= a + Header /\ s < a + ObjectWords(h, a)
           /\ s \notin Headers(h, start, end)
           /\ h.word[s] \in Allocated(h, start, end) \cup {GC_NULL}
           /\ h.word[s] \in Addr
<1>1. /\ a \in Addr /\ a \in Nat /\ h.word[a] \in Nat /\ ObjectLength(h, a) = h.word[a]
      /\ ObjectWords(h, a) = 2 + h.word[a]
  BY WellFormedTypes, WordTypes
<1>2. s \in (a + 2) .. (a + 2 + h.word[a] - 1)
  BY DEF RefSlots
<1>3. (s - a - 2) \in Nat /\ s - a - 2 < ObjectLength(h, a) /\ s = a + Header + (s - a - 2)
  BY <1>1, <1>2
<1>4. s \in Addr /\ s \in Nat /\ start <= s /\ s < end /\ s \notin Headers(h, start, end)
  BY <1>3, SlotsInside
<1>5. h.word[s] \in Allocated(h, start, end) \cup {GC_NULL}
  BY DEF WellFormed
<1>6. h.word[s] \in Addr
  BY <1>5, WellFormedTypes
<1>7. s >= a + Header /\ s < a + ObjectWords(h, a)
  BY <1>1, <1>2
<1> QED
  BY <1>1, <1>4, <1>5, <1>6, <1>7

\* The arrays of A lie apart within the memory, and every root and every slot of
\* theirs is null or leads to one of them.
Sound(h, rs, A) ==
    /\ h \in Heap /\ A \subseteq Addr
    /\ \A a \in A : a + ObjectWords(h, a) <= HeapEnd
    /\ \A a, b \in A : a < b => a + ObjectWords(h, a) <= b
    /\ rs \in [RootSlots -> A \cup {GC_NULL}]
    /\ \A a \in A : \A s \in RefSlots(h, a) : h.word[s] \in A \cup {GC_NULL}
SameArrays(h, g, A) == g.tag = h.tag /\ \A a \in A : g.word[a] = h.word[a]

\* Those of a well formed heap do.
LEMMA WellFormedSound ==
    ASSUME NEW h, NEW rs, NEW start, NEW end, WellFormed(h, rs, start, end),
           NEW A, A = Allocated(h, start, end)
    PROVE  Sound(h, rs, A)
<1>1. /\ h \in Heap /\ start \in Nat /\ end \in Nat /\ end <= HeapEnd /\ Tiled(h, start, end)
      /\ rs \in [RootSlots -> A \cup {GC_NULL}]
      /\ \A a \in A : \A s \in RefSlots(h, a) : h.word[s] \in A \cup {GC_NULL}
  BY DEF WellFormed
<1>2. A \subseteq Headers(h, start, end) /\ A \subseteq Addr
  BY DEF Allocated, Headers
<1>3. ASSUME NEW a \in A PROVE a + ObjectWords(h, a) <= HeapEnd
  <2>1. a \in Headers(h, start, end)
    BY <1>2
  <2>2. a \in Nat /\ a + ObjectWords(h, a) <= end /\ ObjectWords(h, a) \in Nat
    BY <2>1, <1>1, TiledWithin
  <2> QED
    BY <2>2, <1>1, Numbers
<1>4. \A a, b \in A : a < b => a + ObjectWords(h, a) <= b
  BY <1>1, <1>2 DEF Tiled
<1> QED
  BY <1>1, <1>2, <1>3, <1>4 DEF Sound

\* The elements of an array belong to it alone.
LEMMA SoundElement ==
    ASSUME NEW h, NEW rs, NEW A, Sound(h, rs, A), NEW a \in A, NEW k \in Nat,
           k < h.word[a], NEW s, s = a + Header + k
    PROVE  /\ s \in Addr /\ s \notin A
           /\ \A b \in A : b # a => s < b \/ s >= b + ObjectWords(h, b)
<1>1. /\ h \in Heap /\ A \subseteq Addr /\ a \in Addr /\ a \in Nat /\ h.word[a] \in Nat
      /\ ObjectWords(h, a) = 2 + h.word[a] /\ a + 2 + h.word[a] <= HeapEnd /\ HeapEnd \in Nat
      /\ \A x, b \in A : x < b => x + ObjectWords(h, x) <= b
  <2>1. h \in Heap /\ A \subseteq Addr /\ a + ObjectWords(h, a) <= HeapEnd
        /\ \A x, b \in A : x < b => x + ObjectWords(h, x) <= b
    BY DEF Sound
  <2> QED
    BY <2>1, Numbers, WordTypes DEF ObjectWords
<1>2. s \in Addr /\ s \in Nat /\ a < s /\ s < a + ObjectWords(h, a)
  BY <1>1 DEF Addr
<1>3. ASSUME NEW b \in A, b # a PROVE s < b \/ s >= b + ObjectWords(h, b)
  <2>1. b \in Nat /\ ObjectWords(h, b) \in Nat /\ ObjectWords(h, b) = 2 + h.word[b]
    BY <1>1, Numbers, WordTypes DEF ObjectWords
  <2>2. CASE a < b
    BY <2>1, <2>2, <1>1, <1>2
  <2>3. CASE b < a
    <3>1. b + ObjectWords(h, b) <= a
      BY <2>3, <1>1
    <3> QED
      BY <3>1, <2>1, <1>1, <1>2
  <2> QED
    BY <2>1, <2>2, <2>3, <1>1, <1>3
<1>4. s \notin A
  <2> SUFFICES ASSUME s \in A PROVE FALSE
    OBVIOUS
  <2>1. ObjectWords(h, s) \in Nat /\ ObjectWords(h, s) >= 2
    BY <1>1, <1>2, WordTypes
  <2> QED
    BY <2>1, <1>2, <1>3
<1> QED
  BY <1>2, <1>3, <1>4

\* The reference slots of an array, and what they hold.
LEMMA SoundSlots ==
    ASSUME NEW h, NEW rs, NEW A, Sound(h, rs, A), NEW a \in A, NEW s \in RefSlots(h, a)
    PROVE  /\ s \in Addr /\ s \in Nat /\ a \in Nat /\ s >= a + Header /\ s < a + ObjectWords(h, a)
           /\ h.tag[a].ref /\ s \notin A
           /\ \A b \in A : b # a => s < b \/ s >= b + ObjectWords(h, b)
           /\ h.word[s] \in A \cup {GC_NULL} /\ h.word[s] \in Addr
<1>1. /\ h \in Heap /\ A \subseteq Addr /\ a \in Addr /\ a \in Nat /\ h.word[a] \in Nat
      /\ ObjectWords(h, a) = 2 + h.word[a] /\ GC_NULL \in Addr
      /\ h.word[s] \in A \cup {GC_NULL}
  <2>1. h \in Heap /\ A \subseteq Addr /\ h.word[s] \in A \cup {GC_NULL}
    BY DEF Sound
  <2> QED
    BY <2>1, Numbers, WordTypes DEF ObjectWords, Addr
<1>2. h.tag[a].ref /\ s \in (a + 2) .. (a + 2 + h.word[a] - 1)
  BY DEF RefSlots
<1>3. (s - a - 2) \in Nat /\ s - a - 2 < h.word[a] /\ s = a + Header + (s - a - 2)
  BY <1>1, <1>2
<1>4. /\ s \in Addr /\ s \notin A
      /\ \A b \in A : b # a => s < b \/ s >= b + ObjectWords(h, b)
  BY <1>3, SoundElement
<1>5. s \in Nat /\ s >= a + Header /\ s < a + ObjectWords(h, a)
  BY <1>1, <1>2
<1>6. h.word[s] \in Addr
  BY <1>1
<1> QED
  BY <1>1, <1>2, <1>4, <1>5, <1>6

\* What it takes to be sound is kept where the arrays and the other words are.
LEMMA StoreSound ==
    ASSUME NEW h, NEW rs, NEW A, Sound(h, rs, A), NEW a \in A, NEW k \in Nat, k < h.word[a],
           NEW x \in Word, h.tag[a].ref => x \in A \cup {GC_NULL},
           NEW g, g = [h EXCEPT !.word[a + Header + k] = x]
    PROVE  /\ Sound(g, rs, A) /\ g.watermark = h.watermark /\ SameArrays(h, g, A)
           /\ g.word[a + Header + k] = x /\ a + Header + k \in Addr
           /\ \A y \in Addr : y # a + Header + k => g.word[y] = h.word[y]
<1> DEFINE s == a + Header + k
<1>1. /\ h \in Heap /\ A \subseteq Addr
      /\ \A b \in A : b + ObjectWords(h, b) <= HeapEnd
      /\ \A b, c \in A : b < c => b + ObjectWords(h, b) <= c
      /\ rs \in [RootSlots -> A \cup {GC_NULL}]
      /\ \A b \in A : \A t \in RefSlots(h, b) : h.word[t] \in A \cup {GC_NULL}
  BY DEF Sound
<1>2. /\ s \in Addr /\ s \notin A
      /\ \A b \in A : b # a => s < b \/ s >= b + ObjectWords(h, b)
  BY SoundElement
<1> HIDE DEF s
<1>3. /\ h = [word |-> h.word, tag |-> h.tag, watermark |-> h.watermark]
      /\ h.word \in [Addr -> Word] /\ h.tag \in [Addr -> Tag] /\ h.watermark \in 0 .. HeapEnd
  BY <1>1 DEF Heap
<1>4. /\ g \in Heap /\ g.tag = h.tag /\ g.watermark = h.watermark
      /\ g.word = [h.word EXCEPT ![s] = x]
  BY <1>3 DEF Heap, s
<1>5. g.word[s] = x /\ \A y \in Addr : y # s => g.word[y] = h.word[y]
  BY <1>2, <1>3, <1>4
<1>6. \A b \in A : g.word[b] = h.word[b]
  BY <1>1, <1>2, <1>5
<1>7. \A b \in A : ObjectWords(g, b) = ObjectWords(h, b) /\ RefSlots(g, b) = RefSlots(h, b)
  BY <1>4, <1>6 DEF ObjectWords, RefSlots
<1>8. ASSUME NEW b \in A, NEW t \in RefSlots(h, b) PROVE g.word[t] \in A \cup {GC_NULL}
  <2>1. /\ t \in Addr /\ t \in Nat /\ b \in Nat /\ t >= b + Header /\ t < b + ObjectWords(h, b)
        /\ h.tag[b].ref /\ h.word[t] \in A \cup {GC_NULL}
    BY SoundSlots
  <2>2. CASE t # s
    BY <2>1, <2>2, <1>5
  <2>3. CASE t = s
    <3>1. ObjectWords(h, b) \in Nat /\ (b # a => s < b \/ s >= b + ObjectWords(h, b))
      BY <1>1, <1>2, <2>1, WordTypes
    <3>2. b = a
      BY <2>1, <2>3, <3>1
    <3> QED
      BY <2>1, <2>3, <3>2, <1>5
  <2> QED
    BY <2>2, <2>3
<1>9. Sound(g, rs, A)
  BY <1>1, <1>4, <1>7, <1>8 DEF Sound
<1> QED
  BY <1>2, <1>4, <1>5, <1>6, <1>9 DEF s, SameArrays

LEMMA RootSound ==
    ASSUME NEW h, NEW rs, NEW A, Sound(h, rs, A), NEW r, NEW x \in A \cup {GC_NULL}
    PROVE  Sound(h, [rs EXCEPT ![r] = x], A)
<1> DEFINE B == A \cup {GC_NULL}
<1>1. rs \in [RootSlots -> B]
  BY DEF Sound
<1> HIDE DEF B
<1>2. x \in B
  BY DEF B
<1>3. [rs EXCEPT ![r] = x] \in [RootSlots -> B]
  BY <1>1, <1>2
<1> QED
  BY <1>3 DEF Sound, B

\* AIASTORE, IASTORE: one element of an allocated array is overwritten, by null
\* or an allocated array when it holds references.
LEMMA StoreKeeps ==
    ASSUME NEW h, NEW rs, NEW start, NEW end, WellFormed(h, rs, start, end),
           NEW a \in Allocated(h, start, end), NEW k \in Nat, k < ObjectLength(h, a),
           NEW x \in Word,
           h.tag[a].ref => x \in Allocated(h, start, end) \cup {GC_NULL},
           NEW g, g = [h EXCEPT !.word[a + Header + k] = x]
    PROVE  /\ WellFormed(g, rs, start, end) /\ g.watermark = h.watermark
           /\ SameChunks(h, g, start, end)
<1> DEFINE s == a + Header + k
           A == Allocated(h, start, end)
<1>1. /\ h \in Heap /\ start \in Nat /\ end \in Nat /\ start <= end /\ end <= HeapEnd
      /\ Tiled(h, start, end)
      /\ rs \in [RootSlots -> A \cup {GC_NULL}]
      /\ \A b \in A : \A t \in RefSlots(h, b) : h.word[t] \in A \cup {GC_NULL}
  BY DEF WellFormed
<1>2. s \in Addr /\ s \notin Headers(h, start, end) /\ start <= s /\ s < end
  BY SlotsInside
<1>3. /\ h = [word |-> h.word, tag |-> h.tag, watermark |-> h.watermark]
      /\ h.word \in [Addr -> Word] /\ h.tag \in [Addr -> Tag] /\ h.watermark \in 0 .. HeapEnd
  BY <1>1 DEF Heap
<1>4. /\ g \in Heap /\ g.tag = h.tag /\ g.watermark = h.watermark
      /\ g.word = [h.word EXCEPT ![s] = x]
  BY <1>3 DEF Heap
<1>5. \A y \in Addr : y # s => g.word[y] = h.word[y]
  BY <1>3, <1>4
<1>6. \A y \in Headers(h, start, end) : g.word[y] = h.word[y]
  BY <1>2, <1>5, HeadersWithin
<1>7. Headers(g, start, end) = Headers(h, start, end) /\ Tiled(g, start, end)
  <2>1. \A y \in Addr : start <= y /\ y < end =>
              /\ g.tag[y].head <=> h.tag[y].head
              /\ h.tag[y].head => g.word[y] = h.word[y]
    BY <1>4, <1>6 DEF Headers
  <2>2. start \in Nat /\ end \in Nat /\ Tiled(h, start, end)
    BY <1>1
  <2> QED
    BY <2>1, <2>2, TiledSame, Zenon
<1>8. Allocated(g, start, end) = A
  BY <1>4, <1>7 DEF Allocated
<1>9. \A b \in A : RefSlots(g, b) = RefSlots(h, b)
  BY <1>4, <1>6 DEF RefSlots, Allocated
<1>10. ASSUME NEW b \in A, NEW t \in RefSlots(h, b)
       PROVE  g.word[t] \in A \cup {GC_NULL}
  <2>1. h.word[t] \in A \cup {GC_NULL}
    BY <1>1
  <2>2. CASE t # s
    <3>1. t \in Addr
      <4>1. b \in Addr /\ b \in Nat /\ h.word[b] \in Nat
        BY <1>1, HeadersWithin, WordTypes DEF Allocated
      <4>2. t \in (b + 2) .. (b + 2 + h.word[b] - 1)
        BY DEF RefSlots
      <4>3. (t - b - 2) \in Nat /\ t - b - 2 < ObjectLength(h, b) /\ t = b + 2 + (t - b - 2)
        BY <4>1, <4>2 DEF ObjectLength
      <4> QED
        BY <4>3, SlotsInside
    <3> QED
      BY <2>1, <2>2, <3>1, <1>5
  <2>3. CASE t = s
    <3>1. b = a
      <4>1. /\ b \in Headers(h, start, end) /\ a \in Headers(h, start, end)
            /\ a \in Nat /\ b \in Nat /\ a \in Addr /\ b \in Addr
            /\ h.word[b] \in Nat /\ h.word[a] \in Nat
        BY <1>1, HeadersWithin, WordTypes DEF Allocated
      <4>2. t \in (b + 2) .. (b + 2 + h.word[b] - 1)
        BY DEF RefSlots
      <4>3. ObjectWords(h, a) = 2 + h.word[a] /\ ObjectWords(h, b) = 2 + h.word[b]
        BY DEF ObjectWords
      <4>4. s < a + ObjectWords(h, a) /\ s < b + ObjectWords(h, b) /\ s >= a /\ s >= b
        BY <4>1, <4>2, <4>3, <2>3 DEF ObjectLength
      <4>5. ~(a < b) /\ ~(b < a)
        <5>1. /\ a < b => a + ObjectWords(h, a) <= b
              /\ b < a => b + ObjectWords(h, b) <= a
          BY <4>1, <1>1 DEF Tiled
        <5> QED
          BY <4>1, <4>3, <4>4, <5>1
      <4> QED
        BY <4>1, <4>5
    <3>2. h.tag[a].ref
      BY <3>1 DEF RefSlots
    <3> QED
      BY <2>3, <3>2, <1>2, <1>3, <1>4
  <2> QED
    BY <2>2, <2>3
<1> QED
  BY <1>1, <1>4, <1>6, <1>7, <1>8, <1>9, <1>10 DEF WellFormed, SameChunks

\* AIALOAD, a popped reference, a pushed array: one root is overwritten, by null
\* or an allocated array.
LEMMA RootKeeps ==
    ASSUME NEW h, NEW rs, NEW start, NEW end, WellFormed(h, rs, start, end),
           NEW r, NEW x \in Allocated(h, start, end) \cup {GC_NULL}
    PROVE  WellFormed(h, [rs EXCEPT ![r] = x], start, end)
<1> DEFINE A == Allocated(h, start, end) \cup {GC_NULL}
<1>1. rs \in [RootSlots -> A]
  BY DEF WellFormed
<1> HIDE DEF A
<1>2. x \in A
  BY DEF A
<1>3. [rs EXCEPT ![r] = x] \in [RootSlots -> A]
  BY <1>1, <1>2
<1> QED
  BY <1>3 DEF WellFormed, A

\* The headers from start on are those of h and a.
OneMore(h, g, start, a) ==
    Headers(g, start, g.watermark) = Headers(h, start, h.watermark) \cup {a}

\* A chunk is appended: the region grows by one allocated array, whose elements
\* are null.
LEMMA AppendKeeps ==
    ASSUME NEW h, NEW rs, NEW start, WellFormed(h, rs, start, h.watermark), Base <= h.watermark,
           NEW length \in Nat, NEW is_ref \in BOOLEAN, NEW id \in Ids \cup {NoId},
           NEW a, a = RawAlloc(h, length, is_ref, id), a.ref # SENTINEL
    PROVE  /\ WellFormed(a.heap, rs, start, a.heap.watermark)
           /\ a.ref \in Allocated(a.heap, start, a.heap.watermark)
           /\ a.heap.watermark = h.watermark + Header + length
           /\ OneMore(h, a.heap, start, a.ref)
<1> DEFINE end == h.watermark
           g == a.heap
           n == g.watermark
           A == Allocated(h, start, end)
           B == Allocated(g, start, n)
<1>1. /\ h \in Heap /\ start \in Nat /\ end \in Nat /\ start <= end /\ end <= HeapEnd
      /\ Tiled(h, start, end)
      /\ rs \in [RootSlots -> A \cup {GC_NULL}]
      /\ \A b \in A : \A t \in RefSlots(h, b) : h.word[t] \in A \cup {GC_NULL}
  BY DEF WellFormed
<1>2. /\ a.ref = end /\ end \in Addr /\ length \in Word
      /\ g \in Heap /\ n = end + Header + length /\ n <= HeapEnd
      /\ g.word[end] = length /\ g.tag[end] = ArrayTag(is_ref, id)
      /\ \A x \in Addr : x > end /\ x < n => g.word[x] = 0 /\ g.tag[x] = NoTag
      /\ \A x \in Addr : x < end => g.word[x] = h.word[x] /\ g.tag[x] = h.tag[x]
  BY <1>1, Numbers, RawAllocEffect
<1> HIDE DEF g, n, end
<1>3. n \in Nat /\ end < n /\ g.tag[end].head /\ ~g.tag[end].free
  BY <1>1, <1>2 DEF ArrayTag
<1>4. Headers(g, start, end) = Headers(h, start, end) /\ Tiled(g, start, end)
  <2>1. \A y \in Addr : start <= y /\ y < end =>
              /\ g.tag[y].head <=> h.tag[y].head
              /\ h.tag[y].head => g.word[y] = h.word[y]
    BY <1>2
  <2> QED
    BY <2>1, <1>1, TiledSame
<1>5. Headers(g, end, n) = {end} /\ Tiled(g, end, n)
  <2>1. end + ObjectWords(g, end) = n
    BY <1>1, <1>2 DEF ObjectWords
  <2>2. \A x \in Addr : end < x /\ x < n => ~g.tag[x].head
    BY <1>2 DEF NoTag
  <2> QED
    BY <1>2, <1>3, <2>1, <2>2, TiledOne
<1>6. Tiled(g, start, n) /\ Headers(g, start, n) = Headers(h, start, end) \cup {end}
  BY <1>1, <1>2, <1>3, <1>4, <1>5, TiledJoin, HeadersJoin
<1>7. \A x \in Headers(h, start, end) : x \in Addr /\ x < end
  BY HeadersWithin
<1>8. B = A \cup {end}
  BY <1>2, <1>3, <1>6, <1>7 DEF Allocated
<1>9. ASSUME NEW b \in A, NEW t \in RefSlots(g, b)
      PROVE  g.word[t] \in B \cup {GC_NULL}
  <2>1. b \in Addr /\ b < end
    BY <1>7 DEF Allocated
  <2>2. t \in RefSlots(h, b)
    BY <2>1, <1>2, <1>9 DEF RefSlots
  <2>3. t \in Addr /\ t < end
    <3>1. b \in Nat /\ h.word[b] \in Nat
      BY <2>1, <1>1, Numbers, WordTypes
    <3>2. t \in (b + 2) .. (b + 2 + h.word[b] - 1)
      BY <2>2 DEF RefSlots
    <3>3. (t - b - 2) \in Nat /\ t - b - 2 < ObjectLength(h, b) /\ t = b + 2 + (t - b - 2)
      BY <3>1, <3>2 DEF ObjectLength
    <3> QED
      BY <3>3, SlotsInside DEF end
  <2> QED
    BY <2>2, <2>3, <1>1, <1>2, <1>8
<1>10. ASSUME NEW t \in RefSlots(g, end)
       PROVE  g.word[t] = GC_NULL
  <2>1. t \in (end + 2) .. (end + 2 + length - 1)
    BY <1>2 DEF RefSlots
  <2>2. t \in Addr /\ t > end /\ t < n
    BY <2>1, <1>1, <1>2, Numbers DEF Addr
  <2> QED
    BY <2>2, <1>2
<1>11. rs \in [RootSlots -> B \cup {GC_NULL}]
  <2>1. A \cup {GC_NULL} \subseteq B \cup {GC_NULL}
    BY <1>8
  <2> QED
    BY <2>1, <1>1
<1>12. WellFormed(g, rs, start, n)
  BY <1>1, <1>2, <1>3, <1>6, <1>8, <1>9, <1>10, <1>11 DEF WellFormed
<1> QED
  BY <1>2, <1>6, <1>8, <1>12 DEF g, n, end, OneMore

\* An array is formatted over a free chunk a: the region gains that array, whose
\* elements are null, and what lies outside the chunk is untouched.
LEMMA ReformatKeeps ==
    ASSUME NEW h, NEW rs, NEW start, NEW end, WellFormed(h, rs, start, end),
           NEW a \in Headers(h, start, end), h.tag[a].free,
           NEW g \in Heap, Tiled(g, start, end),
           \A x \in Addr : x < a \/ x >= a + ObjectWords(h, a) =>
              g.word[x] = h.word[x] /\ g.tag[x] = h.tag[x],
           Allocated(g, start, end) = Allocated(h, start, end) \cup {a},
           \A s \in RefSlots(g, a) : g.word[s] = GC_NULL
    PROVE  WellFormed(g, rs, start, end)
<1> DEFINE A == Allocated(h, start, end)
           B == Allocated(g, start, end)
<1>1. /\ h \in Heap /\ start \in Nat /\ end \in Nat /\ start <= end /\ end <= HeapEnd
      /\ Tiled(h, start, end)
      /\ rs \in [RootSlots -> A \cup {GC_NULL}]
      /\ \A b \in A : \A t \in RefSlots(h, b) : h.word[t] \in A \cup {GC_NULL}
  BY DEF WellFormed
<1>2. ASSUME NEW b \in A, NEW t \in RefSlots(g, b)
      PROVE  g.word[t] \in B \cup {GC_NULL}
  <2>1. b \in Headers(h, start, end) /\ b # a
    BY DEF Allocated
  <2>2. /\ a \in Nat /\ b \in Nat /\ b \in Addr /\ ObjectWords(h, a) \in Nat
        /\ ObjectWords(h, b) \in Nat /\ ObjectWords(h, b) >= 2 /\ ObjectWords(h, a) >= 2
    BY <1>1, <2>1, TiledWithin
  <2>3. \/ a < b /\ a + ObjectWords(h, a) <= b
        \/ b < a /\ b + ObjectWords(h, b) <= a
    BY <1>1, <2>1, ChunksApart
  <2>4. g.word[b] = h.word[b] /\ g.tag[b] = h.tag[b]
    BY <2>2, <2>3
  <2>5. t \in RefSlots(h, b)
    BY <1>2, <2>4 DEF RefSlots
  <2>6. t \in Addr /\ t \in Nat /\ t >= b + 2 /\ t < b + ObjectWords(h, b)
    BY <2>1, <2>5, <1>1, SlotRange
  <2>7. t < a \/ t >= a + ObjectWords(h, a)
    BY <2>2, <2>3, <2>6
  <2>8. g.word[t] = h.word[t]
    BY <2>6, <2>7
  <2> QED
    BY <2>5, <2>8, <1>1
<1>3. A \cup {GC_NULL} \subseteq B \cup {GC_NULL}
  OBVIOUS
<1>4. rs \in [RootSlots -> B \cup {GC_NULL}]
  BY <1>1, <1>3
<1>5. \A b \in B : \A t \in RefSlots(g, b) : g.word[t] \in B \cup {GC_NULL}
  BY <1>2
<1> QED
  BY <1>1, <1>4, <1>5 DEF WellFormed

-----------------------------------------------------------------------------
(* The instructions.                                                        *)

\* The array behind a root that HasElement admits is allocated.
LEMMA RootAllocated ==
    ASSUME NEW start, NEW end, WellFormed(heap, roots, start, end),
           NEW r \in RootSlots, roots[r] # GC_NULL
    PROVE  roots[r] \in Allocated(heap, start, end)
  BY DEF WellFormed

\* An instruction that needs no collector keeps the heap well formed, and what
\* it does not touch.
LEMMA ProgramKeeps ==
    ASSUME NEW start, NEW end, WellFormed(heap, roots, start, end),
           ProgramStep \/ \E r, s \in RootSlots, k \in Elements : AIAStore(r, k, s)
    PROVE  /\ WellFormed(heap', roots', start, end)
           /\ heap'.watermark = heap.watermark
           /\ SameChunks(heap, heap', start, end)
           /\ pc = "run" /\ UNCHANGED <<pc, req, out, net>>
<1>1. ASSUME NEW r \in RootSlots, NEW s \in RootSlots, NEW k \in Elements, AIALoad(r, k, s)
      PROVE  /\ WellFormed(heap', roots', start, end) /\ heap'.watermark = heap.watermark
             /\ SameChunks(heap, heap', start, end)
  <2>1. /\ roots[r] # GC_NULL /\ heap.tag[roots[r]].ref /\ heap.tag[roots[r]].ref = TRUE
        /\ k < ObjectLength(heap, roots[r]) /\ heap' = heap
        /\ roots' = [roots EXCEPT ![s] = heap.word[roots[r] + 2 + k]]
    BY <1>1 DEF AIALoad, HasElement, SlotAddr
  <2>2. roots[r] \in Allocated(heap, start, end) /\ roots[r] \in Addr /\ roots[r] \in Nat
    BY <2>1, RootAllocated, HeadersWithin DEF Allocated
  <2>3. heap.word[roots[r]] \in Nat /\ k \in Nat
    BY <2>2, MutatorAssumption, WordTypes DEF MutatorAssumption, WellFormed
  <2>4. roots[r] + 2 + k \in RefSlots(heap, roots[r])
    BY <2>1, <2>2, <2>3 DEF RefSlots, ObjectLength
  <2>5. heap.word[roots[r] + 2 + k] \in Allocated(heap, start, end) \cup {GC_NULL}
    BY <2>2, <2>4 DEF WellFormed
  <2> QED
    BY <2>1, <2>5, RootKeeps DEF SameChunks
<1>2. ASSUME NEW r \in RootSlots, NEW k \in Elements, NEW v \in Ints, IAStore(r, k, v)
      PROVE  /\ WellFormed(heap', roots', start, end) /\ heap'.watermark = heap.watermark
             /\ SameChunks(heap, heap', start, end)
  <2>1. /\ roots[r] # GC_NULL /\ heap.tag[roots[r]].ref = FALSE
        /\ k < ObjectLength(heap, roots[r]) /\ roots' = roots
        /\ heap' = [heap EXCEPT !.word[roots[r] + 2 + k] = v]
    BY <1>2 DEF IAStore, WriteElement, HasElement, SlotAddr
  <2>2. k \in Nat /\ v \in Word /\ roots[r] \in Allocated(heap, start, end)
    BY <2>1, RootAllocated, MutatorAssumption DEF MutatorAssumption
  <2> QED
    BY <2>1, <2>2, StoreKeeps
<1>3. ASSUME NEW r \in RootSlots, NEW s \in RootSlots, NEW k \in Elements, AIAStore(r, k, s)
      PROVE  /\ WellFormed(heap', roots', start, end) /\ heap'.watermark = heap.watermark
             /\ SameChunks(heap, heap', start, end)
  <2>1. /\ roots[r] # GC_NULL
        /\ k < ObjectLength(heap, roots[r]) /\ roots' = roots
        /\ heap' = [heap EXCEPT !.word[roots[r] + 2 + k] = roots[s]]
    BY <1>3 DEF AIAStore, WriteElement, HasElement, SlotAddr
  <2>2. k \in Nat /\ roots[r] \in Allocated(heap, start, end)
    BY <2>1, RootAllocated, MutatorAssumption DEF MutatorAssumption
  <2>3. roots[s] \in Allocated(heap, start, end) \cup {GC_NULL}
    BY DEF WellFormed
  <2>4. roots[s] \in Word
    BY <2>3, Numbers, HeadersWithin DEF Allocated, Word
  <2> QED
    BY <2>1, <2>2, <2>3, <2>4, StoreKeeps
<1>4. ASSUME NEW r \in RootSlots, Pop(r)
      PROVE  /\ WellFormed(heap', roots', start, end) /\ heap'.watermark = heap.watermark
             /\ SameChunks(heap, heap', start, end)
  BY <1>4, RootKeeps DEF Pop, SameChunks
<1>5. pc = "run" /\ UNCHANGED <<pc, req, out, net>>
  BY DEF ProgramStep, AIALoad, IAStore, AIAStore, WriteElement, Pop
<1> QED
  BY <1>1, <1>2, <1>3, <1>4, <1>5 DEF ProgramStep

\* The element of an array that HasElement admits.
LEMMA ElementSound ==
    ASSUME NEW A, Sound(heap, roots, A), NEW r \in RootSlots, NEW k \in Elements, NEW ref,
           HasElement(r, k, ref)
    PROVE  /\ roots[r] \in A /\ roots[r] \in Addr /\ k \in Nat /\ k < heap.word[roots[r]]
           /\ heap.tag[roots[r]].ref = ref /\ SlotAddr(r, k) = roots[r] + Header + k
           /\ ref = TRUE => /\ SlotAddr(r, k) \in RefSlots(heap, roots[r])
                            /\ heap.word[SlotAddr(r, k)] \in A \cup {GC_NULL}
<1>1. /\ roots[r] \in A /\ roots[r] \in Addr /\ k \in Nat /\ k < heap.word[roots[r]]
      /\ heap.tag[roots[r]].ref = ref /\ SlotAddr(r, k) = roots[r] + 2 + k
      /\ heap \in Heap
  BY MutatorAssumption DEF MutatorAssumption, HasElement, Sound, ObjectLength, SlotAddr
<1>2. roots[r] \in Nat /\ heap.word[roots[r]] \in Nat
  BY <1>1, Numbers, WordTypes
<1>3. ASSUME ref = TRUE PROVE SlotAddr(r, k) \in RefSlots(heap, roots[r])
  BY <1>1, <1>2, <1>3 DEF RefSlots
<1> QED
  BY <1>1, <1>3 DEF Sound

\* An instruction that needs no collector keeps that, and the arrays.
LEMMA ProgramSound ==
    ASSUME NEW A, Sound(heap, roots, A),
           ProgramStep \/ \E r, s \in RootSlots, k \in Elements : AIAStore(r, k, s)
    PROVE  /\ Sound(heap', roots', A) /\ heap'.watermark = heap.watermark
           /\ SameArrays(heap, heap', A)
           /\ pc = "run" /\ UNCHANGED <<pc, req, out, net>>
<1>1. ASSUME NEW r \in RootSlots, NEW s \in RootSlots, NEW k \in Elements, AIALoad(r, k, s)
      PROVE  /\ Sound(heap', roots', A) /\ heap'.watermark = heap.watermark
             /\ SameArrays(heap, heap', A)
  <2>1. /\ HasElement(r, k, TRUE) /\ heap' = heap
        /\ roots' = [roots EXCEPT ![s] = heap.word[SlotAddr(r, k)]]
    BY <1>1 DEF AIALoad
  <2>2. heap.word[SlotAddr(r, k)] \in A \cup {GC_NULL}
    BY <2>1, ElementSound
  <2> QED
    BY <2>1, <2>2, RootSound DEF SameArrays
<1>2. ASSUME NEW r \in RootSlots, NEW k \in Elements, NEW v \in Ints, IAStore(r, k, v)
      PROVE  /\ Sound(heap', roots', A) /\ heap'.watermark = heap.watermark
             /\ SameArrays(heap, heap', A)
  <2>1. /\ HasElement(r, k, FALSE) /\ roots' = roots
        /\ heap' = [heap EXCEPT !.word[SlotAddr(r, k)] = v]
    BY <1>2 DEF IAStore, WriteElement
  <2>2. /\ roots[r] \in A /\ k \in Nat /\ k < heap.word[roots[r]] /\ ~heap.tag[roots[r]].ref
        /\ SlotAddr(r, k) = roots[r] + Header + k /\ v \in Word
    BY <2>1, ElementSound, MutatorAssumption DEF MutatorAssumption
  <2>3. heap' = [heap EXCEPT !.word[roots[r] + Header + k] = v]
    BY <2>1, <2>2
  <2> QED
    BY <2>1, <2>2, <2>3, StoreSound
<1>3. ASSUME NEW r \in RootSlots, NEW s \in RootSlots, NEW k \in Elements, AIAStore(r, k, s)
      PROVE  /\ Sound(heap', roots', A) /\ heap'.watermark = heap.watermark
             /\ SameArrays(heap, heap', A)
  <2>1. /\ HasElement(r, k, TRUE) /\ roots' = roots
        /\ heap' = [heap EXCEPT !.word[SlotAddr(r, k)] = roots[s]]
    BY <1>3 DEF AIAStore, WriteElement
  <2>2. /\ roots[r] \in A /\ k \in Nat /\ k < heap.word[roots[r]]
        /\ SlotAddr(r, k) = roots[r] + Header + k
    BY <2>1, ElementSound
  <2>3. roots[s] \in A \cup {GC_NULL} /\ roots[s] \in Word
    <3>1. roots[s] \in A \cup {GC_NULL} /\ A \subseteq Addr
      BY DEF Sound
    <3>2. GC_NULL \in Word
      BY Numbers DEF Word
    <3> QED
      BY <3>1, <3>2, Numbers
  <2>4. heap' = [heap EXCEPT !.word[roots[r] + Header + k] = roots[s]]
    BY <2>1, <2>2
  <2> QED
    BY <2>1, <2>2, <2>3, <2>4, StoreSound
<1>4. ASSUME NEW r \in RootSlots, Pop(r)
      PROVE  /\ Sound(heap', roots', A) /\ heap'.watermark = heap.watermark
             /\ SameArrays(heap, heap', A)
  BY <1>4, RootSound DEF Pop, SameArrays
<1>5. pc = "run" /\ UNCHANGED <<pc, req, out, net>>
  BY DEF ProgramStep, AIALoad, IAStore, AIAStore, WriteElement, Pop
<1> QED
  BY <1>1, <1>2, <1>3, <1>4, <1>5 DEF ProgramStep

\* The heap gc_host_init leaves, and null roots.
LEMMA InitHeap ==
    ASSUME MutatorInit
    PROVE  /\ WellFormed(heap, roots, Base, Base) /\ heap.watermark = Base
           /\ Headers(heap, Base, Base) = {}
           /\ \A a \in Addr : heap.tag[a] = NoTag
           /\ ~heap.tag[GC_NULL].ref
           /\ pc = "run" /\ req \in Request /\ out \in Outs /\ net \in Int
<1>0. /\ heap = EmptyHeap /\ roots = [r \in RootSlots |-> GC_NULL] /\ pc = "run" /\ req = NoReq
      /\ out = ZeroOut /\ net = 0
  BY DEF MutatorInit
<1>1. heap \in Heap /\ heap.watermark = Base
  <2>1. 0 \in Word /\ Base \in 0 .. HeapEnd /\ Stale \in Word
    BY Numbers DEF Word
  <2>2. [a \in Addr |-> IF a < Base THEN 0 ELSE Stale] \in [Addr -> Word]
    BY <2>1
  <2>3. [a \in Addr |-> NoTag] \in [Addr -> Tag]
    BY TagTypes
  <2> QED
    BY <1>0, <2>1, <2>2, <2>3 DEF EmptyHeap, Heap
<1>2. \A a \in Addr : heap.tag[a] = NoTag
  BY <1>0 DEF EmptyHeap
<1>3. ~heap.tag[GC_NULL].ref
  <2>1. GC_NULL \in Addr
    BY Numbers DEF Addr
  <2> QED
    BY <1>2, <2>1 DEF NoTag
<1>4. Headers(heap, Base, Base) = {} /\ Tiled(heap, Base, Base)
  BY TiledEmpty
<1>5. Allocated(heap, Base, Base) = {}
  BY <1>4 DEF Allocated
<1>6. WellFormed(heap, roots, Base, Base)
  BY <1>0, <1>1, <1>4, <1>5, Numbers DEF WellFormed
<1>7. req \in Request /\ out \in Outs /\ net \in Int
  BY <1>0 DEF Request, Outs, ZeroOut
<1> QED
  BY <1>0, <1>1, <1>2, <1>3, <1>4, <1>6, <1>7

\* What gc_alloc is asked for, at its first attempt and at its second.
LEMMA AskedTypes ==
    ASSUME NEW length, NEW ref, NEW id \in FreshIds,
           \/ length \in Lengths /\ ref \in Kinds
           \/ req \in Request /\ length = req.length /\ ref = req.ref
    PROVE  length \in Nat /\ ref \in BOOLEAN /\ id \in Ids \cup {NoId}
<1>1. id \in Ids \cup {NoId}
  BY DEF FreshIds
<1>2. CASE length \in Lengths /\ ref \in Kinds
  BY <1>1, <1>2, MutatorAssumption DEF MutatorAssumption
<1>3. CASE req = NoReq /\ length = req.length /\ ref = req.ref
  BY <1>1, <1>3 DEF NoReq
<1>4. CASE /\ req \in [slot : RootSlots, length : Lengths, ref : BOOLEAN]
           /\ length = req.length /\ ref = req.ref
  <2>1. req.length \in Lengths /\ req.ref \in BOOLEAN
    BY <1>4
  <2> QED
    BY <1>1, <1>4, <2>1, MutatorAssumption DEF MutatorAssumption
<1> QED
  BY <1>2, <1>3, <1>4 DEF Request

\* An array that was allocated is pushed.
LEMMA PushEffect ==
    ASSUME NEW a, NEW start, NEW end, WellFormed(a.heap, roots, start, end), NEW r,
           a.ref \in Allocated(a.heap, start, end), Push(r, a), net \in Int
    PROVE  WellFormed(a.heap, roots', start, end) /\ net' \in Int
<1>1. WellFormed(a.heap, [roots EXCEPT ![r] = a.ref], start, end)
  BY RootKeeps
<1>2. roots' = [roots EXCEPT ![r] = a.ref]
  BY DEF Push
<1>3. a.heap \in Heap /\ a.ref \in Addr
  BY DEF WellFormed, Allocated, Headers
<1>4. ObjectWords(a.heap, a.ref) \in Nat
  BY <1>3, WordTypes
<1> QED
  BY <1>1, <1>2, <1>4 DEF Push
-----------------------------------------------------------------------------
(* What the program can reach, and what it sees there.                      *)

\* C is closed under following a reference.
Closed(h, C) == \A a \in C : Children(h, a) \subseteq C

\* Reachable is the least set that holds S and is closed.
LEMMA ReachableLeast ==
    ASSUME NEW h, NEW S, NEW L, L = Reachable(h, S)
    PROVE  /\ L \subseteq Addr \ {GC_NULL}
           /\ S \cap (Addr \ {GC_NULL}) \subseteq L
           /\ Closed(h, L)
           /\ \A C \in SUBSET Addr :
                 S \cap (Addr \ {GC_NULL}) \subseteq C /\ Closed(h, C) => L \subseteq C
<1> DEFINE N == [a \in Addr |-> Children(h, a)]
           T == S \cap (Addr \ {GC_NULL})
           Next(R) == R \cup UNION {Children(h, a) : a \in R}
           Equation(c) == c = [R \in SUBSET Addr |-> IF Next(R) = R THEN R ELSE c[Next(R)]]
           c == CHOOSE f : Equation(f)
           D == Addr \ {GC_NULL}
<1>1. L = c[T]
  BY DEF Reachable
<1>2. \A a : Children(h, a) \subseteq Addr \ {GC_NULL}
  BY DEF Children
<1>3. N \in [Addr -> SUBSET Addr] /\ \A a \in Addr : N[a] = Children(h, a)
  BY <1>2
<1>4. \A R \in SUBSET Addr : Step(N, R) = Next(R)
  BY <1>3 DEF Step
<1>5. \A C \in SUBSET Addr : ClosedIn(N, C) <=> Closed(h, C)
  BY <1>3 DEF ClosedIn, Closed
<1> HIDE DEF N, Next
<1>6. \E f : f = [R \in SUBSET Addr |-> IF Step(N, R) = R THEN R ELSE f[Step(N, R)]]
  BY <1>3, ClosureExists, SMTT(10), ZenonT(30)
<1>7. \E f : Equation(f)
  <2>1. PICK f : f = [R \in SUBSET Addr |-> IF Step(N, R) = R THEN R ELSE f[Step(N, R)]]
    BY <1>6
  <2>2. [R \in SUBSET Addr |-> IF Step(N, R) = R THEN R ELSE f[Step(N, R)]]
          = [R \in SUBSET Addr |-> IF Next(R) = R THEN R ELSE f[Next(R)]]
    BY <1>4
  <2> QED
    BY <2>1, <2>2
<1>8. Equation(c)
  BY <1>7
<1>9. Closes(Addr, N, c)
  BY <1>4, <1>8 DEF Closes
<1> HIDE DEF c, Equation
<1>10. D \in SUBSET Addr /\ IsFiniteSet(D) /\ ClosedIn(N, D) /\ T \in SUBSET D
  <2>1. IsFiniteSet(Addr)
    BY FS_Interval, Numbers DEF Addr
  <2> QED
    BY <1>2, <1>5, <2>1, FS_Subset DEF Closed
<1> HIDE DEF D, T
<1>11. c[T] \subseteq D /\ LeastClosed(Addr, N, T, c[T])
  BY <1>3, <1>9, <1>10, ClosureLeast
<1> QED
  BY <1>1, <1>5, <1>10, <1>11 DEF D, T, LeastClosed

\* What the program reaches, and that it is readable: every array lies within
\* the memory and every slot holds an offset.
Live(h, rs) == Reachable(h, {rs[r] : r \in RootSlots})
Readable(h, L) ==
    \A a \in L : /\ h.word[a] \in Nat /\ a + Header + h.word[a] <= HeapEnd
                 /\ h.tag[a].ref => \A k \in 1 .. h.word[a] : h.word[a + Header + k - 1] \in Addr
Distinct(h, L) ==
    /\ \A a \in L : h.tag[a].id \in Ids
    /\ \A a, b \in L : h.tag[a].id = h.tag[b].id => a = b

\* The heap g holds at F[a] the array a of h, with its references carried along.
Carried(F, x) == IF x = GC_NULL THEN GC_NULL ELSE F[x]
SameArray(h, g, F, a) ==
    /\ g.word[F[a]] = h.word[a]
    /\ g.tag[F[a]].ref = h.tag[a].ref /\ g.tag[F[a]].id = h.tag[a].id
    /\ \A k \in 1 .. h.word[a] :
          g.word[F[a] + Header + k - 1] = IF h.tag[a].ref THEN Carried(F, h.word[a + Header + k - 1])
                                                          ELSE h.word[a + Header + k - 1]
Carries(h, g, F, L) ==
    \A a \in L : /\ F[a] \in Addr \ {GC_NULL} /\ F[a] + Header + h.word[a] <= HeapEnd
                 /\ SameArray(h, g, F, a)

\* The children of an array are what its slots hold.
LEMMA ChildrenAre ==
    ASSUME NEW h, NEW a \in Addr, h.word[a] \in Nat, a + Header + h.word[a] <= HeapEnd
    PROVE  Children(h, a) =
             IF h.tag[a].ref
             THEN {h.word[a + Header + k - 1] : k \in 1 .. h.word[a]} \cap (Addr \ {GC_NULL})
             ELSE {}
<1>1. CASE ~h.tag[a].ref
  BY <1>1 DEF Children, RefSlots
<1>2. CASE h.tag[a].ref
  <2>1. a \in Nat /\ HeapEnd \in Nat
    BY Numbers
  <2> DEFINE n == h.word[a]
  <2>2. n \in Nat /\ a + 2 + n <= HeapEnd
    OBVIOUS
  <2>3. RefSlots(h, a) = (a + 2) .. (a + 2 + n - 1)
    BY <1>2 DEF RefSlots
  <2> HIDE DEF n
  <2>4. \A s \in (a + 2) .. (a + 2 + n - 1) :
           s \in Addr /\ s - a - 1 \in 1 .. n /\ s = a + 2 + (s - a - 1) - 1
    BY <2>1, <2>2 DEF Addr
  <2>5. \A k \in 1 .. n : a + 2 + k - 1 \in (a + 2) .. (a + 2 + n - 1)
    BY <2>1, <2>2
  <2>6. {h.word[s] : s \in RefSlots(h, a) \cap Addr} = {h.word[a + 2 + k - 1] : k \in 1 .. n}
    BY <2>3, <2>4, <2>5
  <2> QED
    BY <1>2, <2>6 DEF Children, n
<1> QED
  BY <1>1, <1>2

\* What is reached in h is reached in g, where it was carried to.
LEMMA CarriedLive ==
    ASSUME NEW h, NEW g, NEW rs, NEW rs2, NEW F, NEW L, L = Live(h, rs), Readable(h, L),
           Carries(h, g, F, L), rs \in [RootSlots -> Addr],
           rs2 = [r \in RootSlots |-> Carried(F, rs[r])]
    PROVE  Live(g, rs2) = {F[a] : a \in L}
<1> DEFINE S == {rs[r] : r \in RootSlots}
           T == {rs2[r] : r \in RootSlots}
           M == Live(g, rs2)
           N == {F[a] : a \in L}
           Nonnull == Addr \ {GC_NULL}
<1>1. /\ L \subseteq Nonnull /\ S \cap Nonnull \subseteq L /\ Closed(h, L)
      /\ \A C \in SUBSET Addr : S \cap Nonnull \subseteq C /\ Closed(h, C) => L \subseteq C
  <2>1. L = Reachable(h, S)
    BY DEF Live
  <2> HIDE DEF S
  <2> QED
    BY <2>1, ReachableLeast
<1>2. /\ M \subseteq Nonnull /\ T \cap Nonnull \subseteq M /\ Closed(g, M)
      /\ \A C \in SUBSET Addr : T \cap Nonnull \subseteq C /\ Closed(g, C) => M \subseteq C
  <2>1. M = Reachable(g, T)
    BY DEF Live
  <2> HIDE DEF T, M
  <2> QED
    BY <2>1, ReachableLeast
<1> HIDE DEF M
<1>3. ASSUME NEW a \in L
      PROVE  /\ a \in Addr /\ F[a] \in Nonnull /\ h.word[a] \in Nat
             /\ Children(g, F[a]) = {F[x] : x \in Children(h, a)}
  <2>1. /\ a \in Addr /\ F[a] \in Addr /\ F[a] \in Nonnull
        /\ h.word[a] \in Nat /\ a + Header + h.word[a] <= HeapEnd
        /\ F[a] + Header + h.word[a] <= HeapEnd /\ SameArray(h, g, F, a)
        /\ h.tag[a].ref => \A k \in 1 .. h.word[a] : h.word[a + Header + k - 1] \in Addr
    BY <1>1 DEF Carries, Readable
  <2> DEFINE n == h.word[a]
             x(k) == h.word[a + Header + k - 1]
             y(k) == g.word[F[a] + Header + k - 1]
  <2>2. g.word[F[a]] = n /\ g.tag[F[a]].ref = h.tag[a].ref
    BY <2>1 DEF SameArray
  <2>3. Children(h, a) = IF h.tag[a].ref THEN {x(k) : k \in 1 .. n} \cap Nonnull ELSE {}
    BY <2>1, ChildrenAre
  <2>4. Children(g, F[a]) = IF h.tag[a].ref THEN {y(k) : k \in 1 .. n} \cap Nonnull ELSE {}
    BY <2>1, <2>2, ChildrenAre
  <2>5. CASE ~h.tag[a].ref
    BY <2>1, <2>3, <2>4, <2>5
  <2>6. CASE h.tag[a].ref
    <3>1. \A k \in 1 .. n : x(k) \in Addr /\ y(k) = Carried(F, x(k))
      BY <2>1, <2>6 DEF SameArray
    <3>2. \A k \in 1 .. n : x(k) \in Nonnull => x(k) \in L
      BY <1>1, <2>3, <2>6 DEF Closed
    <3>3. \A b \in L : F[b] \in Nonnull
      BY DEF Carries
    <3> HIDE DEF x, y, n
    <3>4. \A k \in 1 .. n : \/ x(k) = GC_NULL /\ y(k) = GC_NULL
                            \/ x(k) \in Nonnull /\ y(k) = F[x(k)] /\ y(k) \in Nonnull
      BY <3>1, <3>2, <3>3 DEF Carried
    <3>5. {y(k) : k \in 1 .. n} \cap Nonnull = {F[z] : z \in {x(k) : k \in 1 .. n} \cap Nonnull}
      BY <3>4
    <3> QED
      BY <2>1, <2>3, <2>4, <2>6, <3>5 DEF n
  <2> QED
    BY <2>5, <2>6
<1>4. \A r \in RootSlots : \/ rs[r] = GC_NULL /\ rs2[r] = GC_NULL
                           \/ rs[r] \in Nonnull /\ rs[r] \in L /\ rs2[r] = F[rs[r]]
  BY <1>1 DEF Carried
<1>5. M \subseteq N
  <2>1. N \in SUBSET Addr /\ T \cap Nonnull \subseteq N
    BY <1>3, <1>4
  <2>2. Closed(g, N)
    BY <1>1, <1>3 DEF Closed
  <2> QED
    BY <1>2, <2>1, <2>2
<1>6. N \subseteq M
  <2> DEFINE C == {a \in L : F[a] \in M}
  <2>1. C \in SUBSET Addr
    BY <1>1
  <2>2. S \cap Nonnull \subseteq C
    <3>1. \A r \in RootSlots : rs[r] \in Nonnull => rs[r] \in L /\ rs2[r] \in M
      <4>1. \A r \in RootSlots : rs[r] \in Nonnull => rs[r] \in L /\ rs2[r] \in Nonnull
        BY <1>3, <1>4
      <4>2. \A r \in RootSlots : rs2[r] \in T
        OBVIOUS
      <4> HIDE DEF T
      <4> QED
        BY <1>2, <4>1, <4>2
    <3> QED
      BY <1>4, <3>1
  <2>3. Closed(h, C)
    <3> SUFFICES ASSUME NEW a \in C, NEW x \in Children(h, a) PROVE x \in C
      BY DEF Closed
    <3>1. x \in L
      BY <1>1 DEF Closed
    <3>2. F[x] \in Children(g, F[a])
      BY <1>3
    <3> QED
      BY <3>1, <3>2, <1>2 DEF Closed
  <2>4. L \subseteq C
    BY <1>1, <2>1, <2>2, <2>3
  <2> QED
    BY <2>4
<1> QED
  BY <1>5, <1>6 DEF M

\* The program sees the same array.
LEMMA CarriedContents ==
    ASSUME NEW h, NEW g, NEW F, NEW L, L \subseteq Addr, Readable(h, L), Carries(h, g, F, L),
           NEW a \in L,
           h.tag[a].ref => \A k \in 1 .. h.word[a] :
              h.word[a + Header + k - 1] \in L \cup {GC_NULL}
    PROVE  Contents(g, F[a]) = Contents(h, a)
<1> DEFINE n == h.word[a]
           x(k) == h.word[a + Header + k - 1]
           y(k) == g.word[F[a] + Header + k - 1]
           Ref == h.tag[a].ref
<1>1. /\ a \in Nat /\ n \in Nat /\ a + Header + n <= HeapEnd /\ HeapEnd \in Nat
      /\ F[a] \in Nat /\ F[a] + Header + n <= HeapEnd
      /\ g.word[F[a]] = n /\ g.tag[F[a]].ref = Ref
      /\ \A k \in 1 .. n : y(k) = IF Ref THEN Carried(F, x(k)) ELSE x(k)
  BY Numbers DEF Readable, Carries, SameArray
<1>2. \A b \in L : F[b] \in Addr \ {GC_NULL} /\ g.tag[F[b]].id = h.tag[b].id
  BY DEF Carries, SameArray
<1>3. ASSUME NEW k \in 1 .. n
      PROVE  (IF Ref THEN IdOf(g, y(k)) ELSE y(k)) = (IF Ref THEN IdOf(h, x(k)) ELSE x(k))
  <2>1. CASE ~Ref
    BY <1>1, <2>1
  <2>2. CASE Ref
    <3>1. x(k) \in L \cup {GC_NULL} /\ y(k) = Carried(F, x(k))
      BY <1>1, <2>2
    <3> HIDE DEF x, y
    <3>2. CASE x(k) = GC_NULL
      BY <2>2, <3>1, <3>2 DEF Carried, IdOf
    <3>3. CASE x(k) # GC_NULL
      <4>1. x(k) \in L /\ y(k) = F[x(k)] /\ x(k) \in Addr \ {GC_NULL}
        BY <3>1, <3>3 DEF Carried
      <4>2. y(k) \in Addr \ {GC_NULL} /\ g.tag[y(k)].id = h.tag[x(k)].id
        BY <4>1, <1>2
      <4> QED
        BY <2>2, <4>1, <4>2 DEF IdOf
    <3> QED
      BY <3>2, <3>3
  <2> QED
    BY <2>1, <2>2
<1>4. /\ {i \in 1 .. h.word[a] : a + Header + i <= HeapEnd} = 1 .. n
      /\ {i \in 1 .. g.word[F[a]] : F[a] + Header + i <= HeapEnd} = 1 .. n
  BY <1>1
<1>5. Contents(h, a) = [ref |-> Ref,
                        elems |-> [k \in 1 .. n |-> IF Ref THEN IdOf(h, x(k)) ELSE x(k)]]
  BY <1>4 DEF Contents
<1>6. Contents(g, F[a]) = [ref |-> Ref,
                           elems |-> [k \in 1 .. n |-> IF Ref THEN IdOf(g, y(k)) ELSE y(k)]]
  BY <1>1, <1>4 DEF Contents
<1> HIDE DEF n, x, y, Ref
<1> QED
  BY <1>3, <1>5, <1>6

\* The slots of what is reached hold null or something that is reached.
LEMMA SlotsReached ==
    ASSUME NEW h, NEW rs, NEW L, L = Live(h, rs), Readable(h, L), NEW a \in L, h.tag[a].ref,
           NEW k \in 1 .. h.word[a]
    PROVE  h.word[a + Header + k - 1] \in L \cup {GC_NULL}
<1> DEFINE S == {rs[r] : r \in RootSlots}
           x == h.word[a + Header + k - 1]
<1>1. L \subseteq Addr \ {GC_NULL} /\ Closed(h, L)
  <2>1. L = Reachable(h, S)
    BY DEF Live
  <2> HIDE DEF S
  <2> QED
    BY <2>1, ReachableLeast
<1>2. /\ x \in Addr
      /\ Children(h, a) = {h.word[a + Header + j - 1] : j \in 1 .. h.word[a]}
                             \cap (Addr \ {GC_NULL})
  BY <1>1, ChildrenAre DEF Readable
<1>3. x # GC_NULL => x \in Children(h, a)
  BY <1>2
<1> QED
  BY <1>1, <1>3 DEF Closed

\* A heap that carries what is reached shows the program what it saw, each array
\* once, wherever the arrays now are.
LEMMA CarriedView ==
    ASSUME NEW h, NEW g, NEW rs, NEW rs2, NEW F, NEW L, L = Live(h, rs), Readable(h, L),
           Distinct(h, L), Carries(h, g, F, L), rs \in [RootSlots -> Addr],
           rs2 = [r \in RootSlots |-> Carried(F, rs[r])]
    PROVE  ViewOf(g, rs2) = ViewOf(h, rs) /\ Distinct(g, Live(g, rs2))
<1> DEFINE M == Live(g, rs2)
<1>1. M = {F[a] : a \in L}
  BY CarriedLive
<1>2. \A a \in L : F[a] \in Addr \ {GC_NULL} /\ g.tag[F[a]].id = h.tag[a].id
  BY DEF Carries, SameArray
<1>3. L \subseteq Addr \ {GC_NULL} /\ \A r \in RootSlots : rs[r] \in L \cup {GC_NULL}
  <2> DEFINE S == {rs[r] : r \in RootSlots}
  <2>1. L = Reachable(h, S) /\ \A r \in RootSlots : rs[r] \in S /\ rs[r] \in Addr
    BY DEF Live
  <2> HIDE DEF S
  <2>2. L \subseteq Addr \ {GC_NULL} /\ S \cap (Addr \ {GC_NULL}) \subseteq L
    BY <2>1, ReachableLeast
  <2> QED
    BY <2>1, <2>2
<1> HIDE DEF M
<1>4. Distinct(g, M)
  BY <1>1, <1>2 DEF Distinct
<1>5. \A a \in L : Contents(g, F[a]) = Contents(h, a)
  <2> SUFFICES ASSUME NEW a \in L PROVE Contents(g, F[a]) = Contents(h, a)
    OBVIOUS
  <2>1. h.tag[a].ref => \A k \in 1 .. h.word[a] :
           h.word[a + Header + k - 1] \in L \cup {GC_NULL}
    BY SlotsReached
  <2> QED
    BY <2>1, <1>3, CarriedContents
<1> DEFINE I == {h.tag[a].id : a \in L}
           A(i) == CHOOSE a \in L : h.tag[a].id = i
           B(i) == CHOOSE b \in M : g.tag[b].id = i
<1>6. ASSUME NEW i \in I PROVE Contents(g, B(i)) = Contents(h, A(i))
  <2>1. PICK a \in L : i = h.tag[a].id
    OBVIOUS
  <2>2. A(i) = a
    <3>1. A(i) \in L /\ h.tag[A(i)].id = i
      BY <2>1
    <3> QED
      BY <2>1, <3>1 DEF Distinct
  <2>3. F[a] \in M /\ i = g.tag[F[a]].id
    BY <1>1, <1>2, <2>1
  <2>4. B(i) = F[a]
    <3>1. B(i) \in M /\ g.tag[B(i)].id = i
      BY <2>3
    <3> QED
      BY <2>3, <3>1, <1>4 DEF Distinct
  <2> QED
    BY <2>2, <2>4, <1>5
<1>7. {g.tag[b].id : b \in M} = I
  BY <1>1, <1>2
<1>8. \A r \in RootSlots : IdOf(g, rs2[r]) = IdOf(h, rs[r])
  BY <1>2, <1>3 DEF IdOf, Carried
<1>9. ViewOf(h, rs) = [stack |-> [r \in RootSlots |-> IdOf(h, rs[r])],
                       store |-> [i \in I |-> Contents(h, A(i))]]
  BY DEF ViewOf, Live
<1>10. ViewOf(g, rs2) = [stack |-> [r \in RootSlots |-> IdOf(g, rs2[r])],
                         store |-> [i \in {g.tag[b].id : b \in M} |-> Contents(g, B(i))]]
  BY DEF ViewOf, Live, M
<1> HIDE DEF I, A, B
<1>11. [i \in I |-> Contents(g, B(i))] = [i \in I |-> Contents(h, A(i))]
  BY <1>6
<1>12. [r \in RootSlots |-> IdOf(g, rs2[r])] = [r \in RootSlots |-> IdOf(h, rs[r])]
  BY <1>8
<1> QED
  BY <1>4, <1>7, <1>9, <1>10, <1>11, <1>12 DEF M

\* What is reached stays within a set that holds the roots and what its own
\* slots hold.
LEMMA LiveWithin ==
    ASSUME NEW h, NEW rs, NEW A, A \subseteq Addr,
           \A r \in RootSlots : rs[r] \in A \cup {GC_NULL},
           \A a \in A : \A s \in RefSlots(h, a) : s \in Addr => h.word[s] \in A \cup {GC_NULL}
    PROVE  Live(h, rs) \subseteq A
<1> DEFINE S == {rs[r] : r \in RootSlots}
<1>1. S \cap (Addr \ {GC_NULL}) \subseteq A
  OBVIOUS
<1>2. Closed(h, A)
  BY DEF Closed, Children
<1>3. Live(h, rs) = Reachable(h, S)
  BY DEF Live
<1> HIDE DEF S
<1>4. A \in SUBSET Addr
  OBVIOUS
<1> QED
  BY <1>1, <1>2, <1>3, <1>4, ReachableLeast

\* It holds the arrays of the roots and those their slots refer to.
LEMMA LiveHolds ==
    ASSUME NEW h, NEW rs, NEW L, L = Live(h, rs), rs \in [RootSlots -> Addr]
    PROVE  /\ L \subseteq Addr \ {GC_NULL}
           /\ \A r \in RootSlots : rs[r] \in L \cup {GC_NULL}
           /\ \A a \in L : \A s \in RefSlots(h, a) : s \in Addr /\ h.word[s] \in Addr =>
                 h.word[s] \in L \cup {GC_NULL}
<1> DEFINE S == {rs[r] : r \in RootSlots}
<1>1. L = Reachable(h, S) /\ \A r \in RootSlots : rs[r] \in S /\ rs[r] \in Addr
  BY DEF Live
<1> HIDE DEF S
<1>2. L \subseteq Addr \ {GC_NULL} /\ S \cap (Addr \ {GC_NULL}) \subseteq L /\ Closed(h, L)
  BY <1>1, ReachableLeast
<1>3. \A r \in RootSlots : rs[r] \in L \cup {GC_NULL}
  BY <1>1, <1>2
<1>4. ASSUME NEW a \in L, NEW s \in RefSlots(h, a), s \in Addr, h.word[s] \in Addr,
             h.word[s] # GC_NULL
      PROVE  h.word[s] \in L
  <2>1. h.word[s] \in Children(h, a)
    BY <1>4 DEF Children
  <2> QED
    BY <2>1, <1>2 DEF Closed
<1> QED
  BY <1>2, <1>3, <1>4

\* Whole arrays within the memory whose slots hold arrays or null are readable.
LEMMA ReadableWithin ==
    ASSUME NEW h \in Heap, NEW A, A \subseteq Addr, NEW L, L \subseteq A,
           \A a \in A : a + ObjectWords(h, a) <= HeapEnd,
           \A a \in A : \A s \in RefSlots(h, a) : h.word[s] \in A \cup {GC_NULL}
    PROVE  Readable(h, L)
<1> SUFFICES ASSUME NEW a \in L
             PROVE  /\ h.word[a] \in Nat /\ a + Header + h.word[a] <= HeapEnd
                    /\ h.tag[a].ref => \A k \in 1 .. h.word[a] : h.word[a + Header + k - 1] \in Addr
  BY DEF Readable
<1>1. a \in Addr /\ a \in A /\ a \in Nat /\ h.word[a] \in Nat
  BY Numbers, WordTypes
<1>2. a + ObjectWords(h, a) <= HeapEnd /\ ObjectWords(h, a) = 2 + h.word[a]
  BY <1>1 DEF ObjectWords
<1>3. ASSUME h.tag[a].ref, NEW k \in 1 .. h.word[a]
      PROVE  h.word[a + Header + k - 1] \in Addr
  <2>1. a + 2 + k - 1 \in RefSlots(h, a)
    BY <1>1, <1>3 DEF RefSlots
  <2>2. GC_NULL \in Addr
    BY Numbers DEF Addr
  <2> QED
    BY <2>1, <2>2, <1>1
<1> QED
  BY <1>1, <1>2, <1>3, Numbers

\* In a sound heap the program reaches its arrays only, all readable.
LEMMA SoundLive ==
    ASSUME NEW h, NEW rs, NEW A, Sound(h, rs, A)
    PROVE  Live(h, rs) \subseteq A /\ Readable(h, Live(h, rs)) /\ rs \in [RootSlots -> Addr]
<1>1. /\ h \in Heap /\ A \subseteq Addr /\ rs \in [RootSlots -> A \cup {GC_NULL}]
      /\ \A a \in A : a + ObjectWords(h, a) <= HeapEnd
      /\ \A a \in A : \A s \in RefSlots(h, a) : h.word[s] \in A \cup {GC_NULL}
  BY DEF Sound
<1>2. rs \in [RootSlots -> Addr] /\ \A r \in RootSlots : rs[r] \in A \cup {GC_NULL}
  <2>1. A \cup {GC_NULL} \subseteq Addr
    BY <1>1, Numbers DEF Addr
  <2> QED
    BY <2>1, <1>1
<1>3. Live(h, rs) \subseteq A
  BY <1>1, <1>2, LiveWithin
<1>4. Readable(h, Live(h, rs))
  BY <1>1, <1>3, ReadableWithin
<1> QED
  BY <1>2, <1>3, <1>4

LEMMA WellFormedLive ==
    ASSUME NEW h, NEW rs, NEW start, NEW end, WellFormed(h, rs, start, end)
    PROVE  /\ Live(h, rs) \subseteq Allocated(h, start, end)
           /\ Readable(h, Live(h, rs)) /\ rs \in [RootSlots -> Addr]
<1> DEFINE A == Allocated(h, start, end)
<1>1. Sound(h, rs, A)
  BY WellFormedSound
<1> HIDE DEF A
<1> QED
  BY <1>1, SoundLive DEF A

\* The array a is in g as it was in h.
Unmoved(h, g, a) ==
    /\ g.word[a] = h.word[a] /\ g.tag[a].ref = h.tag[a].ref /\ g.tag[a].id = h.tag[a].id
    /\ \A k \in 1 .. h.word[a] : g.word[a + Header + k - 1] = h.word[a + Header + k - 1]

\* While what is reached stays where it is, the program sees what it saw.
LEMMA UnmovedView ==
    ASSUME NEW h, NEW g, NEW rs \in [RootSlots -> Addr], Readable(h, Live(h, rs)),
           Distinct(h, Live(h, rs)), \A a \in Live(h, rs) : Unmoved(h, g, a)
    PROVE  ViewOf(g, rs) = ViewOf(h, rs) /\ Live(g, rs) = Live(h, rs) /\ Distinct(g, Live(g, rs))
<1> DEFINE L == Live(h, rs)
           F == [a \in L |-> a]
           rs2 == [r \in RootSlots |-> Carried(F, rs[r])]
<1>1. L \subseteq Addr \ {GC_NULL} /\ \A r \in RootSlots : rs[r] \in L \cup {GC_NULL}
  BY LiveHolds
<1>2. rs2 = rs
  BY <1>1 DEF Carried
<1>3. Carries(h, g, F, L)
  <2> SUFFICES ASSUME NEW a \in L
               PROVE  /\ F[a] \in Addr \ {GC_NULL} /\ F[a] + Header + h.word[a] <= HeapEnd
                      /\ SameArray(h, g, F, a)
    BY DEF Carries
  <2>1. F[a] = a /\ Unmoved(h, g, a) /\ a + Header + h.word[a] <= HeapEnd
    BY DEF Readable
  <2>2. ASSUME NEW k \in 1 .. h.word[a]
        PROVE  g.word[a + Header + k - 1] = IF h.tag[a].ref THEN Carried(F, h.word[a + Header + k - 1])
                                                            ELSE h.word[a + Header + k - 1]
    <3>1. g.word[a + Header + k - 1] = h.word[a + Header + k - 1]
      BY <2>1 DEF Unmoved
    <3>2. h.tag[a].ref => h.word[a + Header + k - 1] \in L \cup {GC_NULL}
      BY SlotsReached
    <3>3. \A x \in L \cup {GC_NULL} : Carried(F, x) = x
      BY DEF Carried
    <3> QED
      BY <3>1, <3>2, <3>3
  <2> QED
    BY <2>1, <2>2, <1>1 DEF SameArray, Unmoved
<1>4. {F[a] : a \in L} = L
  OBVIOUS
<1> HIDE DEF F, rs2, L
<1>5. /\ L = Live(h, rs) /\ Readable(h, L) /\ Distinct(h, L) /\ Carries(h, g, F, L)
      /\ rs2 = [r \in RootSlots |-> Carried(F, rs[r])]
  BY <1>3 DEF L, rs2
<1>6. Live(g, rs2) = {F[a] : a \in L}
  BY <1>5, CarriedLive
<1>7. ViewOf(g, rs2) = ViewOf(h, rs) /\ Distinct(g, Live(g, rs2))
  BY <1>5, CarriedView
<1> QED
  BY <1>2, <1>4, <1>6, <1>7 DEF L

\* A push of a bump-allocated array counts the words the watermark moves by.
LEMMA PushCounts ==
    ASSUME NEW start, WellFormed(heap, roots, start, heap.watermark), Base <= heap.watermark,
           NEW length \in Nat, NEW is_ref \in BOOLEAN, NEW id \in Ids \cup {NoId},
           NEW a, a = RawAlloc(heap, length, is_ref, id), a.ref # SENTINEL,
           NEW r, Push(r, a), net \in Int, NEW base \in Int,
           CountBytes => net = heap.watermark - base
    PROVE  CountBytes => net' = a.heap.watermark - base
<1>1. heap \in Heap /\ heap.watermark \in Nat /\ heap.watermark \in Base .. HeapEnd
  BY Numbers DEF WellFormed, Heap
<1>2. /\ a.ref = heap.watermark /\ a.heap.watermark = a.ref + Header + length
      /\ a.heap.word[a.ref] = length
  BY <1>1, RawAllocEffect
<1>3. CountBytes => net' = net + (2 + length)
  BY <1>2 DEF Push, ObjectWords
<1> QED
  BY <1>1, <1>2, <1>3

\* A bump that does not fit changes nothing.
LEMMA BumpFails ==
    ASSUME NEW h, NEW rs, NEW start, WellFormed(h, rs, start, h.watermark),
           NEW length, NEW is_ref, NEW id, RawAlloc(h, length, is_ref, id).ref = SENTINEL
    PROVE  RawAlloc(h, length, is_ref, id).heap = h
<1>1. h.watermark # SENTINEL
  BY Numbers DEF WellFormed, SENTINEL
<1> QED
  BY <1>1 DEF RawAlloc

\* The ghost view is what the program sees, and it sees each array once.
Seen == view = ViewOf(heap, roots) /\ Distinct(heap, Live(heap, roots))

LEMMA SeenMeans == Seen => /\ view = ViewOf(heap, roots)
                           /\ \A a, b \in LiveRefs : heap.tag[a].id = heap.tag[b].id => a = b
  BY DEF Seen, Distinct, Live, LiveRefs, RootSet

\* Where nothing was allocated, nothing is seen.
LEMMA InitSeen == MutatorInit => Seen
<1> SUFFICES ASSUME MutatorInit PROVE Seen
  OBVIOUS
<1>1. WellFormed(heap, roots, Base, Base) /\ Headers(heap, Base, Base) = {}
  BY InitHeap
<1>2. Live(heap, roots) \subseteq {}
  BY <1>1, WellFormedLive DEF Allocated
<1> QED
  BY <1>2 DEF Seen, Distinct, MutatorInit

\* An instruction other than an allocation reaches nothing it could not reach.
LEMMA SoundSees ==
    ASSUME NEW A, Sound(heap, roots, A), Seen,
           ProgramStep \/ \E r, s \in RootSlots, k \in Elements : AIAStore(r, k, s)
    PROVE  Seen' /\ Live(heap', roots') \subseteq Live(heap, roots)
<1> DEFINE L == Live(heap, roots)
<1>1. /\ L \subseteq A /\ Readable(heap, L) /\ L \subseteq Addr \ {GC_NULL}
      /\ roots \in [RootSlots -> Addr] /\ \A r \in RootSlots : roots[r] \in L \cup {GC_NULL}
      /\ \A a \in L : \A s \in RefSlots(heap, a) : s \in Addr /\ heap.word[s] \in Addr =>
            heap.word[s] \in L \cup {GC_NULL}
      /\ \A a \in L : \A s \in RefSlots(heap, a) : s \in Addr /\ heap.word[s] \in Addr
      /\ heap \in Heap
  <2>1. L \subseteq A /\ Readable(heap, L) /\ roots \in [RootSlots -> Addr] /\ heap \in Heap
    BY SoundLive DEF Sound
  <2>2. \A a \in L : \A s \in RefSlots(heap, a) : s \in Addr /\ heap.word[s] \in Addr
    BY <2>1, SoundSlots
  <2>3. /\ L \subseteq Addr \ {GC_NULL}
        /\ \A r \in RootSlots : roots[r] \in L \cup {GC_NULL}
        /\ \A a \in L : \A s \in RefSlots(heap, a) : s \in Addr /\ heap.word[s] \in Addr =>
              heap.word[s] \in L \cup {GC_NULL}
    BY <2>1, LiveHolds
  <2> QED
    BY <2>1, <2>2, <2>3
<1>2. Distinct(heap, L)
  BY DEF Seen
<1> HIDE DEF L
<1>3. SameArrays(heap, heap', A)
  BY ProgramSound
<1>4. \A a \in L : RefSlots(heap', a) = RefSlots(heap, a)
  BY <1>1, <1>3 DEF SameArrays, RefSlots
<1>5. heap.tag' = heap.tag
  BY <1>3 DEF SameArrays
<1>6. \A r \in RootSlots : roots'[r] \in L \cup {GC_NULL}
  <2>1. ASSUME NEW r \in RootSlots, NEW s \in RootSlots, NEW k \in Elements, AIALoad(r, k, s)
        PROVE  \A q \in RootSlots : roots'[q] \in L \cup {GC_NULL}
    <3>1. /\ roots[r] # GC_NULL /\ heap.tag[roots[r]].ref = TRUE
          /\ k < ObjectLength(heap, roots[r])
          /\ roots' = [roots EXCEPT ![s] = heap.word[roots[r] + 2 + k]]
      BY <2>1 DEF AIALoad, HasElement, SlotAddr
    <3>2. roots[r] \in L /\ roots[r] \in Nat /\ heap.word[roots[r]] \in Nat /\ k \in Nat
      <4>1. roots[r] \in L
        BY <1>1, <3>1
      <4> QED
        BY <4>1, <1>1, Numbers, MutatorAssumption DEF MutatorAssumption, Readable
    <3>3. roots[r] + 2 + k \in RefSlots(heap, roots[r])
      BY <3>1, <3>2 DEF RefSlots, ObjectLength
    <3>4. heap.word[roots[r] + 2 + k] \in L \cup {GC_NULL}
      BY <1>1, <3>2, <3>3
    <3> QED
      BY <3>1, <3>4, <1>1
  <2>2. ASSUME NEW r \in RootSlots, Pop(r)
        PROVE  \A q \in RootSlots : roots'[q] \in L \cup {GC_NULL}
    BY <2>2, <1>1 DEF Pop
  <2>3. CASE UNCHANGED roots
    BY <2>3, <1>1
  <2> QED
    BY <2>1, <2>2, <2>3 DEF ProgramStep, IAStore, AIAStore, WriteElement
<1>7. ASSUME NEW a \in L, NEW s \in RefSlots(heap, a)
      PROVE  heap'.word[s] \in L \cup {GC_NULL}
  <2>1. s \in Addr /\ heap.word[s] \in L \cup {GC_NULL}
    BY <1>1
  <2>2. ASSUME NEW r \in RootSlots, NEW q \in RootSlots, NEW k \in Elements, AIAStore(r, k, q)
        PROVE  heap'.word[s] \in L \cup {GC_NULL}
    <3>1. heap' = [heap EXCEPT !.word[roots[r] + 2 + k] = roots[q]]
      BY <2>2 DEF AIAStore, WriteElement, SlotAddr
    <3>2. \/ heap'.word[s] = heap.word[s]
          \/ heap'.word[s] = roots[q]
      BY <3>1, <1>1, <2>1 DEF Heap
    <3> QED
      BY <2>1, <3>2, <1>1
  <2>3. ASSUME NEW r \in RootSlots, NEW k \in Elements, NEW v \in Ints, IAStore(r, k, v)
        PROVE  heap'.word[s] \in L \cup {GC_NULL}
    <3>1. /\ heap' = [heap EXCEPT !.word[roots[r] + 2 + k] = v]
          /\ heap.tag[roots[r]].ref = FALSE /\ roots[r] # GC_NULL
          /\ k < ObjectLength(heap, roots[r])
      BY <2>3 DEF IAStore, WriteElement, SlotAddr, HasElement
    <3>2. s # roots[r] + 2 + k
      <4>1. /\ roots[r] \in A /\ a \in A /\ a # roots[r] /\ k \in Nat /\ k < heap.word[roots[r]]
        BY <1>1, <3>1, MutatorAssumption DEF MutatorAssumption, RefSlots, ObjectLength
      <4>2. /\ roots[r] + 2 + k < a \/ roots[r] + 2 + k >= a + ObjectWords(heap, a)
            /\ roots[r] + 2 + k \in Addr
        BY <4>1, SoundElement
      <4>3. /\ a \in Nat /\ s \in Nat /\ s >= a + 2 /\ s < a + ObjectWords(heap, a)
        BY <4>1, SoundSlots
      <4>4. heap.word[a] \in Nat /\ ObjectWords(heap, a) = 2 + heap.word[a]
        BY <1>1, WordTypes
      <4>5. roots[r] + 2 + k \in Nat
        BY <4>2, Numbers
      <4> QED
        BY <4>2, <4>3, <4>4, <4>5
    <3>3. heap'.word[s] = heap.word[s]
      BY <3>1, <3>2, <1>1, <2>1 DEF Heap
    <3> QED
      BY <2>1, <3>3
  <2>4. CASE UNCHANGED heap
    BY <2>4, <2>1
  <2> QED
    BY <2>2, <2>3, <2>4 DEF ProgramStep, AIALoad, Pop
<1>8. Live(heap', roots') \subseteq L
  <2>1. \A a \in L : \A s \in RefSlots(heap', a) : s \in Addr => heap'.word[s] \in L \cup {GC_NULL}
    BY <1>4, <1>7
  <2>2. L \subseteq Addr
    BY <1>1
  <2> QED
    BY <2>1, <2>2, <1>6, LiveWithin
<1>9. Distinct(heap', Live(heap', roots'))
  BY <1>2, <1>5, <1>8 DEF Distinct
<1>10. view' = ViewOf(heap', roots')
  BY DEF ProgramStep, AIALoad, IAStore, AIAStore, WriteElement, Pop
<1> QED
  BY <1>8, <1>9, <1>10 DEF Seen, L

LEMMA ProgramSees ==
    ASSUME NEW start, NEW end, WellFormed(heap, roots, start, end), Seen,
           ProgramStep \/ \E r, s \in RootSlots, k \in Elements : AIAStore(r, k, s)
    PROVE  Seen' /\ Live(heap', roots') \subseteq Live(heap, roots)
<1> DEFINE A == Allocated(heap, start, end)
<1>1. Sound(heap, roots, A)
  BY WellFormedSound
<1> HIDE DEF A
<1> QED
  BY <1>1, SoundSees

\* At p there is a new array, of the length asked for or one more, and every
\* slot holds zero.
Zeroed(g, p, length, tag) ==
    /\ p \in Addr \ {GC_NULL} /\ g.tag[p] = tag
    /\ g.word[p] \in {length, length + 1} /\ p + Header + g.word[p] <= HeapEnd
    /\ \A x \in Addr : x > p /\ x < p + Header + g.word[p] => g.word[x] = 0

\* A new array is pushed: p, the only one of its identity among those reached.
LEMMA PushSees ==
    ASSUME roots \in [RootSlots -> Addr], Readable(heap, Live(heap, roots)), Seen,
           NEW a, \A b \in Live(heap, roots) : Unmoved(heap, a.heap, b),
           NEW id \in FreshIds, NEW length \in Nat, NEW ref \in BOOLEAN,
           Zeroed(a.heap, a.ref, length, ArrayTag(ref, id)),
           NEW r, Push(r, a), heap' = a.heap
    PROVE  Seen' /\ Live(heap', roots') \subseteq Live(heap, roots) \cup {a.ref}
<1>0. /\ a.ref \in Addr /\ a.heap.tag[a.ref].id = id
      /\ \A s \in RefSlots(a.heap, a.ref) : a.heap.word[s] = GC_NULL
  <2>1. a.ref \in Addr /\ a.ref \in Nat /\ HeapEnd \in Nat /\ a.heap.tag[a.ref] = ArrayTag(ref, id)
    BY Numbers DEF Zeroed
  <2>2. ASSUME NEW s \in RefSlots(a.heap, a.ref) PROVE a.heap.word[s] = GC_NULL
    <3>1. a.heap.word[a.ref] \in Nat /\ a.ref + 2 + a.heap.word[a.ref] <= HeapEnd
      BY DEF Zeroed
    <3>2. s \in (a.ref + 2) .. (a.ref + 2 + a.heap.word[a.ref] - 1)
      BY DEF RefSlots
    <3>3. s \in Addr /\ s > a.ref /\ s < a.ref + 2 + a.heap.word[a.ref]
      BY <2>1, <3>1, <3>2 DEF Addr
    <3> QED
      BY <3>3 DEF Zeroed
  <2> QED
    BY <2>1, <2>2 DEF ArrayTag
<1> DEFINE L == Live(heap, roots)
           g == a.heap
           p == a.ref
<1>1. L \subseteq Addr \ {GC_NULL} /\ \A q \in RootSlots : roots[q] \in L \cup {GC_NULL}
  BY LiveHolds
<1>2. roots' = [roots EXCEPT ![r] = p] /\ view' = ViewOf(g, roots')
  BY DEF Push
<1>3. \A q \in RootSlots : roots'[q] \in (L \cup {p}) \cup {GC_NULL}
  <2> HIDE DEF L, p
  <2> QED
    BY <1>1, <1>2
<1>4. ASSUME NEW b \in L, NEW s \in RefSlots(g, b)
      PROVE  g.word[s] \in L \cup {GC_NULL}
  <2>1. Unmoved(heap, g, b) /\ b \in Nat /\ heap.word[b] \in Nat
    BY <1>1, Numbers DEF Readable
  <2>2. heap.tag[b].ref /\ s \in (b + 2) .. (b + 2 + heap.word[b] - 1)
    BY <2>1 DEF RefSlots, Unmoved
  <2> DEFINE k == s - b - 1
  <2>3. k \in 1 .. heap.word[b] /\ s = b + Header + k - 1
    BY <2>1, <2>2
  <2> HIDE DEF k
  <2>4. heap.word[b + Header + k - 1] \in L \cup {GC_NULL}
    BY <2>2, <2>3, SlotsReached
  <2>5. g.word[b + Header + k - 1] = heap.word[b + Header + k - 1]
    BY <2>1, <2>3 DEF Unmoved
  <2> QED
    BY <2>3, <2>4, <2>5
<1>5. Live(g, roots') \subseteq L \cup {p}
  <2>1. \A b \in L \cup {p} : \A s \in RefSlots(g, b) : s \in Addr =>
           g.word[s] \in (L \cup {p}) \cup {GC_NULL}
    BY <1>0, <1>4
  <2>2. L \cup {p} \subseteq Addr
    BY <1>0, <1>1
  <2> HIDE DEF L, g, p
  <2> QED
    BY <2>1, <2>2, <1>3, LiveWithin
<1>6. \A b \in L : g.tag[b].id = heap.tag[b].id /\ heap.tag[b].id # id
  <2>1. \A b \in L : heap.tag[b].id \in DOMAIN view.store
    <3>1. view.store = [i \in {heap.tag[b].id : b \in L} |->
                          Contents(heap, CHOOSE b \in L : heap.tag[b].id = i)]
      BY DEF Seen, ViewOf, Live
    <3> HIDE DEF L
    <3>2. DOMAIN view.store = {heap.tag[b].id : b \in L}
      BY <3>1
    <3> QED
      BY <3>2
  <2>2. id \notin DOMAIN view.store
    BY DEF FreshIds
  <2> QED
    BY <2>1, <2>2 DEF Unmoved
<1>7. Distinct(heap, L)
  BY DEF Seen
<1>8. g.tag[p].id = id
  BY <1>0
<1> HIDE DEF L, g, p
<1>9. Distinct(g, Live(g, roots'))
  BY <1>5, <1>6, <1>7, <1>8 DEF Distinct, FreshIds
<1> QED
  BY <1>2, <1>5, <1>9 DEF Seen, g, L, p

\* An array whose words and tags are not written is as it was.
LEMMA UntouchedUnmoved ==
    ASSUME NEW h, NEW g, NEW b \in Addr, h.word[b] \in Nat, b + Header + h.word[b] <= HeapEnd,
           \A x \in Addr : x >= b /\ x < b + Header + h.word[b] => g.word[x] = h.word[x],
           g.tag[b].ref = h.tag[b].ref, g.tag[b].id = h.tag[b].id
    PROVE  Unmoved(h, g, b)
<1>1. b \in Nat /\ HeapEnd \in Nat
  BY Numbers
<1>2. g.word[b] = h.word[b]
  BY <1>1
<1>3. ASSUME NEW k \in 1 .. h.word[b]
      PROVE  g.word[b + Header + k - 1] = h.word[b + Header + k - 1]
  <2>1. b + Header + k - 1 \in Addr
    BY <1>1 DEF Addr
  <2> QED
    BY <2>1, <1>1
<1> QED
  BY <1>2, <1>3 DEF Unmoved

\* The array that a bump allocates is new and moves none.
LEMMA SoundBump ==
    ASSUME NEW A, Sound(heap, roots, A), Base <= heap.watermark,
           \A b \in A : b + ObjectWords(heap, b) <= heap.watermark,
           NEW length \in Nat, NEW ref \in BOOLEAN, NEW id \in FreshIds,
           NEW a, a = RawAlloc(heap, length, ref, id), a.ref # SENTINEL
    PROVE  /\ roots \in [RootSlots -> Addr] /\ Readable(heap, Live(heap, roots))
           /\ \A b \in Live(heap, roots) : Unmoved(heap, a.heap, b)
           /\ Zeroed(a.heap, a.ref, length, ArrayTag(ref, id))
<1> DEFINE L == Live(heap, roots)
<1> HIDE DEF L
<1>1. /\ heap \in Heap /\ heap.watermark \in Base .. HeapEnd /\ heap.watermark \in Nat
      /\ id \in Ids \cup {NoId} /\ A \subseteq Addr
  <2>1. heap \in Heap /\ A \subseteq Addr /\ id \in Ids \cup {NoId}
    BY DEF Sound, FreshIds
  <2> QED
    BY <2>1, Numbers DEF Heap
<1>2. /\ Readable(heap, L) /\ roots \in [RootSlots -> Addr]
      /\ L \subseteq A
  BY SoundLive DEF L
<1>3. /\ a.ref = heap.watermark /\ a.ref \in Addr /\ length \in Word
      /\ a.heap \in Heap
      /\ a.heap.watermark = a.ref + Header + length /\ a.heap.watermark <= HeapEnd
      /\ a.heap.word[a.ref] = length /\ a.heap.tag[a.ref] = ArrayTag(ref, id)
      /\ \A x \in Addr : x > a.ref /\ x < a.heap.watermark =>
            a.heap.word[x] = 0 /\ a.heap.tag[x] = NoTag
      /\ \A x \in Addr : x < a.ref \/ x >= a.heap.watermark =>
            a.heap.word[x] = heap.word[x] /\ a.heap.tag[x] = heap.tag[x]
  BY <1>1, BumpEffect
<1>4. ASSUME NEW b \in L PROVE Unmoved(heap, a.heap, b)
  <2>1. b \in A /\ b \in Addr /\ b + ObjectWords(heap, b) <= heap.watermark
    BY <1>1, <1>2
  <2>2. /\ b \in Addr /\ b \in Nat /\ b + ObjectWords(heap, b) <= heap.watermark
        /\ heap.word[b] \in Nat /\ ObjectWords(heap, b) = 2 + heap.word[b]
    BY <2>1, <1>1, WordTypes, Numbers
  <2>3. HeapEnd \in Nat /\ b + Header + heap.word[b] <= HeapEnd
    BY <2>2, <1>1, Numbers
  <2>4. /\ \A x \in Addr : x >= b /\ x < b + Header + heap.word[b] => a.heap.word[x] = heap.word[x]
        /\ a.heap.tag[b].ref = heap.tag[b].ref /\ a.heap.tag[b].id = heap.tag[b].id
    <3>1. \A x \in Addr : x \in Nat
      BY Numbers
    <3>2. b < a.ref
      BY <1>1, <1>3, <2>2
    <3>3. \A x \in Addr : x < b + Header + heap.word[b] => x < a.ref
      BY <1>1, <1>3, <2>2, <3>1
    <3> QED
      BY <1>3, <2>2, <3>2, <3>3
  <2> QED
    BY <2>2, <2>3, <2>4, UntouchedUnmoved
<1>5. Zeroed(a.heap, a.ref, length, ArrayTag(ref, id))
  <2>1. a.ref # GC_NULL /\ a.ref \in Nat
    BY <1>1, <1>3, Numbers
  <2> QED
    BY <1>3, <2>1 DEF Zeroed
<1> QED
  BY <1>2, <1>4, <1>5 DEF L

LEMMA BumpIsFresh ==
    ASSUME NEW start, WellFormed(heap, roots, start, heap.watermark), Base <= heap.watermark,
           NEW length \in Nat, NEW ref \in BOOLEAN, NEW id \in FreshIds,
           NEW a, a = RawAlloc(heap, length, ref, id), a.ref # SENTINEL
    PROVE  /\ roots \in [RootSlots -> Addr] /\ Readable(heap, Live(heap, roots))
           /\ \A b \in Live(heap, roots) : Unmoved(heap, a.heap, b)
           /\ Zeroed(a.heap, a.ref, length, ArrayTag(ref, id))
<1> DEFINE A == Allocated(heap, start, heap.watermark)
<1>1. Sound(heap, roots, A)
  BY WellFormedSound
<1>2. \A b \in A : b + ObjectWords(heap, b) <= heap.watermark
  <2>1. heap \in Heap /\ start \in Nat /\ heap.watermark \in Nat
        /\ Tiled(heap, start, heap.watermark)
    BY DEF WellFormed
  <2> QED
    BY <2>1, TiledWithin DEF Allocated
<1> HIDE DEF A
<1> QED
  BY <1>1, <1>2, SoundBump

\* The array that a bump allocated is pushed.
LEMMA BumpSees ==
    ASSUME NEW start, WellFormed(heap, roots, start, heap.watermark), Base <= heap.watermark, Seen,
           NEW length \in Nat, NEW ref \in BOOLEAN, NEW id \in FreshIds,
           NEW a, a = RawAlloc(heap, length, ref, id), a.ref # SENTINEL,
           NEW r, Push(r, a), heap' = a.heap
    PROVE  Seen'
  BY BumpIsFresh, PushSees
-----------------------------------------------------------------------------
(* The program of AbstractHeap.                                             *)

\* The view holds the contents of each array reached.
LEMMA ViewHolds ==
    ASSUME NEW h, NEW rs, NEW L, L = Live(h, rs), Distinct(h, L), NEW v, v = ViewOf(h, rs)
    PROVE  /\ v.stack = [r \in RootSlots |-> IdOf(h, rs[r])]
           /\ DOMAIN v.store = {h.tag[a].id : a \in L}
           /\ \A a \in L : v.store[h.tag[a].id] = Contents(h, a)
<1> DEFINE I == {h.tag[a].id : a \in L}
           A(i) == CHOOSE a \in L : h.tag[a].id = i
<1>1. v = [stack |-> [r \in RootSlots |-> IdOf(h, rs[r])],
           store |-> [i \in I |-> Contents(h, A(i))]]
  BY DEF ViewOf, Live
<1>2. ASSUME NEW a \in L PROVE A(h.tag[a].id) = a
  <2>1. A(h.tag[a].id) \in L /\ h.tag[A(h.tag[a].id)].id = h.tag[a].id
    OBVIOUS
  <2> QED
    BY <2>1 DEF Distinct
<1>3. \A a \in L : h.tag[a].id \in I
  OBVIOUS
<1> HIDE DEF A, I
<1>4. DOMAIN v.store = I /\ \A a \in L : v.store[h.tag[a].id] = Contents(h, a)
  BY <1>1, <1>2, <1>3
<1> QED
  BY <1>1, <1>4 DEF I

\* The contents of an array within the memory are its kind and all its slots.
LEMMA ContentsAre ==
    ASSUME NEW h, NEW L, L \subseteq Addr, Readable(h, L), NEW a \in L
    PROVE  Contents(h, a) =
             [ref   |-> h.tag[a].ref,
              elems |-> [k \in 1 .. h.word[a] |->
                           IF h.tag[a].ref THEN IdOf(h, h.word[a + Header + k - 1])
                                           ELSE h.word[a + Header + k - 1]]]
<1>1. a \in Nat /\ HeapEnd \in Nat /\ h.word[a] \in Nat /\ a + Header + h.word[a] <= HeapEnd
  BY Numbers DEF Readable
<1>2. {i \in 1 .. h.word[a] : a + Header + i <= HeapEnd} = 1 .. h.word[a]
  BY <1>1
<1> QED
  BY <1>2 DEF Contents

\* The arrays it refers to are those that its slots reach.
LEMMA TargetsAre ==
    ASSUME NEW h, NEW rs, NEW L, L = Live(h, rs), Readable(h, L), Distinct(h, L),
           rs \in [RootSlots -> Addr], NEW a \in L
    PROVE  /\ Abstract!Targets(Contents(h, a)) = {h.tag[x].id : x \in Children(h, a)}
           /\ Children(h, a) \subseteq L
<1> DEFINE n == h.word[a]
           x(k) == h.word[a + Header + k - 1]
           Ref == h.tag[a].ref
<1>1. L \subseteq Addr \ {GC_NULL}
  BY LiveHolds
<1>2. Contents(h, a) = [ref   |-> Ref,
                        elems |-> [k \in 1 .. n |-> IF Ref THEN IdOf(h, x(k)) ELSE x(k)]]
  BY <1>1, ContentsAre
<1>3. /\ Children(h, a) = IF Ref THEN {x(k) : k \in 1 .. n} \cap (Addr \ {GC_NULL}) ELSE {}
      /\ Ref => \A k \in 1 .. n : x(k) \in L \cup {GC_NULL}
  BY <1>1, ChildrenAre, SlotsReached DEF Readable
<1>4. /\ \A b \in L : IdOf(h, b) = h.tag[b].id /\ h.tag[b].id \in Ids
      /\ IdOf(h, GC_NULL) = NoId /\ NoId \notin Ids
  BY <1>1, HeapAssumption DEF IdOf, Distinct, HeapAssumption, NoId
<1> HIDE DEF n, x, Ref
<1>5. CASE ~Ref
  BY <1>2, <1>3, <1>5 DEF Abstract!Targets
<1>6. CASE Ref
  <2>1. Abstract!Targets(Contents(h, a)) = {IdOf(h, x(k)) : k \in 1 .. n} \cap Ids
    BY <1>2, <1>6 DEF Abstract!Targets
  <2>2. Children(h, a) = {x(k) : k \in 1 .. n} \cap L
    BY <1>1, <1>3, <1>6
  <2>3. {IdOf(h, x(k)) : k \in 1 .. n} \cap Ids = {h.tag[y].id : y \in {x(k) : k \in 1 .. n} \cap L}
    BY <1>3, <1>4, <1>6
  <2> QED
    BY <2>1, <2>2, <2>3
<1> QED
  BY <1>5, <1>6

\* What AbstractHeap reaches is a least closed set, as what the heap reaches is.
LEMMA AbstractLeast ==
    ASSUME NEW st, NEW S, NEW D \in SUBSET Ids, IsFiniteSet(D),
           \A i \in D : Abstract!Targets(S[i]) \subseteq D,
           \A r \in RootSlots : st[r] \in Ids => st[r] \in D
    PROVE  /\ Abstract!Live(st, S) \subseteq D
           /\ \A r \in RootSlots : st[r] \in Ids => st[r] \in Abstract!Live(st, S)
           /\ \A i \in Abstract!Live(st, S) : Abstract!Targets(S[i]) \subseteq Abstract!Live(st, S)
<1> DEFINE N == [i \in Ids |-> Abstract!Targets(S[i])]
           T == {st[r] : r \in RootSlots} \cap Ids
           Next(R) == R \cup UNION {Abstract!Targets(S[i]) : i \in R}
           Equation(c) == c = [R \in SUBSET Ids |-> IF Next(R) = R THEN R ELSE c[Next(R)]]
           c == CHOOSE f : Equation(f)
           M == Abstract!Live(st, S)
<1>1. M = c[T]
  BY DEF Abstract!Live
<1>2. \A i : Abstract!Targets(S[i]) \subseteq Ids
  BY DEF Abstract!Targets
<1>3. N \in [Ids -> SUBSET Ids] /\ \A i \in Ids : N[i] = Abstract!Targets(S[i])
  BY <1>2
<1>4. \A R \in SUBSET Ids : Step(N, R) = Next(R)
  BY <1>3 DEF Step
<1>5. \A C \in SUBSET Ids : ClosedIn(N, C) <=> \A i \in C : Abstract!Targets(S[i]) \subseteq C
  BY <1>3 DEF ClosedIn
<1>6. T \in SUBSET D
  OBVIOUS
<1> HIDE DEF N, Next, M
<1>7. \E f : f = [R \in SUBSET Ids |-> IF Step(N, R) = R THEN R ELSE f[Step(N, R)]]
  BY <1>3, ClosureExists, SMTT(30), ZenonT(30)
<1>8. \E f : Equation(f)
  <2>1. PICK f : f = [R \in SUBSET Ids |-> IF Step(N, R) = R THEN R ELSE f[Step(N, R)]]
    BY <1>7
  <2>2. [R \in SUBSET Ids |-> IF Step(N, R) = R THEN R ELSE f[Step(N, R)]]
          = [R \in SUBSET Ids |-> IF Next(R) = R THEN R ELSE f[Next(R)]]
    BY <1>4
  <2> QED
    BY <2>1, <2>2
<1>9. Equation(c)
  BY <1>8
<1>10. Closes(Ids, N, c)
  BY <1>4, <1>9 DEF Closes
<1> HIDE DEF c, Equation
<1>11. ClosedIn(N, D)
  BY <1>5
<1>12. \A r \in RootSlots : st[r] \in Ids => st[r] \in T
  OBVIOUS
<1> HIDE DEF T
<1>13. c[T] \subseteq D /\ LeastClosed(Ids, N, T, c[T])
  BY <1>3, <1>6, <1>10, <1>11, ClosureLeast
<1>14. M \subseteq D /\ T \subseteq M /\ ClosedIn(N, M)
  BY <1>1, <1>13 DEF LeastClosed
<1> QED
  BY <1>5, <1>12, <1>14 DEF M

\* It reaches the identities of the arrays that the heap reaches.
LEMMA AbstractLive ==
    ASSUME NEW h, NEW rs, NEW L, L = Live(h, rs), Readable(h, L), Distinct(h, L),
           rs \in [RootSlots -> Addr],
           NEW st, \A r \in RootSlots : st[r] = IdOf(h, rs[r]),
           NEW S, \A a \in L : S[h.tag[a].id] = Contents(h, a)
    PROVE  Abstract!Live(st, S) = {h.tag[a].id : a \in L}
<1> DEFINE D == {h.tag[a].id : a \in L}
           M == Abstract!Live(st, S)
           C == {a \in L : h.tag[a].id \in M}
<1>1. L \subseteq Addr \ {GC_NULL} /\ \A r \in RootSlots : rs[r] \in L \cup {GC_NULL}
  BY LiveHolds
<1>2. \A a \in L : /\ Abstract!Targets(S[h.tag[a].id]) = {h.tag[x].id : x \in Children(h, a)}
                   /\ Children(h, a) \subseteq L
  BY TargetsAre
<1>3. /\ \A a \in L : IdOf(h, a) = h.tag[a].id /\ h.tag[a].id \in Ids
      /\ IdOf(h, GC_NULL) = NoId /\ NoId \notin Ids
  BY <1>1, HeapAssumption DEF IdOf, Distinct, HeapAssumption, NoId
<1>4. D \in SUBSET Ids /\ IsFiniteSet(D)
  <2>1. IsFiniteSet(Addr)
    BY FS_Interval, Numbers DEF Addr
  <2>2. IsFiniteSet(L)
    BY <1>1, <2>1, FS_Subset
  <2>3. IsFiniteSet(D)
    <3> DEFINE f == [a \in L |-> h.tag[a].id]
    <3>1. f \in Surjection(L, D)
      BY DEF Surjection
    <3> HIDE DEF f, D
    <3> QED
      BY <2>2, <3>1, FS_Surjection
  <2> QED
    BY <1>3, <2>3
<1>5. \A i \in D : Abstract!Targets(S[i]) \subseteq D
  BY <1>2
<1>6. \A r \in RootSlots : \/ rs[r] = GC_NULL /\ st[r] \notin Ids
                           \/ rs[r] \in L /\ st[r] = h.tag[rs[r]].id /\ st[r] \in Ids
  BY <1>1, <1>3
<1>7. \A r \in RootSlots : st[r] \in Ids => st[r] \in D
  BY <1>6
<1> HIDE DEF M
<1>8. /\ M \subseteq D /\ \A r \in RootSlots : st[r] \in Ids => st[r] \in M
      /\ \A i \in M : Abstract!Targets(S[i]) \subseteq M
  <2> HIDE DEF D
  <2> QED
    BY <1>4, <1>5, <1>7, AbstractLeast DEF M
<1>9. L \subseteq C
  <2> DEFINE R == {rs[r] : r \in RootSlots}
  <2>1. R \cap (Addr \ {GC_NULL}) \subseteq C
    BY <1>6, <1>8
  <2>2. Closed(h, C)
    <3> SUFFICES ASSUME NEW a \in C, NEW x \in Children(h, a) PROVE x \in C
      BY DEF Closed
    <3>1. x \in L /\ h.tag[x].id \in Abstract!Targets(S[h.tag[a].id])
      BY <1>2
    <3>2. Abstract!Targets(S[h.tag[a].id]) \subseteq M
      BY <1>8
    <3> QED
      BY <3>1, <3>2
  <2>3. C \in SUBSET Addr
    BY <1>1
  <2>4. L = Reachable(h, R)
    BY DEF Live
  <2> HIDE DEF R, C
  <2> QED
    BY <2>1, <2>2, <2>3, <2>4, ReachableLeast
<1> QED
  BY <1>8, <1>9 DEF M

\* A view that shows what is reached, as the store S has it, is what S becomes.
LEMMA ViewBecomes ==
    ASSUME NEW h, NEW rs, NEW L, L = Live(h, rs), Readable(h, L), Distinct(h, L),
           rs \in [RootSlots -> Addr], view' = ViewOf(h, rs),
           NEW st, st = [r \in RootSlots |-> IdOf(h, rs[r])],
           NEW S, \A a \in L : /\ h.tag[a].id \in DOMAIN S
                               /\ S[h.tag[a].id] = Contents(h, a)
    PROVE  Abstract!Becomes(st, S)
<1>1. /\ view'.stack = st /\ DOMAIN view'.store = {h.tag[a].id : a \in L}
      /\ \A a \in L : view'.store[h.tag[a].id] = Contents(h, a)
  <2> DEFINE v == ViewOf(h, rs)
  <2>1. /\ v.stack = [r \in RootSlots |-> IdOf(h, rs[r])]
        /\ DOMAIN v.store = {h.tag[a].id : a \in L}
        /\ \A a \in L : v.store[h.tag[a].id] = Contents(h, a)
    <3> HIDE DEF v
    <3>1. v = ViewOf(h, rs)
      BY DEF v
    <3> QED
      BY <3>1, ViewHolds
  <2> QED
    BY <2>1
<1>2. Abstract!Live(st, S) = {h.tag[a].id : a \in L}
  <2>1. \A r \in RootSlots : st[r] = IdOf(h, rs[r])
    OBVIOUS
  <2> QED
    BY <2>1, AbstractLive
<1> QED
  BY <1>1, <1>2 DEF Abstract!Becomes

\* What is reached holds what it held while it stays where it is.
LEMMA UnmovedContents ==
    ASSUME NEW h, NEW g, NEW rs \in [RootSlots -> Addr], NEW L, L = Live(h, rs), Readable(h, L),
           \A a \in L : Unmoved(h, g, a)
    PROVE  /\ \A a \in L : Contents(g, a) = Contents(h, a)
           /\ \A x \in L \cup {GC_NULL} : IdOf(g, x) = IdOf(h, x)
<1>1. L \subseteq Addr
  BY LiveHolds
<1>2. \A x \in L \cup {GC_NULL} : IdOf(g, x) = IdOf(h, x)
  BY DEF IdOf, Unmoved
<1>3. ASSUME NEW a \in L PROVE Contents(g, a) = Contents(h, a)
  <2> DEFINE n == h.word[a]
             x(k) == h.word[a + Header + k - 1]
             y(k) == g.word[a + Header + k - 1]
             Ref == h.tag[a].ref
  <2>1. /\ a \in Nat /\ n \in Nat /\ a + Header + n <= HeapEnd /\ HeapEnd \in Nat
        /\ g.word[a] = n /\ g.tag[a].ref = Ref /\ \A k \in 1 .. n : y(k) = x(k)
    BY <1>1, Numbers DEF Readable, Unmoved
  <2>2. Ref => \A k \in 1 .. n : x(k) \in L \cup {GC_NULL}
    BY SlotsReached
  <2>3. {i \in 1 .. n : a + Header + i <= HeapEnd} = 1 .. n
    BY <2>1
  <2>4. Contents(h, a) = [ref |-> Ref,
                          elems |-> [k \in 1 .. n |-> IF Ref THEN IdOf(h, x(k)) ELSE x(k)]]
    BY <2>3 DEF Contents
  <2>5. Contents(g, a) = [ref |-> Ref,
                          elems |-> [k \in 1 .. n |-> IF Ref THEN IdOf(g, y(k)) ELSE y(k)]]
    BY <2>1, <2>3 DEF Contents
  <2> HIDE DEF n, x, y, Ref
  <2>6. \A k \in 1 .. n : (IF Ref THEN IdOf(g, y(k)) ELSE y(k)) = (IF Ref THEN IdOf(h, x(k)) ELSE x(k))
    BY <1>2, <2>1, <2>2
  <2> QED
    BY <2>4, <2>5, <2>6
<1> QED
  BY <1>2, <1>3

\* Pushing a new array is a step of AbstractHeap.
LEMMA PushIsNew ==
    ASSUME roots \in [RootSlots -> Addr], Readable(heap, Live(heap, roots)), Seen,
           NEW a, \A b \in Live(heap, roots) : Unmoved(heap, a.heap, b),
           NEW id \in FreshIds, NEW length \in Lengths, length \in Nat, NEW ref \in BOOLEAN,
           Zeroed(a.heap, a.ref, length, ArrayTag(ref, id)),
           NEW r \in RootSlots, roots[r] = GC_NULL, Push(r, a), heap' = a.heap
    PROVE  Abstract!New(r)
<1> DEFINE L == Live(heap, roots)
           g == a.heap
           p == a.ref
           M == Live(g, roots')
           n == g.word[p]
<1>1. Seen' /\ M \subseteq L \cup {p}
  BY PushSees
<1>2. /\ p \in Addr \ {GC_NULL} /\ p \in Nat /\ HeapEnd \in Nat
      /\ g.tag[p].ref = ref /\ g.tag[p].id = id
      /\ n \in {length, length + 1} /\ n \in Nat /\ p + Header + n <= HeapEnd
      /\ \A k \in 1 .. n : g.word[p + Header + k - 1] = 0
  <2>1. /\ p \in Addr \ {GC_NULL} /\ p \in Nat /\ HeapEnd \in Nat /\ g.tag[p] = ArrayTag(ref, id)
        /\ n \in {length, length + 1} /\ n \in Nat /\ p + Header + n <= HeapEnd
        /\ \A x \in Addr : x > p /\ x < p + Header + n => g.word[x] = 0
    <3>1. Zeroed(g, p, length, ArrayTag(ref, id))
      OBVIOUS
    <3> HIDE DEF p, g
    <3>2. /\ p \in Addr \ {GC_NULL} /\ g.tag[p] = ArrayTag(ref, id)
          /\ n \in {length, length + 1} /\ p + Header + n <= HeapEnd
          /\ \A x \in Addr : x > p /\ x < p + Header + n => g.word[x] = 0
      BY <3>1 DEF Zeroed
    <3> HIDE DEF n
    <3>3. p \in Nat /\ HeapEnd \in Nat /\ n \in Nat
      BY <3>2, Numbers
    <3> QED
      BY <3>2, <3>3
  <2>2. ASSUME NEW k \in 1 .. n PROVE g.word[p + Header + k - 1] = 0
    <3> HIDE DEF p, g, n
    <3>1. p + 2 + k - 1 \in Addr /\ p + 2 + k - 1 > p /\ p + 2 + k - 1 < p + Header + n
      BY <2>1 DEF Addr
    <3> QED
      BY <2>1, <3>1
  <2> QED
    BY <2>1, <2>2 DEF ArrayTag
<1>3. roots' = [roots EXCEPT ![r] = p] /\ view' = ViewOf(g, roots')
  BY DEF Push
<1>4. /\ L \subseteq Addr \ {GC_NULL} /\ \A q \in RootSlots : roots[q] \in L \cup {GC_NULL}
      /\ Readable(heap, L) /\ Distinct(heap, L)
  BY LiveHolds DEF Seen
<1>5. /\ \A b \in L : Contents(g, b) = Contents(heap, b) /\ g.tag[b].id = heap.tag[b].id
      /\ \A x \in L \cup {GC_NULL} : IdOf(g, x) = IdOf(heap, x)
  <2>1. L = Live(heap, roots) /\ \A b \in L : Unmoved(heap, g, b)
    OBVIOUS
  <2> HIDE DEF L, g
  <2>2. /\ \A b \in L : Contents(g, b) = Contents(heap, b)
        /\ \A x \in L \cup {GC_NULL} : IdOf(g, x) = IdOf(heap, x)
    BY <1>4, <2>1, UnmovedContents
  <2> QED
    BY <2>1, <2>2 DEF Unmoved
<1>6. \A b \in L : Unmoved(heap, g, b)
  OBVIOUS
<1>7. /\ view.stack = [q \in RootSlots |-> IdOf(heap, roots[q])]
      /\ DOMAIN view.store = {heap.tag[b].id : b \in L}
      /\ \A b \in L : view.store[heap.tag[b].id] = Contents(heap, b)
  <2>1. L = Live(heap, roots) /\ view = ViewOf(heap, roots)
    BY DEF Seen
  <2> HIDE DEF L
  <2> QED
    BY <1>4, <2>1, ViewHolds
<1>8. Distinct(g, M)
  BY <1>1 DEF Seen
<1>9. roots' \in [RootSlots -> Addr]
  <2> HIDE DEF p
  <2> QED
    BY <1>2, <1>3
<1> HIDE DEF p, g, n, L
<1>10. M = Live(g, roots')
  OBVIOUS
<1> HIDE DEF M
<1>11. Readable(g, M)
  <2> SUFFICES ASSUME NEW b \in M
               PROVE  /\ g.word[b] \in Nat /\ b + Header + g.word[b] <= HeapEnd
                      /\ g.tag[b].ref => \A k \in 1 .. g.word[b] :
                            g.word[b + Header + k - 1] \in Addr
    BY DEF Readable
  <2>1. CASE b = p
    <3>1. 0 \in Addr
      BY Numbers DEF Addr
    <3> QED
      BY <2>1, <3>1, <1>2 DEF n
  <2>2. CASE b \in L
    BY <2>2, <1>4, <1>6 DEF Readable, Unmoved
  <2> QED
    BY <1>1, <2>1, <2>2
<1>12. p \in M
  <2>1. roots'[r] \in M \cup {GC_NULL}
    BY <1>9, <1>10, LiveHolds
  <2>2. roots'[r] = p
    BY <1>3, <1>4
  <2> QED
    BY <2>1, <2>2, <1>2
<1>13. /\ DOMAIN view'.store = {g.tag[b].id : b \in M}
       /\ \A b \in M : view'.store[g.tag[b].id] = Contents(g, b)
  <2> DEFINE v == view'
             rs == roots'
  <2>1. M = Live(g, rs) /\ Distinct(g, M) /\ v = ViewOf(g, rs)
    BY <1>3, <1>8, <1>10
  <2> HIDE DEF v, rs
  <2>2. /\ v.stack = [q \in RootSlots |-> IdOf(g, rs[q])]
        /\ DOMAIN v.store = {g.tag[b].id : b \in M}
        /\ \A b \in M : v.store[g.tag[b].id] = Contents(g, b)
    BY <2>1, ViewHolds
  <2> QED
    BY <2>2 DEF v
<1>14. id \notin DOMAIN view.store /\ id \in DOMAIN view'.store /\ id \in Ids
  BY <1>2, <1>12, <1>13 DEF FreshIds
<1> DEFINE st == [view.stack EXCEPT ![r] = id]
           S == [j \in DOMAIN view.store \cup {id} |->
                   IF j = id THEN view'.store[id] ELSE view.store[j]]
<1>15. st = [q \in RootSlots |-> IdOf(g, roots'[q])]
  <2>1. IdOf(g, p) = id
    BY <1>2 DEF IdOf
  <2>2. ASSUME NEW q \in RootSlots PROVE st[q] = IdOf(g, roots'[q])
    <3>1. CASE q = r
      BY <3>1, <2>1, <1>3, <1>7, <1>9
    <3>2. CASE q # r
      BY <3>2, <1>3, <1>4, <1>5, <1>7
    <3> QED
      BY <3>1, <3>2
  <2>3. st = [q \in RootSlots |-> st[q]]
    BY <1>7
  <2> HIDE DEF st
  <2> QED
    BY <2>2, <2>3
<1>16. \A b \in M : g.tag[b].id \in DOMAIN S /\ S[g.tag[b].id] = Contents(g, b)
  <2>1. CASE \A b \in M : b \in L \cup {p}
    <3>1. ASSUME NEW b \in M, b \in L PROVE g.tag[b].id \in DOMAIN S /\ S[g.tag[b].id] = Contents(g, b)
      <4>1. g.tag[b].id \in DOMAIN view.store /\ view.store[g.tag[b].id] = Contents(g, b)
        BY <1>5, <1>7, <3>1
      <4> QED
        BY <4>1, <1>14
    <3>2. id \in DOMAIN S /\ S[id] = Contents(g, p)
      BY <1>2, <1>12, <1>13
    <3> QED
      BY <2>1, <3>1, <3>2, <1>2
  <2> QED
    BY <1>1, <2>1
<1> HIDE DEF st, S
<1>17. Abstract!Becomes(st, S)
  <2> DEFINE rs == roots'
  <2>1. /\ M = Live(g, rs) /\ Readable(g, M) /\ Distinct(g, M) /\ rs \in [RootSlots -> Addr]
        /\ view' = ViewOf(g, rs) /\ st = [q \in RootSlots |-> IdOf(g, rs[q])]
    BY <1>3, <1>8, <1>9, <1>10, <1>11, <1>15
  <2> HIDE DEF rs
  <2> QED
    BY <2>1, <1>16, ViewBecomes
<1>18. /\ view'.store[id] = Contents(g, p)
       /\ Contents(g, p).ref = ref
       /\ \E len \in Lengths, slack \in {0, 1} : Contents(g, p).elems = [k \in 1 .. len + slack |-> 0]
  <2>1. view'.store[id] = Contents(g, p)
    BY <1>2, <1>12, <1>13
  <2>2. Contents(g, p) = [ref |-> ref,
                          elems |-> [k \in 1 .. n |-> IF ref THEN IdOf(g, g.word[p + Header + k - 1])
                                                             ELSE g.word[p + Header + k - 1]]]
    <3>1. M \subseteq Addr
      BY <1>9, <1>10, LiveHolds
    <3>2. Contents(g, p) =
            [ref   |-> g.tag[p].ref,
             elems |-> [k \in 1 .. g.word[p] |->
                          IF g.tag[p].ref THEN IdOf(g, g.word[p + Header + k - 1])
                                          ELSE g.word[p + Header + k - 1]]]
      BY <3>1, <1>11, <1>12, ContentsAre
    <3> QED
      BY <3>2, <1>2 DEF n
  <2>3. IdOf(g, 0) = 0
    BY DEF IdOf, NoId
  <2>4. Contents(g, p).elems = [k \in 1 .. n |-> 0]
    <3>1. \A k \in 1 .. n : (IF ref THEN IdOf(g, g.word[p + Header + k - 1])
                                   ELSE g.word[p + Header + k - 1]) = 0
      BY <2>3, <1>2
    <3> QED
      BY <2>2, <3>1
  <2>5. PICK slack \in {0, 1} : n = length + slack
    BY <1>2
  <2> QED
    BY <2>1, <2>2, <2>4, <2>5, SMTT(30), ZenonT(30)
<1>19. view.stack[r] = NoId
  BY <1>7 DEF IdOf
<1>20. id \in (DOMAIN view'.store) \ DOMAIN view.store
  BY <1>14
<1>21. /\ view'.store[id].ref \in BOOLEAN
       /\ \E len \in Lengths, slack \in {0, 1} :
             view'.store[id].elems = [k \in 1 .. len + slack |-> 0]
  BY <1>18
<1>22. Abstract!Becomes([view.stack EXCEPT ![r] = id],
                        [j \in DOMAIN view.store \cup {id} |->
                           IF j = id THEN view'.store[id] ELSE view.store[j]])
  BY <1>17 DEF st, S
<1> QED
  BY <1>19, <1>20, <1>21, <1>22 DEF Abstract!New

\* Following a reference or dropping one is a step of AbstractHeap.
LEMMA RootIsLoad ==
    ASSUME NEW A, Sound(heap, roots, A), Seen,
           Sound(heap, roots', A), Distinct(heap, Live(heap, roots')),
           Live(heap, roots') \subseteq Live(heap, roots), view' = ViewOf(heap, roots'),
           NEW s \in RootSlots, NEW x \in Live(heap, roots) \cup {GC_NULL},
           roots' = [roots EXCEPT ![s] = x]
    PROVE  Abstract!Becomes([view.stack EXCEPT ![s] = IdOf(heap, x)], view.store)
<1> DEFINE L == Live(heap, roots)
           rs == roots'
           M == Live(heap, rs)
           st == [view.stack EXCEPT ![s] = IdOf(heap, x)]
<1>1. Distinct(heap, L) /\ view = ViewOf(heap, roots) /\ roots \in [RootSlots -> Addr]
  BY SoundLive DEF Seen
<1>2. Readable(heap, M) /\ rs \in [RootSlots -> Addr]
  <2> HIDE DEF rs
  <2>1. Sound(heap, rs, A)
    BY DEF rs
  <2> QED
    BY <2>1, SoundLive
<1>3. /\ view.stack = [q \in RootSlots |-> IdOf(heap, roots[q])]
      /\ DOMAIN view.store = {heap.tag[b].id : b \in L}
      /\ \A b \in L : view.store[heap.tag[b].id] = Contents(heap, b)
  <2> HIDE DEF L
  <2> QED
    BY <1>1, ViewHolds DEF L
<1>4. st = [q \in RootSlots |-> IdOf(heap, rs[q])]
  <2>1. \A q \in RootSlots : st[q] = IdOf(heap, rs[q])
    BY <1>1, <1>3
  <2>2. st = [q \in RootSlots |-> st[q]]
    BY <1>3
  <2> HIDE DEF st, rs
  <2> QED
    BY <2>1, <2>2
<1>5. \A b \in M : /\ heap.tag[b].id \in DOMAIN view.store
                   /\ view.store[heap.tag[b].id] = Contents(heap, b)
  BY <1>3
<1> HIDE DEF M, L, st, rs
<1>6. M = Live(heap, rs) /\ Distinct(heap, M) /\ view' = ViewOf(heap, rs)
  BY DEF M, rs
<1>7. Abstract!Becomes(st, view.store)
  BY <1>2, <1>4, <1>5, <1>6, ViewBecomes, ZenonT(30)
<1> QED
  BY <1>7 DEF st

\* So is writing an element.
LEMMA WriteIsStore ==
    ASSUME NEW A, Sound(heap, roots, A), Seen,
           Sound(heap', roots, A), SameArrays(heap, heap', A),
           Distinct(heap', Live(heap', roots)),
           Live(heap', roots) \subseteq Live(heap, roots),
           NEW r \in RootSlots, NEW k \in Nat, NEW ref \in BOOLEAN, HasElement(r, k, ref),
           NEW x, WriteElement(r, k, x),
           NEW y, y = IF ref THEN IdOf(heap, x) ELSE x
    PROVE  Abstract!Becomes(view.stack, [view.store EXCEPT ![view.stack[r]].elems[k + 1] = y])
<1> DEFINE L == Live(heap, roots)
           g == heap'
           M == Live(g, roots)
           p == roots[r]
           S == [view.store EXCEPT ![view.stack[r]].elems[k + 1] = y]
<1>1. /\ Distinct(heap, L) /\ view = ViewOf(heap, roots) /\ roots \in [RootSlots -> Addr]
      /\ Readable(heap, L) /\ L \subseteq A
      /\ L \subseteq Addr \ {GC_NULL} /\ \A q \in RootSlots : roots[q] \in L \cup {GC_NULL}
      /\ heap \in Heap
  <2>1. /\ Distinct(heap, L) /\ view = ViewOf(heap, roots) /\ roots \in [RootSlots -> Addr]
        /\ Readable(heap, L) /\ L \subseteq A
        /\ heap \in Heap
    BY SoundLive DEF Seen, Sound
  <2> QED
    BY <2>1, LiveHolds
<1>2. Readable(g, M)
  <2> HIDE DEF g
  <2>1. Sound(g, roots, A)
    BY DEF g
  <2> QED
    BY <2>1, SoundLive
<1>3. /\ view.stack = [q \in RootSlots |-> IdOf(heap, roots[q])]
      /\ DOMAIN view.store = {heap.tag[b].id : b \in L}
      /\ \A b \in L : view.store[heap.tag[b].id] = Contents(heap, b)
  <2> HIDE DEF L
  <2> QED
    BY <1>1, ViewHolds DEF L
<1>4. /\ p \in L /\ p \in Addr \ {GC_NULL} /\ p \in Nat /\ heap.tag[p].ref = ref
      /\ heap.word[p] \in Nat /\ k < heap.word[p]
      /\ g = [heap EXCEPT !.word[p + Header + k] = x] /\ view' = ViewOf(g, roots)
      /\ p + Header + heap.word[p] <= HeapEnd /\ HeapEnd \in Nat
  <2>1. /\ p # GC_NULL /\ heap.tag[p].ref = ref /\ k < heap.word[p]
        /\ g = [heap EXCEPT !.word[p + Header + k] = x] /\ view' = ViewOf(g, roots)
    BY DEF HasElement, WriteElement, SlotAddr, ObjectLength
  <2>2. p \in L
    BY <1>1, <2>1
  <2> QED
    BY <1>1, <2>1, <2>2, Numbers DEF Readable
<1>5. /\ g.tag = heap.tag /\ \A b \in L : g.word[b] = heap.word[b]
      /\ \A z \in Addr : z # p + Header + k => g.word[z] = heap.word[z]
      /\ g.word[p + Header + k] = x
  <2>1. g.tag = heap.tag /\ \A b \in A : g.word[b] = heap.word[b]
    BY DEF SameArrays
  <2>2. p + Header + k \in Addr
    BY <1>4 DEF Addr
  <2> QED
    BY <2>1, <2>2, <1>1, <1>4 DEF Heap
<1>6. \A z : IdOf(g, z) = IdOf(heap, z)
  BY <1>5 DEF IdOf
<1>7. view.stack[r] = heap.tag[p].id
  BY <1>3, <1>4 DEF IdOf
<1>8. view.stack = [q \in RootSlots |-> IdOf(g, roots[q])]
  BY <1>3, <1>6
<1>9. Distinct(g, M) /\ M \subseteq L /\ M = Live(g, roots)
  OBVIOUS
<1> HIDE DEF g, M, L, p
<1>10. ASSUME NEW b \in L
       PROVE  Contents(heap, b) =
                [ref   |-> heap.tag[b].ref,
                 elems |-> [j \in 1 .. heap.word[b] |->
                              IF heap.tag[b].ref THEN IdOf(heap, heap.word[b + Header + j - 1])
                                                 ELSE heap.word[b + Header + j - 1]]]
  BY <1>1, ContentsAre
<1>11. ASSUME NEW b \in M
       PROVE  Contents(g, b) =
                [ref   |-> heap.tag[b].ref,
                 elems |-> [j \in 1 .. heap.word[b] |->
                              IF heap.tag[b].ref THEN IdOf(heap, g.word[b + Header + j - 1])
                                                 ELSE g.word[b + Header + j - 1]]]
  <2>1. M \subseteq Addr
    BY <1>1, <1>9
  <2>2. Contents(g, b) =
          [ref   |-> g.tag[b].ref,
           elems |-> [j \in 1 .. g.word[b] |->
                        IF g.tag[b].ref THEN IdOf(g, g.word[b + Header + j - 1])
                                        ELSE g.word[b + Header + j - 1]]]
    BY <1>2, <2>1, ContentsAre
  <2> QED
    BY <2>2, <1>5, <1>6, <1>9
<1>12. ASSUME NEW b \in M
       PROVE  heap.tag[b].id \in DOMAIN S /\ S[heap.tag[b].id] = Contents(g, b)
  <2>1. b \in L /\ heap.tag[b].id \in DOMAIN view.store
        /\ view.store[heap.tag[b].id] = Contents(heap, b)
    BY <1>3, <1>9
  <2>2. b \in Nat /\ heap.word[b] \in Nat /\ b + Header + heap.word[b] <= HeapEnd
    BY <1>1, <2>1, Numbers DEF Readable
  <2>3. CASE b = p
    <3> DEFINE e == [j \in 1 .. heap.word[p] |-> IF ref THEN IdOf(heap, heap.word[p + Header + j - 1])
                                                        ELSE heap.word[p + Header + j - 1]]
               f == [j \in 1 .. heap.word[p] |-> IF ref THEN IdOf(heap, g.word[p + Header + j - 1])
                                                        ELSE g.word[p + Header + j - 1]]
    <3>1. Contents(heap, p) = [ref |-> ref, elems |-> e] /\ Contents(g, p) = [ref |-> ref, elems |-> f]
      BY <1>4, <1>10, <1>11, <2>3, SMTT(30), ZenonT(30)
    <3>2. f = [e EXCEPT ![k + 1] = y]
      <4>1. ASSUME NEW j \in 1 .. heap.word[p] PROVE f[j] = [e EXCEPT ![k + 1] = y][j]
        <5>1. p + Header + j - 1 \in Addr
          BY <1>4 DEF Addr
        <5>2. CASE j = k + 1
          BY <5>2, <1>4, <1>5
        <5>3. CASE j # k + 1
          <6>1. p + Header + j - 1 # p + Header + k
            BY <5>3, <1>4
          <6>2. g.word[p + Header + j - 1] = heap.word[p + Header + j - 1]
            BY <5>1, <6>1, <1>5
          <6> QED
            BY <5>3, <6>2
        <5> QED
          BY <5>2, <5>3
      <4> QED
        BY <4>1
    <3> HIDE DEF e, f
    <3>3. S[heap.tag[p].id] = [Contents(heap, p) EXCEPT !.elems[k + 1] = y]
      BY <2>1, <2>3, <1>7
    <3> QED
      BY <2>1, <2>3, <3>1, <3>2, <3>3
  <2>4. CASE b # p
    <3>1. heap.tag[b].id # heap.tag[p].id
      BY <2>1, <2>4, <1>1, <1>4 DEF Distinct
    <3>2. S[heap.tag[b].id] = Contents(heap, b)
      BY <2>1, <3>1, <1>7
    <3>3. ASSUME NEW j \in 1 .. heap.word[b]
          PROVE  g.word[b + Header + j - 1] = heap.word[b + Header + j - 1]
      <4>1. b + Header + j - 1 \in Addr
        BY <2>2, <1>4 DEF Addr
      <4>2. \/ b < p /\ b + ObjectWords(heap, b) <= p
            \/ p < b /\ p + ObjectWords(heap, p) <= b
        <5>1. b \in A /\ p \in A /\ (b < p \/ p < b)
          BY <1>1, <1>4, <2>1, <2>2, <2>4
        <5> QED
          BY <5>1 DEF Sound
      <4>3. b + Header + j - 1 # p + Header + k
        BY <4>2, <2>2, <1>4 DEF ObjectWords
      <4> QED
        BY <4>1, <4>3, <1>5
    <3>4. Contents(g, b) = Contents(heap, b)
      BY <3>3, <2>1, <1>10, <1>11
    <3> QED
      BY <2>1, <3>2, <3>4
  <2> QED
    BY <2>3, <2>4
<1> HIDE DEF S
<1>13. Abstract!Becomes(view.stack, S)
  <2>1. \A b \in M : /\ g.tag[b].id \in DOMAIN S
                     /\ S[g.tag[b].id] = Contents(g, b)
    BY <1>5, <1>12
  <2>2. /\ M = Live(g, roots) /\ Readable(g, M) /\ Distinct(g, M)
        /\ roots \in [RootSlots -> Addr] /\ view' = ViewOf(g, roots)
    BY <1>1, <1>2, <1>4, <1>9
  <2> QED
    BY <2>1, <2>2, <1>8, ViewBecomes
<1> QED
  BY <1>13 DEF S

\* Every instruction but an allocation is a step of AbstractHeap.
LEMMA SoundIsAbstract ==
    ASSUME NEW A, Sound(heap, roots, A), Seen,
           ProgramStep \/ \E r, s \in RootSlots, k \in Elements : AIAStore(r, k, s)
    PROVE  Abstract!Next
<1> DEFINE L == Live(heap, roots)
<1>1. /\ Seen' /\ Live(heap', roots') \subseteq L
      /\ Sound(heap', roots', A) /\ SameArrays(heap, heap', A)
  BY SoundSees, ProgramSound
<1>2. /\ Distinct(heap, L) /\ view = ViewOf(heap, roots) /\ roots \in [RootSlots -> Addr]
      /\ Readable(heap, L)
      /\ L \subseteq Addr \ {GC_NULL} /\ \A q \in RootSlots : roots[q] \in L \cup {GC_NULL}
  <2>1. /\ Distinct(heap, L) /\ view = ViewOf(heap, roots) /\ roots \in [RootSlots -> Addr]
        /\ Readable(heap, L)
    BY SoundLive DEF Seen
  <2> QED
    BY <2>1, LiveHolds
<1>3. /\ view.stack = [q \in RootSlots |-> IdOf(heap, roots[q])]
      /\ DOMAIN view.store = {heap.tag[b].id : b \in L}
      /\ \A b \in L : view.store[heap.tag[b].id] = Contents(heap, b)
  <2> HIDE DEF L
  <2> QED
    BY <1>2, ViewHolds DEF L
<1>4. view' = ViewOf(heap', roots') /\ Distinct(heap', Live(heap', roots'))
  BY <1>1 DEF Seen
<1>5. ASSUME NEW r \in RootSlots, NEW k \in Elements, NEW ref \in BOOLEAN, HasElement(r, k, ref)
      PROVE  /\ roots[r] \in L /\ k \in Nat /\ k + 1 \in 1 .. heap.word[roots[r]]
             /\ view.stack[r] # NoId /\ view.store[view.stack[r]].ref = ref
             /\ k + 1 \in DOMAIN view.store[view.stack[r]].elems
             /\ k + 1 \in Abstract!Index
             /\ ref => /\ heap.word[SlotAddr(r, k)] \in L \cup {GC_NULL}
                       /\ view.store[view.stack[r]].elems[k + 1]
                            = IdOf(heap, heap.word[SlotAddr(r, k)])
  <2> DEFINE p == roots[r]
  <2>1. p \in L /\ p \in Addr \ {GC_NULL} /\ heap.tag[p].ref = ref /\ k < heap.word[p]
    BY <1>2, <1>5 DEF HasElement, ObjectLength
  <2>2. k \in Nat /\ heap.word[p] \in Nat /\ k + 1 \in 1 .. heap.word[p] /\ p \in Nat
    <3>1. k \in Nat /\ p \in Nat
      BY <2>1, Numbers, MutatorAssumption DEF MutatorAssumption
    <3>2. heap.word[p] \in Nat
      BY <2>1, <1>2 DEF Readable
    <3> HIDE DEF p
    <3> QED
      BY <2>1, <3>1, <3>2
  <2>3. view.stack[r] = heap.tag[p].id /\ heap.tag[p].id \in Ids /\ heap.tag[p].id # NoId
    BY <2>1, <1>2, <1>3, HeapAssumption DEF IdOf, Distinct, HeapAssumption, NoId
  <2>4. view.store[view.stack[r]] = Contents(heap, p) /\ view.stack[r] \in DOMAIN view.store
    BY <2>1, <2>3, <1>3
  <2>5. Contents(heap, p) =
          [ref   |-> heap.tag[p].ref,
           elems |-> [j \in 1 .. heap.word[p] |->
                        IF heap.tag[p].ref THEN IdOf(heap, heap.word[p + Header + j - 1])
                                           ELSE heap.word[p + Header + j - 1]]]
    <3> HIDE DEF L, p
    <3>1. L \subseteq Addr
      BY <1>2
    <3> QED
      BY <1>2, <2>1, <3>1, ContentsAre
  <2>6. k + 1 \in DOMAIN view.store[view.stack[r]].elems
    BY <2>2, <2>4, <2>5
  <2>7. k + 1 \in Abstract!Index
    BY <2>4, <2>6 DEF Abstract!Index
  <2>8. ASSUME ref
        PROVE  /\ heap.word[SlotAddr(r, k)] \in L \cup {GC_NULL}
               /\ view.store[view.stack[r]].elems[k + 1] = IdOf(heap, heap.word[SlotAddr(r, k)])
    <3>1. SlotAddr(r, k) = p + Header + (k + 1) - 1
      BY <2>2 DEF SlotAddr
    <3>2. heap.tag[p].ref /\ heap.word[p + Header + (k + 1) - 1] \in L \cup {GC_NULL}
      <4>1. heap.tag[p].ref
        BY <2>1, <2>8
      <4> HIDE DEF p
      <4> QED
        BY <4>1, <2>1, <2>2, <1>2, SlotsReached
    <3> QED
      BY <2>2, <2>4, <2>5, <3>1, <3>2
  <2> QED
    BY <2>1, <2>2, <2>3, <2>4, <2>5, <2>6, <2>7, <2>8
<1>6. ASSUME NEW r \in RootSlots, NEW s \in RootSlots, NEW k \in Elements, AIALoad(r, k, s)
      PROVE  Abstract!Next
  <2> DEFINE x == heap.word[SlotAddr(r, k)]
  <2>1. HasElement(r, k, TRUE) /\ roots' = [roots EXCEPT ![s] = x] /\ heap' = heap
    BY <1>6 DEF AIALoad
  <2>2. /\ view.stack[r] # NoId /\ view.store[view.stack[r]].ref
        /\ k + 1 \in DOMAIN view.store[view.stack[r]].elems /\ k + 1 \in Abstract!Index
        /\ x \in L \cup {GC_NULL} /\ view.store[view.stack[r]].elems[k + 1] = IdOf(heap, x)
    BY <1>5, <2>1
  <2> HIDE DEF x
  <2>3. Abstract!Becomes([view.stack EXCEPT ![s] = IdOf(heap, x)], view.store)
    BY <1>1, <1>4, <2>1, <2>2, RootIsLoad
  <2>4. Abstract!LoadRef(r, k + 1, s)
    BY <2>2, <2>3 DEF Abstract!LoadRef
  <2> QED
    BY <2>2, <2>4 DEF Abstract!Next
<1>7. ASSUME NEW r \in RootSlots, Pop(r)
      PROVE  Abstract!Next
  <2>1. roots' = [roots EXCEPT ![r] = GC_NULL] /\ heap' = heap
    BY <1>7 DEF Pop
  <2>2. IdOf(heap, GC_NULL) = NoId
    BY DEF IdOf
  <2>3. Abstract!Becomes([view.stack EXCEPT ![r] = IdOf(heap, GC_NULL)], view.store)
    BY <1>1, <1>4, <2>1, RootIsLoad
  <2>4. Abstract!Drop(r)
    BY <2>2, <2>3 DEF Abstract!Drop
  <2> QED
    BY <2>4 DEF Abstract!Next
<1>8. ASSUME NEW r \in RootSlots, NEW s \in RootSlots, NEW k \in Elements, AIAStore(r, k, s)
      PROVE  Abstract!Next
  <2>1. HasElement(r, k, TRUE) /\ WriteElement(r, k, roots[s]) /\ roots' = roots
    BY <1>8 DEF AIAStore, WriteElement
  <2>2. /\ view.stack[r] # NoId /\ view.store[view.stack[r]].ref /\ k \in Nat
        /\ k + 1 \in DOMAIN view.store[view.stack[r]].elems /\ k + 1 \in Abstract!Index
    BY <1>5, <2>1
  <2>3. view.stack[s] = IF TRUE THEN IdOf(heap, roots[s]) ELSE roots[s]
    BY <1>3
  <2>4. /\ Sound(heap', roots, A) /\ Distinct(heap', Live(heap', roots))
        /\ Live(heap', roots) \subseteq Live(heap, roots)
    BY <1>1, <1>4, <2>1
  <2>5. Abstract!Becomes(view.stack,
                         [view.store EXCEPT ![view.stack[r]].elems[k + 1] = view.stack[s]])
    BY <1>1, <2>1, <2>2, <2>3, <2>4, WriteIsStore
  <2>6. Abstract!StoreRef(r, k + 1, s)
    BY <2>2, <2>5 DEF Abstract!StoreRef
  <2> QED
    BY <2>2, <2>6 DEF Abstract!Next
<1>9. ASSUME NEW r \in RootSlots, NEW k \in Elements, NEW v \in Ints, IAStore(r, k, v)
      PROVE  Abstract!Next
  <2>1. HasElement(r, k, FALSE) /\ WriteElement(r, k, v) /\ roots' = roots
    BY <1>9 DEF IAStore, WriteElement
  <2>2. /\ view.stack[r] # NoId /\ ~view.store[view.stack[r]].ref /\ k \in Nat
        /\ k + 1 \in DOMAIN view.store[view.stack[r]].elems /\ k + 1 \in Abstract!Index
    BY <1>5, <2>1
  <2>3. v = IF FALSE THEN IdOf(heap, v) ELSE v
    OBVIOUS
  <2>4. /\ Sound(heap', roots, A) /\ Distinct(heap', Live(heap', roots))
        /\ Live(heap', roots) \subseteq Live(heap, roots)
    BY <1>1, <1>4, <2>1
  <2>5. Abstract!Becomes(view.stack,
                         [view.store EXCEPT ![view.stack[r]].elems[k + 1] = v])
    BY <1>1, <2>1, <2>2, <2>3, <2>4, WriteIsStore
  <2>6. Abstract!StoreInt(r, k + 1, v)
    BY <2>2, <2>5 DEF Abstract!StoreInt
  <2> QED
    BY <2>2, <2>6 DEF Abstract!Next
<1> QED
  BY <1>6, <1>7, <1>8, <1>9 DEF ProgramStep

LEMMA ProgramIsAbstract ==
    ASSUME NEW start, NEW end, WellFormed(heap, roots, start, end), Seen,
           ProgramStep \/ \E r, s \in RootSlots, k \in Elements : AIAStore(r, k, s)
    PROVE  Abstract!Next
<1> DEFINE A == Allocated(heap, start, end)
<1>1. Sound(heap, roots, A)
  BY WellFormedSound
<1> HIDE DEF A
<1> QED
  BY <1>1, SoundIsAbstract

\* The program starts with nothing.
LEMMA InitIsAbstract == MutatorInit => Abstract!Init
<1> SUFFICES ASSUME MutatorInit PROVE Abstract!Init
  OBVIOUS
<1>1. WellFormed(heap, roots, Base, Base) /\ Headers(heap, Base, Base) = {}
  BY InitHeap
<1>2. Live(heap, roots) = {}
  BY <1>1, WellFormedLive DEF Allocated
<1>3. view = ViewOf(heap, roots) /\ roots = [r \in RootSlots |-> GC_NULL]
  BY DEF MutatorInit
<1>4. view.stack = [q \in RootSlots |-> IdOf(heap, roots[q])]
  BY <1>3 DEF ViewOf
<1>5. view.store = [i \in {heap.tag[a].id : a \in Live(heap, roots)} |->
                      Contents(heap, CHOOSE a \in Live(heap, roots) : heap.tag[a].id = i)]
  BY <1>3 DEF ViewOf, Live
<1>6. view.stack = [q \in RootSlots |-> NoId]
  BY <1>3, <1>4 DEF IdOf
<1>7. view.store = [i \in {} |-> NoId]
  BY <1>2, <1>5
<1> QED
  BY <1>6, <1>7 DEF Abstract!Init

\* So is pushing the array that a bump allocated.
LEMMA BumpIsNew ==
    ASSUME NEW start, WellFormed(heap, roots, start, heap.watermark), Base <= heap.watermark, Seen,
           NEW length \in Lengths, length \in Nat, NEW ref \in BOOLEAN, NEW id \in FreshIds,
           NEW a, a = RawAlloc(heap, length, ref, id), a.ref # SENTINEL,
           NEW r \in RootSlots, roots[r] = GC_NULL, Push(r, a), heap' = a.heap
    PROVE  Abstract!New(r)
  BY BumpIsFresh, PushIsNew

\* A step that pushes a new array, or none, or leaves the view alone.
LEMMA NewIsAbstract ==
    ASSUME NEW r \in RootSlots, Abstract!New(r)
    PROVE  Abstract!Next
  BY DEF Abstract!Next

\* While an allocation waits for its retry, the slot it was asked for is empty.
Waiting ==
    /\ req \in Request
    /\ pc = "run" => req = NoReq
    /\ pc = "retry" => req # NoReq
    /\ req # NoReq => roots[req.slot] = GC_NULL

LEMMA WaitingMeans ==
    ASSUME Waiting, pc = "retry"
    PROVE  /\ req.slot \in RootSlots /\ roots[req.slot] = GC_NULL
           /\ req.length \in Lengths /\ req.length \in Nat /\ req.ref \in BOOLEAN
<1>1. req \in [slot : RootSlots, length : Lengths, ref : BOOLEAN] /\ roots[req.slot] = GC_NULL
  BY DEF Waiting, Request
<1> QED
  BY <1>1, MutatorAssumption DEF MutatorAssumption

LEMMA WaitingKept ==
    ASSUME Waiting,
           \/ \E r \in RootSlots, length \in Lengths, ref \in Kinds : \E a : AllocFirst(r, length, ref, a)
           \/ \E a : AllocRetry(a)
           \/ GCInstruction \/ CollectReturn
           \/ ProgramStep \/ \E r, s \in RootSlots, k \in Elements : AIAStore(r, k, s)
           \/ UNCHANGED <<roots, req>> /\ (pc' = pc \/ pc' \notin {"run", "retry"})
    PROVE  Waiting'
<1>1. ASSUME NEW r \in RootSlots, NEW length \in Lengths, NEW ref \in Kinds, NEW a,
             AllocFirst(r, length, ref, a)
      PROVE  Waiting'
  <2> DEFINE q == [slot |-> r, length |-> length, ref |-> ref]
  <2>1. q \in Request /\ q.slot = r
    BY MutatorAssumption DEF MutatorAssumption, Request
  <2>2. pc = "run" /\ req = NoReq /\ roots[r] = GC_NULL
    BY <1>1 DEF AllocFirst, Waiting
  <2>3. CASE a.ref = SENTINEL
    <3>1. req' = q /\ roots' = roots /\ pc' = "collect"
      BY <1>1, <2>3 DEF AllocFirst, Stop
    <3> HIDE DEF q
    <3> QED
      BY <2>1, <2>2, <3>1 DEF Waiting
  <2>4. CASE a.ref # SENTINEL
    BY <1>1, <2>2, <2>4 DEF AllocFirst, Waiting
  <2> QED
    BY <2>3, <2>4
<1>2. ASSUME NEW a, AllocRetry(a) PROVE Waiting'
  <2>1. req' = NoReq /\ pc' \in {"run", "oom"}
    BY <1>2 DEF AllocRetry
  <2> QED
    BY <2>1 DEF Waiting, Request
<1>3. CASE GCInstruction
  BY <1>3 DEF GCInstruction, Stop, Waiting, Request
<1>4. CASE CollectReturn
  <2>1. UNCHANGED <<roots, req>> /\ pc' = IF req = NoReq THEN "run" ELSE "retry"
    BY <1>4 DEF CollectReturn
  <2> QED
    BY <2>1 DEF Waiting
<1>5. CASE ProgramStep \/ \E r, s \in RootSlots, k \in Elements : AIAStore(r, k, s)
  <2>1. pc = "run" /\ UNCHANGED <<pc, req>>
    BY <1>5 DEF ProgramStep, AIALoad, IAStore, Pop, AIAStore, WriteElement
  <2> QED
    BY <2>1 DEF Waiting
<1>6. CASE UNCHANGED <<roots, req>> /\ (pc' = pc \/ pc' \notin {"run", "retry"})
  BY <1>6 DEF Waiting
<1> QED
  BY <1>1, <1>2, <1>3, <1>4, <1>5, <1>6

LEMMA InitWaiting == MutatorInit => Waiting
  BY DEF MutatorInit, Waiting, Request
=============================================================================
