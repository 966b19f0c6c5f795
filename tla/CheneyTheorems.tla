-------------------------- MODULE CheneyTheorems -----------------------------
(***************************************************************************)
(* Cheney's collector is correct for every heap size and program, if the   *)
(* spaces are laid out before the first collection (EarlyGC is FALSE; the  *)
(* run cheney_early_gc shows what happens otherwise).                      *)
(***************************************************************************)
EXTENDS Cheney, MutatorTheorems

USE DEF Header, Base, GC_NULL

\* No array is forwarded: so it is between collections.
NoForwards(h) == \A x \in Addr : ~h.tag[x].fwd

\* The semispace of n words at f, of which [f, e) is in use, and the one at t.
Apart(f, e, t, n) ==
    /\ f \in Nat /\ e \in Nat /\ t \in Nat /\ n \in Nat
    /\ Base <= f /\ f <= e /\ e <= f + n /\ f + n <= HeapEnd
    /\ Base <= t /\ t + n <= HeapEnd
    /\ f + n <= t \/ t + n <= f

\* What the flip found: the heap h0, the roots rs0 and the arrays in [f, e).
Found(h0, rs0, f, e) ==
    /\ WellFormed(h0, rs0, f, e) /\ NoForwards(h0)
    /\ Distinct(h0, Live(h0, rs0))

\* F takes every array of h0 that has been copied to its copy in h. Nothing else of
\* from-space has changed, and the copies tile to-space up to the watermark.
Evacuated(h0, F, h, f, e, t) ==
    /\ h \in Heap /\ t <= h.watermark
    /\ h.watermark - t = Cardinality(Covered(h0, DOMAIN F))
    /\ \A x \in Addr : f <= x /\ x < e =>
          IF x \in DOMAIN F
          THEN h.word[x] = F[x] /\ h.tag[x] = [h0.tag[x] EXCEPT !.fwd = TRUE]
          ELSE h.word[x] = h0.word[x] /\ h.tag[x] = h0.tag[x]
    /\ \A x \in Addr : h.tag[x].fwd => x \in DOMAIN F
    /\ Tiled(h, t, h.watermark)
    /\ Headers(h, t, h.watermark) = {F[a] : a \in DOMAIN F}
    /\ \A a, b \in DOMAIN F : F[a] = F[b] => a = b

\* The copy of the array a, of whose references those below the slot s are rewritten.
CopyOf(h0, F, h, a, s) ==
    /\ h.word[F[a]] = h0.word[a] /\ h.tag[F[a]] = h0.tag[a]
    /\ \A k \in 1 .. h0.word[a] :
          LET x == h0.word[a + Header + k - 1]
              y == h.word[F[a] + Header + k - 1]
          IN  IF h0.tag[a].ref /\ F[a] + Header + k - 1 < s
              THEN x \in DOMAIN F \cup {GC_NULL} /\ y = Carried(F, x)
              ELSE y = x

\* The roots below r are rewritten.
RootsTo(rs0, F, rs, r) ==
    /\ rs \in [RootSlots -> Addr]
    /\ \A i \in RootSlots : IF i < r
                            THEN rs0[i] \in DOMAIN F \cup {GC_NULL} /\ rs[i] = Carried(F, rs0[i])
                            ELSE rs[i] = rs0[i]

\* The scan stands at the slot s of the copy c, or has met the watermark.
ScanAt(h, t, c, s) ==
    /\ c \in Headers(h, t, h.watermark) \cup {h.watermark}
    /\ s \in Nat /\ c + Header <= s
    /\ IF c = h.watermark THEN s = c + Header ELSE s <= c + ObjectWords(h, c)

\* The loop invariant of cheney_collect.
Evacuating(h0, rs0, F, h, rs, f, e, t, r, c, s) ==
    /\ Found(h0, rs0, f, e)
    /\ DOMAIN F \subseteq Live(h0, rs0)
    /\ Evacuated(h0, F, h, f, e, t)
    /\ \A a \in DOMAIN F : CopyOf(h0, F, h, a, s)
    /\ RootsTo(rs0, F, rs, r)
    /\ ScanAt(h, t, c, s)

\* The flip begins it.
LEMMA FlipBegins ==
    ASSUME NEW h0, NEW rs0, NEW f, NEW e, NEW t, NEW n, Apart(f, e, t, n), Found(h0, rs0, f, e),
           NEW h, h = SetWatermark(h0, t)
    PROVE  \E F : Evacuating(h0, rs0, F, h, rs0, f, e, t, 1, t, t + Header)
<1> DEFINE F == [a \in {} |-> 0]
<1>1. /\ h0 \in Heap /\ t \in 0 .. HeapEnd /\ t \in Nat /\ rs0 \in [RootSlots -> Addr]
  BY WellFormedTypes, Numbers DEF Found, Apart
<1>2. h \in Heap /\ h.watermark = t /\ h.word = h0.word /\ h.tag = h0.tag
  BY <1>1, SetWatermarkType
<1>3. Headers(h, t, t) = {} /\ Tiled(h, t, t)
  BY <1>1, TiledEmpty
<1>4. DOMAIN F = {} /\ Cardinality(Covered(h0, {})) = 0
  BY CoveredBy
<1> HIDE DEF F
<1>5. Evacuated(h0, F, h, f, e, t)
  BY <1>1, <1>2, <1>3, <1>4 DEF Evacuated, Found, NoForwards
<1>6. RootsTo(rs0, F, rs0, 1)
  BY <1>1 DEF RootsTo, RootSlots
<1>7. ScanAt(h, t, t, t + Header)
  BY <1>1, <1>2 DEF ScanAt
<1> QED
  BY <1>4, <1>5, <1>6, <1>7 DEF Evacuating
\* What is reached lies in from-space, and what has been copied lies in to-space.
LEMMA CopiesWithin ==
    ASSUME NEW h0, NEW rs0, NEW F, NEW h, NEW f, NEW e, NEW t, NEW n, Apart(f, e, t, n),
           Found(h0, rs0, f, e), DOMAIN F \subseteq Live(h0, rs0), Evacuated(h0, F, h, f, e, t)
    PROVE  /\ h0 \in Heap /\ h.watermark \in Nat /\ h.watermark <= t + n
           /\ \A a \in Live(h0, rs0) :
                 /\ a \in Allocated(h0, f, e) /\ a \in Headers(h0, f, e)
                 /\ a \in Addr /\ a \in Nat /\ f <= a /\ a < e /\ a + ObjectWords(h0, a) <= e
                 /\ ObjectWords(h0, a) = 2 + h0.word[a] /\ h0.word[a] \in Nat
                 /\ ~h0.tag[a].free /\ h0.tag[a].head /\ a # GC_NULL
           /\ \A a \in DOMAIN F :
                 /\ F[a] \in Addr /\ F[a] \in Nat /\ t <= F[a] /\ F[a] < h.watermark
                 /\ F[a] \in Headers(h, t, h.watermark) /\ F[a] # GC_NULL
           /\ Cardinality(Covered(h0, DOMAIN F)) \in Nat /\ h.watermark - t <= e - f
<1>1. /\ WellFormed(h0, rs0, f, e) /\ h0 \in Heap /\ f \in Nat /\ e \in Nat /\ f <= e
      /\ Tiled(h0, f, e) /\ Live(h0, rs0) \subseteq Allocated(h0, f, e)
  BY WellFormedLive DEF Found, WellFormed
<1>2. Allocated(h0, f, e) \subseteq Headers(h0, f, e)
  BY DEF Allocated
<1>3. ASSUME NEW a \in Live(h0, rs0)
      PROVE  /\ a \in Allocated(h0, f, e) /\ a \in Headers(h0, f, e)
             /\ a \in Addr /\ a \in Nat /\ f <= a /\ a < e /\ a + ObjectWords(h0, a) <= e
             /\ ObjectWords(h0, a) = 2 + h0.word[a] /\ h0.word[a] \in Nat
             /\ ~h0.tag[a].free /\ h0.tag[a].head /\ a # GC_NULL
  <2>1. a \in Allocated(h0, f, e) /\ a \in Headers(h0, f, e)
    BY <1>1, <1>2
  <2>2. a \in Addr /\ a \in Nat /\ f <= a /\ a < e /\ a + ObjectWords(h0, a) <= e
    BY <1>1, <2>1, TiledWithin
  <2>3. ObjectWords(h0, a) = 2 + h0.word[a] /\ h0.word[a] \in Nat
    BY <1>1, <2>2, WordTypes
  <2>4. ~h0.tag[a].free /\ h0.tag[a].head
    BY <2>1 DEF Allocated, Headers
  <2>5. a # GC_NULL
    BY <2>2, <1>1 DEF Apart
  <2> QED
    BY <2>1, <2>2, <2>3, <2>4, <2>5
<1>4. DOMAIN F \subseteq Headers(h0, f, e)
  BY <1>1, <1>2
<1>5. /\ Cardinality(Covered(h0, DOMAIN F)) \in Nat
      /\ Cardinality(Covered(h0, DOMAIN F)) <= e - f
  BY <1>1, <1>4, CoveredWithin
<1>6. h \in Heap /\ h.watermark \in Nat /\ h.watermark - t = Cardinality(Covered(h0, DOMAIN F))
  BY Numbers DEF Evacuated, Heap
<1>7. h.watermark - t <= e - f /\ h.watermark <= t + n
  BY <1>5, <1>6, <1>1 DEF Apart
<1>8. ASSUME NEW a \in DOMAIN F
      PROVE  /\ F[a] \in Addr /\ F[a] \in Nat /\ t <= F[a] /\ F[a] < h.watermark
             /\ F[a] \in Headers(h, t, h.watermark) /\ F[a] # GC_NULL
  <2>1. F[a] \in Headers(h, t, h.watermark)
    BY DEF Evacuated
  <2>2. F[a] \in Addr /\ F[a] \in Nat /\ t <= F[a] /\ F[a] < h.watermark
    BY <2>1, HeadersWithin
  <2> QED
    BY <2>1, <2>2 DEF Apart
<1> QED
  BY <1>1, <1>3, <1>5, <1>6, <1>7, <1>8

\* The words that copying an array at v leaves: the copy at the old watermark, the
\* forwarding offset in the old header, and everything else as it was.
LEMMA CopyEffect ==
    ASSUME NEW h \in Heap, NEW v \in Addr, NEW w, w = h.watermark, NEW n, n = ObjectWords(h, v),
           v + n <= HeapEnd, w + n <= HeapEnd, v < w \/ v >= w + n,
           NEW g, g = Copy(h, v).heap
    PROVE  /\ Copy(h, v).ref = w
           /\ g \in Heap /\ g.watermark = w + n
           /\ \A x \in Addr : w <= x /\ x < w + n =>
                 /\ v + (x - w) \in Addr
                 /\ g.word[x] = h.word[v + (x - w)] /\ g.tag[x] = h.tag[v + (x - w)]
           /\ g.word[v] = w /\ g.tag[v] = [h.tag[v] EXCEPT !.fwd = TRUE]
           /\ \A x \in Addr : (x < w \/ x >= w + n) /\ x # v =>
                 g.word[x] = h.word[x] /\ g.tag[x] = h.tag[x]
<1> DEFINE h1 == MoveObject(h, v, w)
           h2 == SetWatermark(h1, w + n)
<1>1. /\ w \in Nat /\ w <= HeapEnd /\ n \in Nat /\ n >= 2 /\ v \in Nat /\ HeapEnd \in Nat
  BY ChunkSize, Numbers DEF Heap
<1>2. g = SetForwarded(h2, v, w) /\ Copy(h, v).ref = w
  BY DEF Copy
<1>3. /\ h1 \in Heap /\ h1.watermark = h.watermark
      /\ \A x \in Addr : w <= x /\ x < w + n =>
            /\ v + (x - w) \in Addr
            /\ h1.word[x] = h.word[v + (x - w)] /\ h1.tag[x] = h.tag[v + (x - w)]
      /\ \A x \in Addr : x < w \/ x >= w + n => h1.word[x] = h.word[x] /\ h1.tag[x] = h.tag[x]
  BY <1>1, MoveObjectEffect DEF Untouched
<1> HIDE DEF h1
<1>4. /\ h2 \in Heap /\ h2.watermark = w + n /\ h2.word = h1.word /\ h2.tag = h1.tag
  <2>1. w + n \in 0 .. HeapEnd
    BY <1>1
  <2> QED
    BY <1>3, <2>1, SetWatermarkType
<1> HIDE DEF h2
<1>5. /\ h2 = [word |-> h2.word, tag |-> h2.tag, watermark |-> h2.watermark]
      /\ h2.word \in [Addr -> Word] /\ h2.tag \in [Addr -> Tag] /\ h2.watermark \in 0 .. HeapEnd
  BY <1>4 DEF Heap
<1>6. w \in Word
  BY <1>1, Numbers DEF Word
<1>7. [h2.tag[v] EXCEPT !.fwd = TRUE] \in Tag
  BY <1>5 DEF Tag
<1>8. /\ g.word = [h2.word EXCEPT ![v] = w] /\ g.watermark = h2.watermark
      /\ g.tag = [h2.tag EXCEPT ![v] = [h2.tag[v] EXCEPT !.fwd = TRUE]]
      /\ g = [word |-> g.word, tag |-> g.tag, watermark |-> g.watermark]
  BY <1>2, <1>5 DEF SetForwarded
<1>9. g \in Heap
  <2>1. g.word \in [Addr -> Word] /\ g.tag \in [Addr -> Tag] /\ g.watermark \in 0 .. HeapEnd
    BY <1>5, <1>6, <1>7, <1>8
  <2> QED
    BY ONLY <1>8, <2>1 DEF Heap
<1>10. h2.tag[v] = h.tag[v]
  BY <1>1, <1>3, <1>4
<1>11. \A x \in Addr : x # v => g.word[x] = h2.word[x] /\ g.tag[x] = h2.tag[x]
  BY <1>5, <1>8
<1>12. g.word[v] = w /\ g.tag[v] = [h.tag[v] EXCEPT !.fwd = TRUE]
  BY <1>5, <1>8, <1>10
<1>13. \A x \in Addr : w <= x /\ x < w + n => x # v
  BY <1>1
<1> QED
  BY <1>2, <1>3, <1>4, <1>8, <1>9, <1>11, <1>12, <1>13

\* An array that is not forwarded is as the flip found it, and there is room for it.
LEMMA NotCopied ==
    ASSUME NEW h0, NEW rs0, NEW F, NEW h, NEW f, NEW e, NEW t, NEW n, Apart(f, e, t, n),
           Found(h0, rs0, f, e), DOMAIN F \subseteq Live(h0, rs0), Evacuated(h0, F, h, f, e, t),
           NEW v \in Live(h0, rs0), ~h.tag[v].fwd,
           NEW w, w = h.watermark, NEW size, size = ObjectWords(h, v)
    PROVE  /\ v \notin DOMAIN F /\ size = ObjectWords(h0, v) /\ size = 2 + h0.word[v]
           /\ h.tag[v] = h0.tag[v] /\ h.word[v] = h0.word[v]
           /\ v + size <= e /\ w + size <= t + n /\ (v < w \/ v >= w + size)
           /\ w + size - t = Cardinality(Covered(h0, DOMAIN F \cup {v}))
           /\ \A x \in Addr : v < x /\ x < v + size =>
                 /\ f <= x /\ x < e /\ x \notin DOMAIN F
                 /\ h.word[x] = h0.word[x] /\ h.tag[x] = h0.tag[x]
                 /\ ~h.tag[x].head /\ ~h.tag[x].fwd
<1>1. /\ h0 \in Heap /\ h.watermark \in Nat /\ h.watermark <= t + n
      /\ \A a \in Live(h0, rs0) :
            /\ a \in Headers(h0, f, e)
            /\ a \in Addr /\ a \in Nat /\ f <= a /\ a < e /\ a + ObjectWords(h0, a) <= e
            /\ ObjectWords(h0, a) = 2 + h0.word[a] /\ h0.word[a] \in Nat
  BY CopiesWithin
<1>2. /\ f \in Nat /\ e \in Nat /\ t \in Nat /\ n \in Nat /\ f <= e /\ e <= f + n
      /\ f + n <= t \/ t + n <= f
  BY DEF Apart
<1>3. Tiled(h0, f, e) /\ NoForwards(h0)
  BY DEF Found, WellFormed
<1>4. /\ h \in Heap /\ t <= h.watermark /\ h.watermark - t = Cardinality(Covered(h0, DOMAIN F))
      /\ \A x \in Addr : f <= x /\ x < e =>
            IF x \in DOMAIN F
            THEN h.word[x] = F[x] /\ h.tag[x] = [h0.tag[x] EXCEPT !.fwd = TRUE]
            ELSE h.word[x] = h0.word[x] /\ h.tag[x] = h0.tag[x]
      /\ \A x \in Addr : h.tag[x].fwd => x \in DOMAIN F
  BY DEF Evacuated
<1>5. \A x \in Addr : h0.tag[x] \in Tag
  BY <1>1 DEF Heap
<1>6. v \notin DOMAIN F
  <2>1. v \in DOMAIN F => h.tag[v] = [h0.tag[v] EXCEPT !.fwd = TRUE]
    BY <1>1, <1>4
  <2> QED
    BY <2>1, <1>1, <1>5 DEF Tag
<1>7. h.tag[v] = h0.tag[v] /\ h.word[v] = h0.word[v]
  BY <1>1, <1>4, <1>6
<1>8. size = ObjectWords(h0, v) /\ size = 2 + h0.word[v] /\ size \in Nat
  BY <1>1, <1>7 DEF ObjectWords
<1>9. \A x \in Headers(h0, f, e) : ~(v < x /\ x < v + size)
  BY <1>1, <1>2, <1>3, <1>8, TiledWithin
<1>10. ASSUME NEW x \in Addr, v < x, x < v + size
       PROVE  /\ f <= x /\ x < e /\ x \notin DOMAIN F
              /\ h.word[x] = h0.word[x] /\ h.tag[x] = h0.tag[x]
              /\ ~h.tag[x].head /\ ~h.tag[x].fwd
  <2>1. x \in Nat
    BY Numbers
  <2>2. f <= x /\ x < e
    BY <1>1, <1>2, <1>8, <1>10, <2>1
  <2>3. x \notin DOMAIN F /\ x \notin Headers(h0, f, e)
    BY <1>1, <1>9, <1>10
  <2>4. h.word[x] = h0.word[x] /\ h.tag[x] = h0.tag[x]
    BY <1>4, <2>2, <2>3
  <2>5. ~h0.tag[x].head
    BY <2>2, <2>3 DEF Headers
  <2> QED
    BY <1>4, <2>2, <2>3, <2>4, <2>5
<1>11. Cardinality(Covered(h0, DOMAIN F \cup {v})) = Cardinality(Covered(h0, DOMAIN F)) + size
  <2>1. DOMAIN F \subseteq Addr /\ v \in Addr
    BY <1>1
  <2>2. ASSUME NEW a \in DOMAIN F
        PROVE  a + ObjectWords(h0, a) <= v \/ v + ObjectWords(h0, v) <= a
    <3>1. a \in Headers(h0, f, e) /\ v \in Headers(h0, f, e) /\ a # v
      BY <1>1, <1>6
    <3> QED
      BY <3>1, <1>1, <1>2, <1>3, ChunksApart
  <2> QED
    BY <1>1, <1>8, <2>1, <2>2, CoveredApart
<1>12. /\ Cardinality(Covered(h0, DOMAIN F \cup {v})) \in Nat
       /\ Cardinality(Covered(h0, DOMAIN F \cup {v})) <= e - f
  <2>1. DOMAIN F \cup {v} \subseteq Headers(h0, f, e)
    BY <1>1
  <2> QED
    BY <2>1, <1>1, <1>2, <1>3, CoveredWithin
<1>13. w + size - t = Cardinality(Covered(h0, DOMAIN F \cup {v}))
  BY <1>1, <1>2, <1>4, <1>8, <1>11
<1>14. w + size <= t + n
  BY <1>1, <1>2, <1>8, <1>12, <1>13
<1>15. v < w \/ v >= w + size
  BY <1>1, <1>2, <1>4, <1>8, <1>14
<1>16. v + size <= e
  BY <1>1, <1>8
<1> QED
  BY <1>6, <1>7, <1>8, <1>10, <1>13, <1>14, <1>15, <1>16

\* h and g agree on the copies made so far.
SameCopies(h, g, t) ==
    /\ h.watermark <= g.watermark
    /\ \A x \in Addr : t <= x /\ x < h.watermark => g.word[x] = h.word[x] /\ g.tag[x] = h.tag[x]

\* One more array is copied.
LEMMA CopyEvacuates ==
    ASSUME NEW h0, NEW rs0, NEW F, NEW h, NEW f, NEW e, NEW t, NEW n, Apart(f, e, t, n),
           Found(h0, rs0, f, e), DOMAIN F \subseteq Live(h0, rs0), Evacuated(h0, F, h, f, e, t),
           NEW v \in Live(h0, rs0), ~h.tag[v].fwd,
           NEW w, w = h.watermark, NEW size, size = ObjectWords(h, v),
           NEW g, g = Copy(h, v).heap,
           NEW F2, F2 = [a \in DOMAIN F \cup {v} |-> IF a = v THEN w ELSE F[a]]
    PROVE  /\ Evacuated(h0, F2, g, f, e, t) /\ SameCopies(h, g, t) /\ g.watermark = w + size
           /\ g.word[w] = h0.word[v] /\ g.tag[w] = h0.tag[v] /\ w \in Addr /\ size \in Nat
           /\ size >= 2 /\ size = ObjectWords(g, w)
           /\ \A k \in 1 .. h0.word[v] : g.word[w + Header + k - 1] = h0.word[v + Header + k - 1]
<1>1. /\ h0 \in Heap /\ h.watermark \in Nat /\ h.watermark <= t + n
      /\ v \in Headers(h0, f, e) /\ v \in Addr /\ v \in Nat /\ f <= v /\ v < e
      /\ v + ObjectWords(h0, v) <= e
      /\ ObjectWords(h0, v) = 2 + h0.word[v] /\ h0.word[v] \in Nat /\ h0.tag[v].head
      /\ \A a \in DOMAIN F : F[a] \in Addr /\ F[a] \in Nat /\ t <= F[a] /\ F[a] < h.watermark
  BY CopiesWithin
<1>2. /\ f \in Nat /\ e \in Nat /\ t \in Nat /\ n \in Nat /\ f <= e /\ e <= f + n
      /\ f + n <= t \/ t + n <= f
      /\ t + n <= HeapEnd /\ f + n <= HeapEnd
  BY DEF Apart
<1>3. /\ v \notin DOMAIN F /\ size = ObjectWords(h0, v) /\ size = 2 + h0.word[v]
      /\ h.tag[v] = h0.tag[v] /\ h.word[v] = h0.word[v]
      /\ v + size <= e /\ w + size <= t + n /\ (v < w \/ v >= w + size)
      /\ w + size - t = Cardinality(Covered(h0, DOMAIN F \cup {v}))
      /\ \A x \in Addr : v < x /\ x < v + size =>
            /\ f <= x /\ x < e /\ x \notin DOMAIN F
            /\ h.word[x] = h0.word[x] /\ h.tag[x] = h0.tag[x]
            /\ ~h.tag[x].head /\ ~h.tag[x].fwd
  BY NotCopied
<1>4. /\ h \in Heap /\ t <= h.watermark
      /\ \A x \in Addr : f <= x /\ x < e =>
            IF x \in DOMAIN F
            THEN h.word[x] = F[x] /\ h.tag[x] = [h0.tag[x] EXCEPT !.fwd = TRUE]
            ELSE h.word[x] = h0.word[x] /\ h.tag[x] = h0.tag[x]
      /\ \A x \in Addr : h.tag[x].fwd => x \in DOMAIN F
      /\ Tiled(h, t, h.watermark)
      /\ Headers(h, t, h.watermark) = {F[a] : a \in DOMAIN F}
      /\ \A a, b \in DOMAIN F : F[a] = F[b] => a = b
  BY DEF Evacuated
<1>5. size \in Nat /\ size >= 2 /\ w \in Nat /\ t <= w /\ w \in Addr
  BY <1>1, <1>2, <1>3, <1>4, Numbers DEF Addr
<1>6. /\ g \in Heap /\ g.watermark = w + size
      /\ \A x \in Addr : w <= x /\ x < w + size =>
            /\ v + (x - w) \in Addr
            /\ g.word[x] = h.word[v + (x - w)] /\ g.tag[x] = h.tag[v + (x - w)]
      /\ g.word[v] = w /\ g.tag[v] = [h.tag[v] EXCEPT !.fwd = TRUE]
      /\ \A x \in Addr : (x < w \/ x >= w + size) /\ x # v =>
            g.word[x] = h.word[x] /\ g.tag[x] = h.tag[x]
  <2>1. v + size <= HeapEnd /\ w + size <= HeapEnd
    BY <1>1, <1>2, <1>3, <1>5, Numbers
  <2>2. /\ h \in Heap /\ v \in Addr /\ w = h.watermark /\ size = ObjectWords(h, v)
        /\ v + size <= HeapEnd /\ w + size <= HeapEnd /\ (v < w \/ v >= w + size)
        /\ g = Copy(h, v).heap
    BY <1>1, <1>3, <1>4, <2>1
  <2> QED
    BY ONLY <2>2, CopyEffect
<1>7. /\ DOMAIN F2 = DOMAIN F \cup {v} /\ F2[v] = w
      /\ \A a \in DOMAIN F : F2[a] = F[a]
  BY <1>3
<1>8. \A x \in Addr : x \in Nat
  BY Numbers
<1>9. g.word[w] = h0.word[v] /\ g.tag[w] = h0.tag[v]
  <2>1. v + (w - w) = v
    BY <1>1, <1>5
  <2> QED
    BY <2>1, <1>3, <1>5, <1>6
<1>10. ASSUME NEW x \in Addr, w < x, x < w + size
       PROVE  /\ ~g.tag[x].head /\ ~g.tag[x].fwd
              /\ v + (x - w) \in Addr /\ g.word[x] = h0.word[v + (x - w)]
  <2> DEFINE y == v + (x - w)
  <2>1. x \in Nat /\ y \in Addr /\ g.word[x] = h.word[y] /\ g.tag[x] = h.tag[y]
    BY <1>5, <1>6, <1>8, <1>10
  <2>2. v < y /\ y < v + size
    BY <1>1, <1>5, <1>10, <2>1
  <2> HIDE DEF y
  <2>3. ~h.tag[y].head /\ ~h.tag[y].fwd /\ h.word[y] = h0.word[y]
    BY <1>3, <2>1, <2>2
  <2> QED
    BY <2>1, <2>3 DEF y
<1>11. \A k \in 1 .. h0.word[v] : g.word[w + Header + k - 1] = h0.word[v + Header + k - 1]
  <2> SUFFICES ASSUME NEW k \in 1 .. h0.word[v]
               PROVE  g.word[w + Header + k - 1] = h0.word[v + Header + k - 1]
    OBVIOUS
  <2> DEFINE x == w + Header + k - 1
  <2>1. k \in Nat /\ k >= 1 /\ k <= h0.word[v]
    BY <1>1
  <2>2. w < x /\ x < w + size /\ x \in Nat
    BY <1>3, <1>5, <1>1, <2>1
  <2>3. x \in Addr
    BY <2>2, <1>2, <1>3, <1>5, Numbers DEF Addr
  <2>4. v + (x - w) = v + Header + k - 1
    BY <1>1, <1>5, <2>1
  <2> HIDE DEF x
  <2>5. g.word[x] = h0.word[v + (x - w)]
    BY <1>10, <2>2, <2>3
  <2> QED
    BY <2>4, <2>5 DEF x
<1>12. SameCopies(h, g, t)
  <2>1. ASSUME NEW x \in Addr, t <= x, x < h.watermark
        PROVE  g.word[x] = h.word[x] /\ g.tag[x] = h.tag[x]
    <3>1. x # v /\ x < w
      BY <1>1, <1>2, <1>5, <1>8, <2>1
    <3> QED
      BY <1>6, <3>1
  <2> QED
    BY <1>5, <1>6, <2>1 DEF SameCopies
<1>13. size = ObjectWords(g, w)
  BY <1>3, <1>9 DEF ObjectWords
<1>14. ASSUME NEW x \in Addr, f <= x, x < e
       PROVE  IF x \in DOMAIN F2
              THEN g.word[x] = F2[x] /\ g.tag[x] = [h0.tag[x] EXCEPT !.fwd = TRUE]
              ELSE g.word[x] = h0.word[x] /\ g.tag[x] = h0.tag[x]
  <2>1. CASE x = v
    BY <2>1, <1>3, <1>6, <1>7
  <2>2. CASE x # v
    <3>1. x < w \/ x >= w + size
      BY <1>2, <1>3, <1>5, <1>8, <1>14
    <3>2. g.word[x] = h.word[x] /\ g.tag[x] = h.tag[x]
      BY <1>6, <2>2, <3>1
    <3>3. x \in DOMAIN F2 <=> x \in DOMAIN F
      BY <1>7, <2>2
    <3> QED
      BY <1>4, <1>7, <1>14, <3>2, <3>3
  <2> QED
    BY <2>1, <2>2
<1>15. ASSUME NEW x \in Addr, g.tag[x].fwd
       PROVE  x \in DOMAIN F2
  <2>1. CASE x = v
    BY <2>1, <1>7
  <2>2. CASE w <= x /\ x < w + size /\ x # v
    <3>1. x # w
      <4>1. ~h.tag[v].fwd
        OBVIOUS
      <4> QED
        BY <4>1, <1>3, <1>9, <1>15
    <3> QED
      BY <3>1, <2>2, <1>5, <1>8, <1>10, <1>15
  <2>3. CASE ~(w <= x /\ x < w + size) /\ x # v
    <3>1. x < w \/ x >= w + size
      BY <1>5, <1>8, <2>3
    <3> QED
      BY <3>1, <2>3, <1>4, <1>6, <1>7, <1>15
  <2> QED
    BY <2>1, <2>2, <2>3
<1>16. /\ Headers(g, t, w) = {F[a] : a \in DOMAIN F} /\ Tiled(g, t, w)
  <2>1. \A x \in Addr : t <= x /\ x < w =>
           /\ g.tag[x].head <=> h.tag[x].head
           /\ h.tag[x].head => g.word[x] = h.word[x]
    BY <1>12 DEF SameCopies
  <2>2. Headers(g, t, w) = Headers(h, t, w) /\ (Tiled(h, t, w) => Tiled(g, t, w))
    <3>1. t \in Nat /\ w \in Nat
      BY <1>2, <1>5
    <3> QED
      BY ONLY <2>1, <3>1, TiledSame, Zenon
  <2> QED
    BY <2>2, <1>4
<1>17. Headers(g, w, w + size) = {w} /\ Tiled(g, w, w + size)
  <2>1. w + size \in Nat /\ w + ObjectWords(g, w) = w + size /\ g.tag[w].head
    BY <1>1, <1>5, <1>9, <1>13
  <2>2. \A x \in Addr : w < x /\ x < w + size => ~g.tag[x].head
    BY <1>10
  <2> QED
    BY <2>1, <2>2, <1>5, <1>6, TiledOne
<1>18. /\ Tiled(g, t, w + size)
       /\ Headers(g, t, w + size) = {F[a] : a \in DOMAIN F} \cup {w}
  <2>1. w + size \in Nat /\ t <= w /\ w <= w + size
    BY <1>5
  <2>2. Tiled(g, t, w + size)
    BY <2>1, <1>2, <1>5, <1>6, <1>16, <1>17, TiledJoin
  <2>3. Headers(g, t, w + size) = Headers(g, t, w) \cup Headers(g, w, w + size)
    BY <2>1, <1>2, <1>5, <1>6, HeadersJoin
  <2> QED
    BY <2>2, <2>3, <1>16, <1>17
<1>19. {F[a] : a \in DOMAIN F} \cup {w} = {F2[a] : a \in DOMAIN F2}
  BY <1>7
<1>20. \A a, b \in DOMAIN F2 : F2[a] = F2[b] => a = b
  <2>1. \A a \in DOMAIN F : F[a] # w
    BY <1>1, <1>5
  <2> QED
    BY <2>1, <1>4, <1>7
<1>21. g.watermark - t = Cardinality(Covered(h0, DOMAIN F2)) /\ t <= g.watermark
  BY <1>2, <1>3, <1>5, <1>6, <1>7
<1>22. Evacuated(h0, F2, g, f, e, t)
  BY <1>6, <1>14, <1>15, <1>18, <1>19, <1>20, <1>21 DEF Evacuated
<1> QED
  BY <1>5, <1>6, <1>9, <1>11, <1>12, <1>13, <1>22

\* Where the copy of an array lies, and its slots.
LEMMA CopyRange ==
    ASSUME NEW h0, NEW rs0, NEW F, NEW h, NEW f, NEW e, NEW t, NEW n, Apart(f, e, t, n),
           Found(h0, rs0, f, e), DOMAIN F \subseteq Live(h0, rs0), Evacuated(h0, F, h, f, e, t),
           NEW a \in DOMAIN F, NEW s, CopyOf(h0, F, h, a, s)
    PROVE  /\ a \in Addr /\ a \in Nat /\ h0.word[a] \in Nat /\ a + Header + h0.word[a] <= e
           /\ F[a] \in Addr /\ F[a] \in Nat /\ t <= F[a] /\ F[a] # GC_NULL
           /\ F[a] \in Headers(h, t, h.watermark)
           /\ ObjectWords(h, F[a]) = 2 + h0.word[a]
           /\ F[a] + ObjectWords(h, F[a]) <= h.watermark
           /\ \A k \in 1 .. h0.word[a] :
                 /\ F[a] + Header + k - 1 \in Addr /\ F[a] + Header + k - 1 \in Nat
                 /\ t <= F[a] + Header + k - 1 /\ F[a] + Header + k - 1 < h.watermark
<1>1. /\ a \in Live(h0, rs0) /\ h.watermark \in Nat /\ h.watermark <= t + n
      /\ a \in Addr /\ a \in Nat /\ a + ObjectWords(h0, a) <= e
      /\ ObjectWords(h0, a) = 2 + h0.word[a] /\ h0.word[a] \in Nat
      /\ F[a] \in Addr /\ F[a] \in Nat /\ t <= F[a] /\ F[a] # GC_NULL
      /\ F[a] \in Headers(h, t, h.watermark)
  BY CopiesWithin
<1>2. h \in Heap /\ Tiled(h, t, h.watermark) /\ t \in Nat /\ t + n <= HeapEnd /\ n \in Nat
  BY DEF Evacuated, Apart
<1>3. F[a] + ObjectWords(h, F[a]) <= h.watermark
  BY <1>1, <1>2, TiledWithin
<1>4. ObjectWords(h, F[a]) = 2 + h0.word[a]
  BY DEF CopyOf, ObjectWords
<1>5. ASSUME NEW k \in 1 .. h0.word[a]
      PROVE  /\ F[a] + Header + k - 1 \in Addr /\ F[a] + Header + k - 1 \in Nat
             /\ t <= F[a] + Header + k - 1 /\ F[a] + Header + k - 1 < h.watermark
  <2>1. k \in Nat /\ k >= 1 /\ k <= h0.word[a]
    BY <1>1
  <2>2. /\ F[a] + Header + k - 1 \in Nat
        /\ t <= F[a] + Header + k - 1 /\ F[a] + Header + k - 1 < h.watermark
    BY <1>1, <1>2, <1>3, <1>4, <2>1
  <2>3. F[a] + Header + k - 1 < HeapEnd
    BY <2>2, <1>1, <1>2, Numbers
  <2> QED
    BY <2>2, <2>3, Numbers DEF Addr
<1>6. a + Header + h0.word[a] <= e
  BY <1>1
<1> QED
  BY <1>1, <1>3, <1>4, <1>5, <1>6

\* A copy stays what it is while another array is copied.
LEMMA StillCopied ==
    ASSUME NEW h0, NEW rs0, NEW F, NEW h, NEW f, NEW e, NEW t, NEW n, Apart(f, e, t, n),
           Found(h0, rs0, f, e), DOMAIN F \subseteq Live(h0, rs0), Evacuated(h0, F, h, f, e, t),
           NEW a \in DOMAIN F, NEW s, CopyOf(h0, F, h, a, s), NEW g, SameCopies(h, g, t),
           NEW F2, DOMAIN F \subseteq DOMAIN F2, \A b \in DOMAIN F : F2[b] = F[b]
    PROVE  CopyOf(h0, F2, g, a, s)
<1>1. /\ h0.word[a] \in Nat /\ F[a] \in Addr /\ F[a] \in Nat /\ t <= F[a]
      /\ F[a] \in Headers(h, t, h.watermark)
      /\ \A k \in 1 .. h0.word[a] :
            /\ F[a] + Header + k - 1 \in Addr /\ F[a] + Header + k - 1 \in Nat
            /\ t <= F[a] + Header + k - 1 /\ F[a] + Header + k - 1 < h.watermark
  BY CopyRange
<1>2. F[a] < h.watermark /\ F2[a] = F[a]
  BY <1>1, HeadersWithin
<1>3. g.word[F[a]] = h0.word[a] /\ g.tag[F[a]] = h0.tag[a]
  BY <1>1, <1>2 DEF SameCopies, CopyOf
<1>4. ASSUME NEW k \in 1 .. h0.word[a], NEW x, x = h0.word[a + Header + k - 1]
      PROVE  IF h0.tag[a].ref /\ F[a] + Header + k - 1 < s
             THEN x \in DOMAIN F2 \cup {GC_NULL} /\ g.word[F[a] + Header + k - 1] = Carried(F2, x)
             ELSE g.word[F[a] + Header + k - 1] = x
  <2>1. g.word[F[a] + Header + k - 1] = h.word[F[a] + Header + k - 1]
    BY <1>1 DEF SameCopies
  <2>2. IF h0.tag[a].ref /\ F[a] + Header + k - 1 < s
        THEN x \in DOMAIN F \cup {GC_NULL} /\ h.word[F[a] + Header + k - 1] = Carried(F, x)
        ELSE h.word[F[a] + Header + k - 1] = x
    BY <1>4 DEF CopyOf
  <2>3. x \in DOMAIN F \cup {GC_NULL} =>
           x \in DOMAIN F2 \cup {GC_NULL} /\ Carried(F2, x) = Carried(F, x)
    BY DEF Carried
  <2> QED
    BY <2>1, <2>2, <2>3
<1> QED
  BY <1>2, <1>3, <1>4 DEF CopyOf

\* process_obj on a reference of the program that leads to v: what it leaves in the slot
\* is v's copy, made now unless it was made before.
LEMMA Processed ==
    ASSUME NEW h0, NEW rs0, NEW F, NEW rs, NEW f, NEW e, NEW t, NEW n, Apart(f, e, t, n),
           NEW r, NEW c, NEW s, Evacuating(h0, rs0, F, heap, rs, f, e, t, r, c, s),
           NEW v \in Live(h0, rs0) \cup {GC_NULL}, NEW p, p = ProcessObj(v)
    PROVE  \E F2 : /\ Evacuating(h0, rs0, F2, p.heap, rs, f, e, t, r, c, s)
                   /\ SameCopies(heap, p.heap, t)
                   /\ v \in DOMAIN F2 \cup {GC_NULL} /\ p.ref = Carried(F2, v)
<1>1. /\ Found(h0, rs0, f, e) /\ DOMAIN F \subseteq Live(h0, rs0)
      /\ Evacuated(h0, F, heap, f, e, t)
      /\ \A a \in DOMAIN F : CopyOf(h0, F, heap, a, s)
      /\ RootsTo(rs0, F, rs, r) /\ ScanAt(heap, t, c, s)
  BY DEF Evacuating
<1>2. SameCopies(heap, heap, t)
  <2>1. heap.watermark \in Nat
    BY <1>1, CopiesWithin
  <2> QED
    BY <2>1 DEF SameCopies
<1>3. CASE v = GC_NULL
  BY <1>2, <1>3 DEF ProcessObj, Carried
<1>4. CASE v # GC_NULL /\ heap.tag[v].fwd
  <2>1. v \in Addr /\ f <= v /\ v < e
    BY <1>1, <1>4, CopiesWithin
  <2>2. v \in DOMAIN F /\ heap.word[v] = F[v]
    BY <2>1, <1>1, <1>4 DEF Evacuated
  <2>3. p = [ref |-> heap.word[v], heap |-> heap]
    BY <1>4 DEF ProcessObj, IsForwarded, GetForwarded
  <2> QED
    BY <1>2, <1>4, <2>2, <2>3 DEF Carried
<1>5. CASE v # GC_NULL /\ ~heap.tag[v].fwd
  <2> DEFINE w == heap.watermark
             size == ObjectWords(heap, v)
             F2 == [a \in DOMAIN F \cup {v} |-> IF a = v THEN w ELSE F[a]]
             g == p.heap
  <2>1. v \in Live(h0, rs0) /\ p = Copy(heap, v)
    BY <1>5 DEF ProcessObj, IsForwarded
  <2>2. p.ref = w
    BY <2>1 DEF Copy
  <2>3. /\ Evacuated(h0, F2, g, f, e, t) /\ SameCopies(heap, g, t) /\ g.watermark = w + size
        /\ g.word[w] = h0.word[v] /\ g.tag[w] = h0.tag[v] /\ w \in Addr /\ size \in Nat
        /\ size >= 2 /\ size = ObjectWords(g, w)
        /\ \A k \in 1 .. h0.word[v] : g.word[w + Header + k - 1] = h0.word[v + Header + k - 1]
    <3> HIDE DEF w, size, F2, g
    <3>1. /\ v \in Live(h0, rs0) /\ ~heap.tag[v].fwd /\ w = heap.watermark
          /\ size = ObjectWords(heap, v) /\ g = Copy(heap, v).heap
          /\ F2 = [a \in DOMAIN F \cup {v} |-> IF a = v THEN w ELSE F[a]]
          /\ Found(h0, rs0, f, e) /\ DOMAIN F \subseteq Live(h0, rs0)
          /\ Evacuated(h0, F, heap, f, e, t) /\ Apart(f, e, t, n)
      BY <1>1, <1>5, <2>1 DEF w, size, g, F2
    <3> QED
      BY ONLY <3>1, CopyEvacuates
  <2>4. v \notin DOMAIN F
    BY <1>1, <1>5, <2>1, NotCopied
  <2>5. /\ DOMAIN F2 = DOMAIN F \cup {v} /\ F2[v] = w
        /\ \A a \in DOMAIN F : F2[a] = F[a]
    BY <2>4
  <2> HIDE DEF F2, w, size, g
  <2>6. w \in Nat /\ t \in Nat /\ h0.word[v] \in Nat
    <3>1. heap.watermark \in Nat /\ h0.word[v] \in Nat
      BY <1>1, <2>1, CopiesWithin
    <3> QED
      BY <3>1 DEF Apart, w
  <2>7. s \in Nat /\ s <= w + Header
    <3>1. s \in Nat /\ (c = w => s = c + Header) /\ (c # w => s <= c + ObjectWords(heap, c))
      BY <1>1 DEF ScanAt, w
    <3>2. c # w => c + ObjectWords(heap, c) <= w /\ c \in Nat /\ ObjectWords(heap, c) \in Nat
      <4>1. heap \in Heap /\ Tiled(heap, t, w) /\ c \in Headers(heap, t, w) \cup {w}
        BY <1>1 DEF Evacuated, ScanAt, w
      <4> QED
        BY <4>1, <2>6, TiledWithin
    <3> QED
      BY <3>1, <3>2, <2>6
  <2>8. ASSUME NEW a \in DOMAIN F2
        PROVE  CopyOf(h0, F2, g, a, s)
    <3>1. CASE a \in DOMAIN F
      BY <3>1, <1>1, <2>3, <2>5, StillCopied
    <3>2. CASE a = v
      <4>1. ASSUME NEW k \in 1 .. h0.word[v]
            PROVE  ~(w + Header + k - 1 < s)
        BY <2>6, <2>7
      <4> QED
        BY <3>2, <4>1, <2>3, <2>5 DEF CopyOf
    <3> QED
      BY <3>1, <3>2, <2>5
  <2>9. RootsTo(rs0, F2, rs, r)
    <3>1. \A x \in DOMAIN F \cup {GC_NULL} :
             x \in DOMAIN F2 \cup {GC_NULL} /\ Carried(F2, x) = Carried(F, x)
      BY <2>5 DEF Carried
    <3> QED
      BY <3>1, <1>1 DEF RootsTo
  <2>10. ScanAt(g, t, c, s)
    <3>1. /\ c \in Headers(heap, t, w) \cup {w} /\ s \in Nat /\ c + Header <= s
          /\ IF c = w THEN s = c + Header ELSE s <= c + ObjectWords(heap, c)
      BY <1>1 DEF ScanAt, w
    <3>2. CASE c = w
      <4>1. c \in Headers(g, t, g.watermark)
        <5>1. w \in {F2[a] : a \in DOMAIN F2}
          BY <2>5
        <5> QED
          BY <5>1, <3>2, <2>3 DEF Evacuated
      <4>2. c # g.watermark /\ s <= c + ObjectWords(g, c)
        BY <3>1, <3>2, <2>3, <2>6
      <4> QED
        BY <4>1, <4>2, <3>1 DEF ScanAt
    <3>3. CASE c # w
      <4>1. c \in Headers(heap, t, w)
        BY <3>1, <3>3
      <4>2. c \in Addr /\ c \in Nat /\ t <= c /\ c < w
        BY <4>1, HeadersWithin
      <4>3. g.word[c] = heap.word[c]
        BY <4>2, <2>3 DEF SameCopies, w
      <4>4. c \in Headers(g, t, g.watermark)
        <5>1. c \in {F2[a] : a \in DOMAIN F2}
          BY <4>1, <1>1, <2>5 DEF Evacuated, w
        <5> QED
          BY <5>1, <2>3 DEF Evacuated
      <4>5. c # g.watermark
        BY <4>2, <2>3, <2>6
      <4> QED
        BY <4>3, <4>4, <4>5, <3>1, <3>3 DEF ScanAt, ObjectWords
    <3> QED
      BY <3>2, <3>3
  <2>11. DOMAIN F2 \subseteq Live(h0, rs0)
    BY <1>1, <2>1, <2>5
  <2>12. Evacuating(h0, rs0, F2, g, rs, f, e, t, r, c, s)
    BY <1>1, <2>3, <2>8, <2>9, <2>10, <2>11 DEF Evacuating
  <2>13. v \in DOMAIN F2 \cup {GC_NULL} /\ p.ref = Carried(F2, v)
    BY <1>5, <2>2, <2>5 DEF Carried, w
  <2> QED
    BY <2>3, <2>12, <2>13 DEF g
<1> QED
  BY <1>3, <1>4, <1>5

\* Where F takes what it has copied, in the words of a program: an address.
LEMMA CarriedAddress ==
    ASSUME NEW h0, NEW rs0, NEW F, NEW h, NEW f, NEW e, NEW t, NEW n, Apart(f, e, t, n),
           Found(h0, rs0, f, e), DOMAIN F \subseteq Live(h0, rs0), Evacuated(h0, F, h, f, e, t),
           NEW v \in DOMAIN F \cup {GC_NULL}
    PROVE  Carried(F, v) \in Addr
  BY CopiesWithin, Numbers DEF Carried, Addr

\* One root is rewritten.
LEMMA RootProcessed ==
    ASSUME NEW h0, NEW rs0, NEW F, NEW f, NEW e, NEW t, NEW n, Apart(f, e, t, n),
           NEW r, NEW c, NEW s, Evacuating(h0, rs0, F, heap, roots, f, e, t, r, c, s),
           r \in RootSlots, NEW p, p = ProcessObj(roots[r]),
           NEW rs, rs = [roots EXCEPT ![r] = p.ref]
    PROVE  \E F2 : Evacuating(h0, rs0, F2, p.heap, rs, f, e, t, r + 1, c, s)
<1>1. RootsTo(rs0, F, roots, r) /\ Found(h0, rs0, f, e) /\ r \in Nat
  BY DEF Evacuating, RootSlots
<1>2. roots[r] = rs0[r]
  BY <1>1 DEF RootsTo
<1>3. rs0[r] \in Live(h0, rs0) \cup {GC_NULL}
  BY <1>1, WellFormedLive, LiveHolds DEF Found
<1>4. PICK F2 : /\ Evacuating(h0, rs0, F2, p.heap, roots, f, e, t, r, c, s)
                /\ rs0[r] \in DOMAIN F2 \cup {GC_NULL} /\ p.ref = Carried(F2, rs0[r])
  BY <1>2, <1>3, Processed
<1>5. p.ref \in Addr
  BY <1>4, CarriedAddress DEF Evacuating
<1>6. RootsTo(rs0, F2, rs, r + 1)
  <2>1. RootsTo(rs0, F2, roots, r)
    BY <1>4 DEF Evacuating
  <2>2. rs \in [RootSlots -> Addr] /\ rs[r] = p.ref /\ \A i \in RootSlots : i # r => rs[i] = roots[i]
    BY <1>5, <2>1 DEF RootsTo
  <2>3. \A i \in RootSlots : i < r + 1 <=> i < r \/ i = r
    BY <1>1 DEF RootSlots
  <2> QED
    BY <1>4, <2>1, <2>2, <2>3 DEF RootsTo
<1> QED
  BY <1>4, <1>6 DEF Evacuating

\* One slot of the copy at c is rewritten.
LEMMA SlotRewritten ==
    ASSUME NEW h0, NEW rs0, NEW F, NEW h, NEW rs, NEW f, NEW e, NEW t, NEW n, Apart(f, e, t, n),
           NEW r, NEW c, NEW s, Evacuating(h0, rs0, F, h, rs, f, e, t, r, c, s),
           c < h.watermark, s \in RefSlots(h, c), h.word[s] \in DOMAIN F \cup {GC_NULL},
           NEW y, y = Carried(F, h.word[s]), NEW g, g = [h EXCEPT !.word[s] = y]
    PROVE  Evacuating(h0, rs0, F, g, rs, f, e, t, r, c, s + 1)
<1>1. /\ Found(h0, rs0, f, e) /\ DOMAIN F \subseteq Live(h0, rs0) /\ Evacuated(h0, F, h, f, e, t)
      /\ \A a \in DOMAIN F : CopyOf(h0, F, h, a, s)
      /\ RootsTo(rs0, F, rs, r) /\ ScanAt(h, t, c, s)
  BY DEF Evacuating
<1>2. /\ h \in Heap /\ h.watermark \in Nat /\ h.watermark <= t + n /\ Tiled(h, t, h.watermark)
      /\ t \in Nat /\ n \in Nat /\ f \in Nat /\ e \in Nat /\ e <= f + n
      /\ f + n <= t \/ t + n <= f
      /\ h.watermark <= HeapEnd /\ HeapEnd \in Nat
  <2>1. h.watermark \in Nat /\ h.watermark <= t + n
    BY <1>1, CopiesWithin
  <2> QED
    BY <1>1, <2>1, Numbers DEF Evacuated, Apart
<1>3. c \in Headers(h, t, h.watermark) /\ c \in Nat
  <2>1. c \in Headers(h, t, h.watermark) \cup {h.watermark}
    BY <1>1 DEF ScanAt
  <2> QED
    BY <2>1, <1>2, HeadersWithin
<1>4. /\ s \in Addr /\ s \in Nat /\ s < h.watermark
      /\ s >= c + Header /\ s < c + ObjectWords(h, c)
      /\ s \notin Headers(h, t, h.watermark)
  BY <1>2, <1>3, SlotRange
<1>5. t <= c
  BY <1>3, HeadersWithin
<1>6. y \in Word
  BY <1>1, CarriedAddress, Numbers
<1>7. /\ g \in Heap /\ g.watermark = h.watermark /\ g.tag = h.tag /\ g.word[s] = y
      /\ \A x \in Addr : x # s => g.word[x] = h.word[x]
  BY <1>2, <1>4, <1>6 DEF Heap
<1>8. Headers(g, t, h.watermark) = Headers(h, t, h.watermark) /\ Tiled(g, t, h.watermark)
  <2>1. \A x \in Addr : t <= x /\ x < h.watermark =>
           /\ g.tag[x].head <=> h.tag[x].head
           /\ h.tag[x].head => g.word[x] = h.word[x]
    BY <1>4, <1>7 DEF Headers
  <2>2. t \in Nat /\ h.watermark \in Nat /\ Tiled(h, t, h.watermark)
    BY <1>2
  <2> QED
    BY ONLY <2>1, <2>2, TiledSame, Zenon
<1>9. \A x \in Addr : f <= x /\ x < e => x # s
  BY <1>2, <1>3, <1>4, <1>5, Numbers
<1>10. Evacuated(h0, F, g, f, e, t)
  BY <1>1, <1>7, <1>8, <1>9 DEF Evacuated
<1>11. PICK a \in DOMAIN F : F[a] = c
  BY <1>1, <1>3 DEF Evacuated
<1>12. h0.tag[a].ref
  <2>1. h.tag[c].ref
    BY DEF RefSlots
  <2> QED
    BY <2>1, <1>1, <1>11 DEF CopyOf
<1>13. ASSUME NEW b \in DOMAIN F
       PROVE  CopyOf(h0, F, g, b, s + 1)
  <2>1. /\ h0.word[b] \in Nat /\ F[b] \in Addr /\ F[b] \in Nat
        /\ F[b] \in Headers(h, t, h.watermark) /\ ObjectWords(h, F[b]) = 2 + h0.word[b]
        /\ \A k \in 1 .. h0.word[b] :
              F[b] + Header + k - 1 \in Addr /\ F[b] + Header + k - 1 \in Nat
    BY <1>1, CopyRange
  <2>2. CopyOf(h0, F, h, b, s)
    BY <1>1
  <2>3. g.word[F[b]] = h0.word[b] /\ g.tag[F[b]] = h0.tag[b]
    BY <2>1, <2>2, <1>4, <1>7 DEF CopyOf
  <2>4. ASSUME NEW k \in 1 .. h0.word[b], NEW x, x = h0.word[b + Header + k - 1]
        PROVE  IF h0.tag[b].ref /\ F[b] + Header + k - 1 < s + 1
               THEN x \in DOMAIN F \cup {GC_NULL} /\ g.word[F[b] + Header + k - 1] = Carried(F, x)
               ELSE g.word[F[b] + Header + k - 1] = x
    <3> DEFINE i == F[b] + Header + k - 1
    <3>1. i \in Addr /\ i \in Nat
      BY <2>1
    <3>2. IF h0.tag[b].ref /\ i < s
          THEN x \in DOMAIN F \cup {GC_NULL} /\ h.word[i] = Carried(F, x)
          ELSE h.word[i] = x
      BY <2>2, <2>4 DEF CopyOf
    <3>3. CASE i # s
      <4>1. i < s + 1 <=> i < s
        BY <3>1, <3>3, <1>4
      <4> HIDE DEF i
      <4>2. g.word[i] = h.word[i]
        BY <3>1, <3>3, <1>7
      <4> QED
        BY <3>2, <4>1, <4>2 DEF i
    <3>4. CASE i = s
      <4>1. b = a
        <5> SUFFICES ASSUME b # a PROVE FALSE
          OBVIOUS
        <5>1. F[b] # c
          BY <1>1, <1>11 DEF Evacuated
        <5>2. \/ F[b] < c /\ F[b] + ObjectWords(h, F[b]) <= c
              \/ c < F[b] /\ c + ObjectWords(h, c) <= F[b]
          BY <5>1, <2>1, <1>2, <1>3, ChunksApart
        <5>3. k \in Nat /\ k >= 1 /\ k <= h0.word[b] /\ ObjectWords(h, c) \in Nat
          BY <2>1, <1>2, <1>3, TiledWithin
        <5> QED
          BY <5>2, <5>3, <3>4, <2>1, <1>3, <1>4
      <4>2. ~(i < s) /\ i < s + 1
        BY <3>4, <1>4
      <4> HIDE DEF i
      <4>3. h.word[s] = x
        BY <3>2, <3>4, <4>2
      <4>4. x \in DOMAIN F \cup {GC_NULL} /\ g.word[i] = Carried(F, x)
        BY <3>4, <4>3, <1>7
      <4> QED
        BY <4>1, <4>2, <4>4, <1>12 DEF i
    <3> QED
      BY <3>3, <3>4
  <2> QED
    BY <2>3, <2>4 DEF CopyOf
<1>14. ScanAt(g, t, c, s + 1)
  <2>1. g.word[c] = h.word[c]
    BY <1>3, <1>4, <1>7, HeadersWithin
  <2>2. ObjectWords(g, c) = ObjectWords(h, c) /\ ObjectWords(h, c) \in Nat
    BY <2>1, <1>2, <1>3, TiledWithin DEF ObjectWords
  <2>3. s + 1 <= c + ObjectWords(g, c) /\ c # h.watermark
    BY <2>2, <1>2, <1>3, <1>4
  <2>4. s + 1 \in Nat /\ c + Header <= s + 1
    BY <1>3, <1>4
  <2> QED
    BY <2>3, <2>4, <1>3, <1>7, <1>8 DEF ScanAt
<1> QED
  BY <1>1, <1>10, <1>13, <1>14 DEF Evacuating

\* process_obj on the slot the scan is at.
LEMMA SlotProcessed ==
    ASSUME NEW h0, NEW rs0, NEW F, NEW rs, NEW f, NEW e, NEW t, NEW n, Apart(f, e, t, n),
           NEW r, NEW c, NEW s, Evacuating(h0, rs0, F, heap, rs, f, e, t, r, c, s),
           c < heap.watermark, s \in RefSlots(heap, c),
           NEW p, p = ProcessObj(heap.word[s]), NEW g, g = [p.heap EXCEPT !.word[s] = p.ref]
    PROVE  \E F2 : Evacuating(h0, rs0, F2, g, rs, f, e, t, r, c, s + 1)
<1>1. /\ Found(h0, rs0, f, e) /\ DOMAIN F \subseteq Live(h0, rs0)
      /\ Evacuated(h0, F, heap, f, e, t)
      /\ \A a \in DOMAIN F : CopyOf(h0, F, heap, a, s)
  BY DEF Evacuating
<1>2. /\ heap \in Heap /\ heap.watermark \in Nat /\ Tiled(heap, t, heap.watermark)
      /\ t \in Nat /\ heap.watermark <= HeapEnd
  <2>1. heap.watermark \in Nat /\ heap.watermark <= t + n
    BY <1>1, CopiesWithin
  <2> QED
    BY <1>1, <2>1, Numbers DEF Evacuated, Apart
<1>3. c \in Headers(heap, t, heap.watermark) /\ c \in Nat /\ c \in Addr /\ t <= c
  <2>1. c \in Headers(heap, t, heap.watermark) \cup {heap.watermark}
    BY DEF Evacuating, ScanAt
  <2> QED
    BY <2>1, <1>2, HeadersWithin
<1>4. /\ s \in Addr /\ s \in Nat /\ s < heap.watermark
      /\ s >= c + Header /\ s < c + ObjectWords(heap, c)
  BY <1>2, <1>3, SlotRange
<1>5. PICK a \in DOMAIN F : F[a] = c
  BY <1>1, <1>3 DEF Evacuated
<1>6. heap.tag[c].ref
  BY DEF RefSlots
<1>7. heap.word[s] \in Live(h0, rs0) \cup {GC_NULL}
  <2> DEFINE k == s - c - 1
  <2>1. ObjectWords(heap, c) = 2 + h0.word[a] /\ h0.word[a] \in Nat /\ a \in Nat
    BY <1>1, <1>5, CopyRange
  <2>2. k \in 1 .. h0.word[a] /\ c + Header + k - 1 = s
    BY <2>1, <1>3, <1>4
  <2>3. h0.tag[a].ref /\ CopyOf(h0, F, heap, a, s)
    BY <1>1, <1>5, <1>6 DEF CopyOf
  <2> HIDE DEF k
  <2>4. ~(c + Header + k - 1 < s)
    BY <2>2, <1>4
  <2>5. heap.word[s] = h0.word[a + Header + k - 1]
    BY <2>2, <2>3, <2>4, <1>5 DEF CopyOf
  <2>6. Readable(h0, Live(h0, rs0)) /\ a \in Live(h0, rs0)
    BY <1>1, WellFormedLive DEF Found
  <2> QED
    BY <2>2, <2>3, <2>5, <2>6, SlotsReached
<1>8. PICK F2 : /\ Evacuating(h0, rs0, F2, p.heap, rs, f, e, t, r, c, s)
                /\ SameCopies(heap, p.heap, t)
                /\ heap.word[s] \in DOMAIN F2 \cup {GC_NULL} /\ p.ref = Carried(F2, heap.word[s])
  BY <1>7, Processed
<1>9. p.heap.word[s] = heap.word[s] /\ p.heap.word[c] = heap.word[c] /\ p.heap.tag[c] = heap.tag[c]
  <2>1. t <= s /\ c < heap.watermark
    BY <1>2, <1>3, <1>4
  <2> QED
    BY <2>1, <1>3, <1>4, <1>8 DEF SameCopies
<1>10. c < p.heap.watermark
  <2>1. p.heap.watermark \in Nat /\ heap.watermark <= p.heap.watermark
    BY <1>8, CopiesWithin DEF Evacuating, SameCopies
  <2> QED
    BY <2>1, <1>2, <1>3
<1>11. s \in RefSlots(p.heap, c)
  BY <1>9 DEF RefSlots
<1> QED
  BY <1>8, <1>9, <1>10, <1>11, SlotRewritten

\* The scan goes on to the next copy.
LEMMA CopyScanned ==
    ASSUME NEW h0, NEW rs0, NEW F, NEW h, NEW rs, NEW f, NEW e, NEW t, NEW n, Apart(f, e, t, n),
           NEW r, NEW c, NEW s, Evacuating(h0, rs0, F, h, rs, f, e, t, r, c, s),
           c < h.watermark, s \notin RefSlots(h, c), NEW d, d = c + ObjectWords(h, c)
    PROVE  Evacuating(h0, rs0, F, h, rs, f, e, t, r, d, d + Header)
<1>1. /\ Found(h0, rs0, f, e) /\ DOMAIN F \subseteq Live(h0, rs0) /\ Evacuated(h0, F, h, f, e, t)
      /\ \A a \in DOMAIN F : CopyOf(h0, F, h, a, s)
      /\ RootsTo(rs0, F, rs, r) /\ ScanAt(h, t, c, s)
  BY DEF Evacuating
<1>2. h \in Heap /\ h.watermark \in Nat /\ Tiled(h, t, h.watermark) /\ t \in Nat
  <2>1. h.watermark \in Nat
    BY <1>1, CopiesWithin
  <2> QED
    BY <1>1, <2>1 DEF Evacuated, Apart
<1>3. c \in Headers(h, t, h.watermark) /\ c \in Nat
  <2>1. c \in Headers(h, t, h.watermark) \cup {h.watermark}
    BY <1>1 DEF ScanAt
  <2> QED
    BY <2>1, <1>2, HeadersWithin
<1>4. d \in Headers(h, t, h.watermark) \cup {h.watermark}
  BY <1>3 DEF Tiled, Evacuated, Evacuating
<1>5. /\ ObjectWords(h, c) \in Nat /\ ObjectWords(h, c) >= 2 /\ d \in Nat /\ d <= h.watermark
      /\ ObjectWords(h, c) = 2 + h.word[c] /\ h.word[c] \in Nat
  BY <1>2, <1>3, TiledWithin, WordTypes
<1>6. s \in Nat /\ c + Header <= s /\ s <= d
  BY <1>1, <1>2, <1>3 DEF ScanAt
<1>7. ASSUME NEW a \in DOMAIN F
      PROVE  CopyOf(h0, F, h, a, d + Header)
  <2>1. /\ h0.word[a] \in Nat /\ F[a] \in Nat
        /\ F[a] \in Headers(h, t, h.watermark) /\ ObjectWords(h, F[a]) = 2 + h0.word[a]
    BY <1>1, CopyRange
  <2>2. CopyOf(h0, F, h, a, s)
    BY <1>1
  <2>3. ASSUME NEW k \in 1 .. h0.word[a], h0.tag[a].ref
        PROVE  F[a] + Header + k - 1 < d + Header <=> F[a] + Header + k - 1 < s
    <3>1. k \in Nat /\ k >= 1 /\ k <= h0.word[a]
      BY <2>1
    <3>2. CASE F[a] = c
      <4>1. RefSlots(h, c) = (c + Header) .. (c + Header + h.word[c] - 1)
        BY <2>2, <2>3, <3>2 DEF CopyOf, RefSlots
      <4>2. s = d
        BY <4>1, <1>3, <1>5, <1>6
      <4> QED
        BY <3>1, <3>2, <4>2, <2>1, <1>5
    <3>3. CASE F[a] # c
      <4>1. \/ F[a] < c /\ F[a] + ObjectWords(h, F[a]) <= c
            \/ c < F[a] /\ c + ObjectWords(h, c) <= F[a]
        BY <3>3, <2>1, <1>2, <1>3, ChunksApart
      <4> QED
        BY <4>1, <3>1, <2>1, <1>3, <1>5, <1>6
    <3> QED
      BY <3>2, <3>3
  <2> QED
    BY <2>2, <2>3 DEF CopyOf
<1>8. ScanAt(h, t, d, d + Header)
  <2>1. d # h.watermark => d + Header <= d + ObjectWords(h, d)
    BY <1>2, <1>4, TiledWithin
  <2> QED
    BY <2>1, <1>4, <1>5 DEF ScanAt
<1> QED
  BY <1>1, <1>7, <1>8 DEF Evacuating

\* When the scan meets the watermark every array the program reaches is copied, and the
\* new to-space holds the copies alone.
LEMMA EvacuationEnds ==
    ASSUME NEW h0, NEW rs0, NEW F, NEW h, NEW rs, NEW f, NEW e, NEW t, NEW n, Apart(f, e, t, n),
           NEW r, NEW c, NEW s, Evacuating(h0, rs0, F, h, rs, f, e, t, r, c, s),
           \A i \in RootSlots : i < r, ~(c < h.watermark),
           NEW g, g = Vacate(h, f, f + n)
    PROVE  /\ WellFormed(g, rs, t, g.watermark) /\ NoForwards(g) /\ g.watermark = h.watermark
           /\ Headers(g, t, g.watermark) = Live(g, rs)
           /\ ViewOf(g, rs) = ViewOf(h0, rs0) /\ Distinct(g, Live(g, rs))
<1> DEFINE D == DOMAIN F
           L == Live(h0, rs0)
           w == h.watermark
<1>1. /\ Found(h0, rs0, f, e) /\ D \subseteq L /\ Evacuated(h0, F, h, f, e, t)
      /\ \A a \in D : CopyOf(h0, F, h, a, s)
      /\ RootsTo(rs0, F, rs, r) /\ ScanAt(h, t, c, s)
  BY DEF Evacuating
<1>2. /\ w \in Nat /\ w <= t + n /\ h0 \in Heap
      /\ \A a \in L : /\ a \in Addr /\ a \in Nat /\ f <= a /\ a < e /\ ~h0.tag[a].free
                      /\ h0.word[a] \in Nat
  BY <1>1, CopiesWithin
<1>3. /\ h \in Heap /\ Tiled(h, t, w) /\ t <= w /\ Headers(h, t, w) = {F[a] : a \in D}
      /\ \A x \in Addr : h.tag[x].fwd => x \in D
  BY <1>1 DEF Evacuated
<1>4. /\ t \in Nat /\ n \in Nat /\ f \in Nat /\ e \in Nat /\ e <= f + n /\ f + n \in Nat
      /\ f + n <= t \/ t + n <= f
      /\ t + n <= HeapEnd
  BY DEF Apart
<1>5. ASSUME NEW a \in D
      PROVE  /\ a \in Addr /\ a \in Nat /\ h0.word[a] \in Nat /\ a + Header + h0.word[a] <= e
             /\ F[a] \in Addr /\ F[a] \in Nat /\ t <= F[a] /\ F[a] # GC_NULL
             /\ F[a] \in Headers(h, t, w) /\ F[a] + 2 + h0.word[a] <= w /\ F[a] < w
             /\ \A k \in 1 .. h0.word[a] :
                   /\ F[a] + Header + k - 1 \in Addr /\ F[a] + Header + k - 1 \in Nat
                   /\ t <= F[a] + Header + k - 1 /\ F[a] + Header + k - 1 < w
  <2>1. /\ a \in Addr /\ a \in Nat /\ h0.word[a] \in Nat /\ a + Header + h0.word[a] <= e
        /\ F[a] \in Addr /\ F[a] \in Nat /\ t <= F[a] /\ F[a] # GC_NULL
        /\ F[a] \in Headers(h, t, h.watermark)
        /\ ObjectWords(h, F[a]) = 2 + h0.word[a]
        /\ F[a] + ObjectWords(h, F[a]) <= h.watermark
        /\ \A k \in 1 .. h0.word[a] :
              /\ F[a] + Header + k - 1 \in Addr /\ F[a] + Header + k - 1 \in Nat
              /\ t <= F[a] + Header + k - 1 /\ F[a] + Header + k - 1 < h.watermark
    BY <1>1, CopyRange
  <2>2. F[a] + 2 + h0.word[a] <= w
    BY <2>1
  <2>3. F[a] < w
    BY <2>1, <2>2, <1>2
  <2> QED
    BY <2>1, <2>2, <2>3
<1>6. w < s
  <2>1. c = w /\ s = c + Header
    <3>1. c \in Headers(h, t, w) \cup {w}
      BY <1>1 DEF ScanAt
    <3>2. c = w
      BY <3>1, <1>2, HeadersWithin
    <3> QED
      BY <3>2, <1>1 DEF ScanAt
  <2> QED
    BY <2>1, <1>2
<1>7. s \in Nat
  BY <1>1 DEF ScanAt
<1> HIDE DEF D, L, w
<1>8. ASSUME NEW a \in D
      PROVE  /\ h.word[F[a]] = h0.word[a] /\ h.tag[F[a]] = h0.tag[a]
             /\ \A k \in 1 .. h0.word[a] :
                   IF h0.tag[a].ref
                   THEN /\ h0.word[a + Header + k - 1] \in D \cup {GC_NULL}
                        /\ h.word[F[a] + Header + k - 1] = Carried(F, h0.word[a + Header + k - 1])
                   ELSE h.word[F[a] + Header + k - 1] = h0.word[a + Header + k - 1]
  <2>1. CopyOf(h0, F, h, a, s)
    BY <1>1
  <2>2. \A k \in 1 .. h0.word[a] : F[a] + Header + k - 1 < s
    BY <1>2, <1>5, <1>6, <1>7
  <2> QED
    BY <2>1, <2>2 DEF CopyOf, D
<1>9. D = L
  <2>1. \A i \in RootSlots : rs0[i] \in D \cup {GC_NULL}
    BY <1>1 DEF RootsTo, D
  <2>2. ASSUME NEW a \in D, NEW x \in RefSlots(h0, a)
        PROVE  h0.word[x] \in D \cup {GC_NULL}
    <3> DEFINE k == x - a - 1
    <3>1. h0.tag[a].ref /\ x \in (a + Header) .. (a + Header + h0.word[a] - 1)
      BY <2>2 DEF RefSlots
    <3>2. k \in 1 .. h0.word[a] /\ a + Header + k - 1 = x
      BY <3>1, <1>5
    <3> HIDE DEF k
    <3> QED
      BY <3>1, <3>2, <1>8
  <2>3. D \subseteq Addr
    BY <1>5
  <2>4. Live(h0, rs0) \subseteq D
    BY <2>1, <2>2, <2>3, LiveWithin
  <2> QED
    BY <2>4, <1>1 DEF L
<1>10. /\ g \in Heap /\ g.watermark = w
       /\ \A x \in Addr : f <= x /\ x < f + n => g.tag[x] = NoTag
       /\ Untouched(h, g, f, f + n)
  <2> DEFINE m == f + n
  <2>1. h \in Heap /\ f \in Nat /\ m \in Nat /\ g = Vacate(h, f, m)
    BY <1>3, <1>4
  <2> HIDE DEF m
  <2>2. /\ g \in Heap /\ g.watermark = h.watermark
        /\ \A x \in Addr : f <= x /\ x < m => g.word[x] = Stale /\ g.tag[x] = NoTag
        /\ Untouched(h, g, f, m)
    BY ONLY <2>1, VacateEffect
  <2> QED
    BY <2>2 DEF w, m
<1>11. ASSUME NEW x \in Addr, t <= x, x < w
       PROVE  g.word[x] = h.word[x] /\ g.tag[x] = h.tag[x]
  <2>1. x < f \/ x >= f + n
    BY <1>2, <1>4, <1>11, Numbers
  <2> QED
    BY <2>1, <1>10 DEF Untouched
<1>12. Headers(g, t, w) = {F[a] : a \in D} /\ Tiled(g, t, w)
  <2>1. w <= f \/ t >= f + n
    BY <1>2, <1>4
  <2>2. Headers(g, t, w) = Headers(h, t, w) /\ (Tiled(h, t, w) => Tiled(g, t, w))
    BY <2>1, <1>2, <1>4, <1>10, TiledAside
  <2> QED
    BY <2>2, <1>3
<1>13. NoForwards(g)
  <2> SUFFICES ASSUME NEW x \in Addr, g.tag[x].fwd PROVE FALSE
    BY DEF NoForwards
  <2>1. ~(f <= x /\ x < f + n)
    BY <1>10 DEF NoTag
  <2>2. x \in Nat
    BY Numbers
  <2>3. g.tag[x] = h.tag[x]
    BY <2>1, <2>2, <1>4, <1>10 DEF Untouched
  <2>4. x \in L
    BY <2>3, <1>1, <1>3
  <2> QED
    BY <2>1, <2>2, <2>4, <1>2, <1>4
<1>14. ASSUME NEW a \in D
       PROVE  /\ g.word[F[a]] = h0.word[a] /\ g.tag[F[a]] = h0.tag[a]
              /\ \A k \in 1 .. h0.word[a] :
                    g.word[F[a] + Header + k - 1] =
                       IF h0.tag[a].ref THEN Carried(F, h0.word[a + Header + k - 1])
                                        ELSE h0.word[a + Header + k - 1]
  <2>1. g.word[F[a]] = h.word[F[a]] /\ g.tag[F[a]] = h.tag[F[a]]
    BY <1>5, <1>11
  <2>2. \A k \in 1 .. h0.word[a] : g.word[F[a] + Header + k - 1] = h.word[F[a] + Header + k - 1]
    BY <1>5, <1>11
  <2> QED
    BY <2>1, <2>2, <1>8
<1>15. Carries(h0, g, F, L)
  <2>1. ASSUME NEW a \in D
        PROVE  F[a] \in Addr \ {GC_NULL} /\ F[a] + Header + h0.word[a] <= HeapEnd
    BY <1>2, <1>4, <1>5, Numbers
  <2>2. \A a \in D : SameArray(h0, g, F, a)
    BY <1>14 DEF SameArray
  <2> QED
    BY <2>1, <2>2, <1>9 DEF Carries
<1>16. /\ rs0 \in [RootSlots -> Addr] /\ Readable(h0, L) /\ Distinct(h0, L)
  BY <1>1, WellFormedLive DEF Found, L
<1>17. /\ rs = [i \in RootSlots |-> Carried(F, rs0[i])] /\ rs \in [RootSlots -> Addr]
       /\ \A i \in RootSlots : rs0[i] \in D \cup {GC_NULL}
  BY <1>1 DEF RootsTo, D
<1>18. Live(g, rs) = {F[a] : a \in L}
  BY <1>15, <1>16, <1>17, CarriedLive DEF L
<1>19. ViewOf(g, rs) = ViewOf(h0, rs0) /\ Distinct(g, Live(g, rs))
  BY <1>15, <1>16, <1>17, CarriedView DEF L
<1>20. WellFormed(g, rs, t, w)
  <2>1. Allocated(g, t, w) = {F[a] : a \in D}
    <3>1. \A a \in D : ~g.tag[F[a]].free
      BY <1>1, <1>2, <1>14
    <3> QED
      BY <3>1, <1>12 DEF Allocated
  <2>2. \A x \in D \cup {GC_NULL} : Carried(F, x) \in {F[a] : a \in D} \cup {GC_NULL}
    BY DEF Carried
  <2>3. rs \in [RootSlots -> Allocated(g, t, w) \cup {GC_NULL}]
    BY <2>1, <2>2, <1>17
  <2>4. ASSUME NEW a \in D, NEW x \in RefSlots(g, F[a])
        PROVE  g.word[x] \in Allocated(g, t, w) \cup {GC_NULL}
    <3> DEFINE k == x - F[a] - 1
    <3>1. h0.tag[a].ref /\ x \in (F[a] + Header) .. (F[a] + Header + h0.word[a] - 1)
      BY <2>4, <1>14 DEF RefSlots
    <3>2. k \in 1 .. h0.word[a] /\ F[a] + Header + k - 1 = x
      BY <3>1, <1>5
    <3> HIDE DEF k
    <3>3. /\ g.word[x] = Carried(F, h0.word[a + Header + k - 1])
          /\ h0.word[a + Header + k - 1] \in D \cup {GC_NULL}
      BY <3>1, <3>2, <1>8, <1>14
    <3> QED
      BY <3>3, <2>1, <2>2
  <2>5. w <= HeapEnd
    BY <1>2, <1>4, Numbers
  <2> QED
    BY <2>1, <2>3, <2>4, <2>5, <1>2, <1>3, <1>4, <1>10, <1>12 DEF WellFormed
<1> QED
  BY <1>9, <1>10, <1>12, <1>13, <1>18, <1>19, <1>20 DEF w
-----------------------------------------------------------------------------
(* The inductive invariant.                                                 *)

\* The semispaces at f and t are the two halves of the heap, of n words each.
Halves(f, t, p, n) ==
    /\ n \in Nat /\ Base + n + n <= HeapEnd
    /\ (t = Base /\ f = Base + n) \/ (f = Base /\ t = Base + n)
    /\ p = t + n

LEMMA HalvesWithin ==
    ASSUME NEW f, NEW t, NEW p, NEW n, Halves(f, t, p, n)
    PROVE  /\ f \in Nat /\ t \in Nat /\ p \in Nat /\ n \in Nat
           /\ Base <= f /\ Base <= t /\ p = t + n /\ p <= HeapEnd /\ f + n <= HeapEnd
           /\ f + n <= t \/ t + n <= f
           /\ f < W /\ t < W /\ p < W /\ n < W
           /\ Halves(t, f, f + n, n)
  BY Numbers DEF Halves

\* The two semispaces of the collector.
LaidOut == Halves(from_space, to_space, top, extent)

\* Between collections nothing is forwarded, and to-space holds the arrays.
AtRest ==
    /\ WellFormed(heap, roots, Bottom, heap.watermark) /\ NoForwards(heap) /\ Seen
    /\ to_space # 0 => heap.watermark <= top

\* The heap h0 and roots rs0 that the program last saw, and the copies F made so far.
Tracing(h0, rs0, F) ==
    /\ Apart(from_space, old_watermark, to_space, extent)
    /\ Evacuating(h0, rs0, F, heap, roots, from_space, old_watermark, to_space, root, scan, slot)
    /\ view = ViewOf(h0, rs0)

\* Where the words counted by gc_stats are.
Accounts ==
    /\ pc = "trace" => (CountBytes => net = old_watermark - from_space)
    /\ pc = "return" => /\ out.live = heap.watermark - to_space
                        /\ out.free = top - heap.watermark
                        /\ CountBytes => net = out.live + out.freed
    /\ pc \notin {"trace", "return"} => (CountBytes => net = heap.watermark - Bottom)

IInv ==
    /\ pc \in {"run", "collect", "trace", "return", "retry", "oom"}
    /\ req \in Request /\ out \in Outs /\ net \in Int
    /\ root \in 1 .. NRoots + 1
    /\ pc # "trace" => old_watermark = 0 /\ scan = 0 /\ slot = 0
    /\ IF to_space = 0
       THEN from_space = 0 /\ top = 0 /\ extent = 0 /\ pc = "run" /\ heap.watermark = Base
       ELSE LaidOut
    /\ IF pc = "trace" THEN \E h0, rs0, F : Tracing(h0, rs0, F) ELSE AtRest
    /\ pc \in {"return", "retry"} => Headers(heap, to_space, heap.watermark) = LiveRefs
    /\ Accounts

LEMMA InitIInv == Init => IInv
<1> SUFFICES ASSUME Init PROVE IInv
  OBVIOUS
<1>1. /\ WellFormed(heap, roots, Base, Base) /\ heap.watermark = Base
      /\ \A a \in Addr : heap.tag[a] = NoTag
      /\ pc = "run" /\ req \in Request /\ out \in Outs /\ net \in Int /\ net = 0
  BY InitHeap DEF Init, MutatorInit
<1>2. Seen
  BY InitSeen DEF Init
<1>3. NoForwards(heap)
  BY <1>1 DEF NoForwards, NoTag
<1>4. /\ to_space = 0 /\ from_space = 0 /\ top = 0 /\ extent = 0
      /\ old_watermark = 0 /\ root = 1 /\ scan = 0 /\ slot = 0 /\ root \in 1 .. NRoots + 1
  BY MutatorAssumption DEF Init, MutatorAssumption
<1>5. Bottom = Base
  BY <1>4 DEF Bottom
<1> QED
  BY <1>1, <1>2, <1>3, <1>4, <1>5 DEF IInv, AtRest, Accounts

\* The heap between collections.
LEMMA AtRestHeap ==
    ASSUME IInv, pc # "trace"
    PROVE  /\ WellFormed(heap, roots, Bottom, heap.watermark) /\ NoForwards(heap) /\ Seen
           /\ heap \in Heap /\ heap.watermark \in Nat /\ Bottom \in Nat
           /\ Base <= Bottom /\ Bottom <= heap.watermark /\ heap.watermark <= HeapEnd
<1>1. WellFormed(heap, roots, Bottom, heap.watermark) /\ NoForwards(heap) /\ Seen
  BY DEF IInv, AtRest
<1>2. Base <= Bottom
  BY HalvesWithin DEF IInv, LaidOut, Bottom
<1> QED
  BY <1>1, <1>2 DEF WellFormed

\* A remainder in 32 bits: no larger than the sum, and the sum unless it wraps.
LEMMA Remainder ==
    ASSUME NEW x \in Nat
    PROVE  x % W \in Nat /\ x % W <= x /\ (x < W => x % W = x)
  BY Numbers

\* cheney_alloc: the array is bump-allocated below the top of to-space, or the heap stays.
LEMMA AllocEffect ==
    ASSUME IInv, pc # "trace", LayOut, NEW length \in Nat, NEW ref \in BOOLEAN, NEW id \in FreshIds,
           NEW a, a = Alloc(length, ref, id)
    PROVE  /\ to_space' # 0 /\ LaidOut' /\ Bottom' = Bottom /\ heap.watermark <= top'
           /\ to_space # 0 => UNCHANGED spaceVars
           /\ \/ /\ a.ref = SENTINEL /\ a.heap = heap
                 /\ heap.watermark + Header + length > top'
              \/ /\ a.ref # SENTINEL /\ a = RawAlloc(heap, length, ref, id)
                 /\ heap.watermark + Header + length <= top'
<1>0. /\ HeapEnd \in Nat /\ W \in Nat /\ HeapEnd > 4 /\ HeapEnd < W - 2 /\ heap.watermark \in Nat
      /\ heap.watermark <= HeapEnd /\ heap \in Heap /\ Base <= heap.watermark
      /\ WellFormed(heap, roots, Bottom, heap.watermark)
  BY AtRestHeap, Numbers
<1>1. to_space' # 0 /\ LaidOut' /\ Bottom' = Bottom /\ heap.watermark <= top'
  <2>1. CASE to_space = 0
    <3> DEFINE half == (HeapEnd - Base) \div 2
    <3>1. half \in Nat /\ Base + half + half <= HeapEnd
      BY <1>0
    <3>2. /\ to_space' = Base /\ extent' = half /\ top' = Base + half
          /\ from_space' = Base + half
      BY <2>1 DEF LayOut
    <3> HIDE DEF half
    <3>3. heap.watermark = Base
      BY <2>1 DEF IInv
    <3> QED
      BY <2>1, <3>1, <3>2, <3>3 DEF LaidOut, Halves, Bottom
  <2>2. CASE to_space # 0
    <3>1. UNCHANGED <<from_space, to_space, top, extent>>
      BY <2>2 DEF LayOut, spaceVars
    <3>2. LaidOut /\ heap.watermark <= top
      BY <2>2 DEF IInv, AtRest
    <3> QED
      BY <2>2, <3>1, <3>2 DEF LaidOut, Bottom
  <2> QED
    BY <2>1, <2>2
<1>2. to_space # 0 => UNCHANGED spaceVars
  BY DEF LayOut
<1>3. top' \in Nat /\ top' <= HeapEnd
  BY <1>1, HalvesWithin DEF LaidOut
<1> DEFINE sum == length + Header + heap.watermark
<1>4. sum \in Nat /\ sum = heap.watermark + Header + length
  BY <1>0
<1>5. sum % W \in Nat /\ sum % W <= sum /\ (sum < W => sum % W = sum)
  BY <1>4, Remainder
<1>6. a = IF sum % W > top' THEN [ref |-> SENTINEL, heap |-> heap]
                            ELSE RawAlloc(heap, length, ref, id)
  BY DEF Alloc, Exceeds
<1>7. \/ RawAlloc(heap, length, ref, id).ref = SENTINEL /\ ~Fits(heap, length)
      \/ RawAlloc(heap, length, ref, id).ref # SENTINEL /\ Fits(heap, length)
  <2>1. heap.watermark \in Addr => heap.watermark # SENTINEL
    BY Numbers
  <2>2. Fits(heap, length) => heap.watermark \in Addr
    BY <1>0 DEF Fits, Addr
  <2> QED
    BY <2>1, <2>2 DEF RawAlloc
<1>8. Fits(heap, length) <=> sum <= HeapEnd
  BY <1>4 DEF Fits
<1> HIDE DEF sum
<1>9. CASE sum % W > top'
  BY <1>1, <1>2, <1>3, <1>4, <1>5, <1>6, <1>9
<1>10. CASE ~(sum % W > top') /\ ~Fits(heap, length)
  <2>1. RawAlloc(heap, length, ref, id).ref = SENTINEL
    BY <1>7, <1>10
  <2>2. RawAlloc(heap, length, ref, id).heap = heap
    BY <1>0, <2>1, BumpFails
  <2>3. sum > top'
    BY <1>0, <1>3, <1>4, <1>8, <1>10
  <2> QED
    BY <1>1, <1>2, <1>4, <1>6, <1>10, <2>1, <2>2, <2>3
<1>11. CASE ~(sum % W > top') /\ Fits(heap, length)
  <2>1. sum % W = sum
    BY <1>0, <1>4, <1>5, <1>8, <1>11
  <2>2. sum <= top'
    BY <2>1, <1>3, <1>4, <1>11
  <2>3. a = RawAlloc(heap, length, ref, id) /\ a.ref # SENTINEL
    BY <1>6, <1>7, <1>11
  <2> QED
    BY <1>1, <1>2, <1>4, <2>2, <2>3
<1> QED
  BY <1>9, <1>10, <1>11

\* What is bump-allocated and pushed leaves the heap at rest.
LEMMA BumpRests ==
    ASSUME IInv, pc # "trace", LayOut, NEW length \in Nat, NEW ref \in BOOLEAN, NEW id \in FreshIds,
           NEW a, a = Alloc(length, ref, id), a.ref # SENTINEL, NEW r, Push(r, a), heap' = a.heap
    PROVE  /\ AtRest' /\ LaidOut' /\ to_space' # 0 /\ net' \in Int
           /\ CountBytes /\ net = heap.watermark - Bottom => net' = heap'.watermark - Bottom'
<1>0. /\ WellFormed(heap, roots, Bottom, heap.watermark) /\ NoForwards(heap) /\ Seen
      /\ heap \in Heap /\ heap.watermark \in Nat /\ Bottom \in Nat
      /\ Base <= heap.watermark /\ heap.watermark <= HeapEnd /\ net \in Int
  BY AtRestHeap DEF IInv
<1>1. /\ to_space' # 0 /\ LaidOut' /\ Bottom' = Bottom
      /\ a = RawAlloc(heap, length, ref, id)
      /\ heap.watermark + Header + length <= top'
  BY AllocEffect
<1>2. id \in Ids \cup {NoId}
  BY DEF FreshIds
<1>3. /\ WellFormed(a.heap, roots, Bottom, a.heap.watermark)
      /\ a.ref \in Allocated(a.heap, Bottom, a.heap.watermark)
      /\ a.heap.watermark = heap.watermark + Header + length
  <2> DEFINE start == Bottom
  <2>1. /\ WellFormed(heap, roots, start, heap.watermark) /\ Base <= heap.watermark
        /\ length \in Nat /\ ref \in BOOLEAN /\ id \in Ids \cup {NoId}
        /\ a = RawAlloc(heap, length, ref, id) /\ a.ref # SENTINEL
    BY <1>0, <1>1, <1>2
  <2> HIDE DEF start
  <2>2. /\ WellFormed(a.heap, roots, start, a.heap.watermark)
        /\ a.ref \in Allocated(a.heap, start, a.heap.watermark)
        /\ a.heap.watermark = heap.watermark + Header + length
    BY ONLY <2>1, AppendKeeps
  <2> QED
    BY <2>2 DEF start
<1>4. WellFormed(a.heap, roots', Bottom, a.heap.watermark) /\ net' \in Int
  BY <1>0, <1>3, PushEffect
<1>5. Seen'
  BY <1>0, <1>1, BumpSees
<1>6. /\ a.ref = heap.watermark /\ a.ref \in Addr
      /\ a.heap.word[a.ref] = length /\ a.heap.tag[a.ref] = ArrayTag(ref, id)
      /\ a.heap.watermark = a.ref + Header + length
      /\ \A x \in Addr : x > a.ref /\ x < a.heap.watermark =>
            a.heap.word[x] = 0 /\ a.heap.tag[x] = NoTag
      /\ \A x \in Addr : x < a.ref \/ x >= a.heap.watermark =>
            a.heap.word[x] = heap.word[x] /\ a.heap.tag[x] = heap.tag[x]
  <2>1. heap.watermark \in Base .. HeapEnd
    BY <1>0, Numbers
  <2> QED
    BY <2>1, <1>0, <1>1, <1>2, BumpEffect
<1>7. NoForwards(a.heap)
  <2> SUFFICES ASSUME NEW x \in Addr PROVE ~a.heap.tag[x].fwd
    BY DEF NoForwards
  <2>1. x = a.ref \/ (x > a.ref /\ x < a.heap.watermark) \/ x < a.ref \/ x >= a.heap.watermark
    BY <1>0, <1>6, Numbers
  <2> QED
    BY <2>1, <1>0, <1>6 DEF NoForwards, ArrayTag, NoTag
<1>8. AtRest'
  BY <1>1, <1>3, <1>4, <1>5, <1>7 DEF AtRest
<1>9. CountBytes => net' = net + Header + length
  BY <1>0, <1>6 DEF Push, ObjectWords
<1> QED
  BY <1>0, <1>1, <1>3, <1>4, <1>8, <1>9

\* A step that leaves the program and the heap alone leaves them at rest.
LEMMA StaysAtRest ==
    ASSUME AtRest, UNCHANGED <<heap, roots, view>>, Bottom' = Bottom,
           to_space' # 0 => heap.watermark <= top'
    PROVE  AtRest'
  BY DEF AtRest, Seen

LEMMA NewArrayIInv ==
    ASSUME IInv, NEW r \in RootSlots, NEW length \in Lengths, NEW ref \in Kinds,
           NEW id \in FreshIds, NewArray(r, length, ref, id)
    PROVE  IInv'
<1> DEFINE a == Alloc(length, ref, id)
<1>1. /\ length \in Nat /\ ref \in BOOLEAN /\ LayOut /\ pc = "run" /\ heap' = a.heap
      /\ UNCHANGED <<old_watermark, root, scan, slot>>
  BY AskedTypes DEF NewArray, AllocFirst, traceVars
<1>2. /\ to_space' # 0 /\ LaidOut' /\ Bottom' = Bottom /\ heap.watermark <= top'
      /\ a.ref = SENTINEL => a.heap = heap
  BY <1>1, AllocEffect
<1>3. /\ out \in Outs /\ net \in Int /\ root \in 1 .. NRoots + 1 /\ req \in Request
      /\ old_watermark = 0 /\ scan = 0 /\ slot = 0
      /\ AtRest /\ (CountBytes => net = heap.watermark - Bottom)
  BY <1>1 DEF IInv, Accounts
<1>4. CASE a.ref = SENTINEL
  <2>1. /\ req' = [slot |-> r, length |-> length, ref |-> ref]
        /\ out' = ZeroOut /\ pc' = "collect" /\ UNCHANGED <<roots, net, view>>
    BY <1>4 DEF NewArray, AllocFirst, Stop
  <2>2. req' \in Request /\ out' \in Outs
    BY <1>1, <2>1 DEF Request, ZeroOut, Outs
  <2> HIDE DEF a
  <2>3. heap' = heap
    BY <1>1, <1>2, <1>4
  <2>4. AtRest'
    BY <1>2, <1>3, <2>1, <2>3, StaysAtRest
  <2> QED
    BY <1>1, <1>2, <1>3, <2>1, <2>2, <2>3, <2>4 DEF IInv, Accounts
<1>5. CASE a.ref # SENTINEL
  <2>1. Push(r, a) /\ UNCHANGED <<pc, req, out>>
    BY <1>5 DEF NewArray, AllocFirst
  <2>2. /\ AtRest' /\ net' \in Int
        /\ CountBytes => net' = heap'.watermark - Bottom'
    BY <1>1, <1>3, <1>5, <2>1, BumpRests
  <2> HIDE DEF a
  <2> QED
    BY <1>1, <1>2, <1>3, <2>1, <2>2 DEF IInv, Accounts
<1> QED
  BY <1>4, <1>5

LEMMA RetryIInv ==
    ASSUME IInv, NEW id \in FreshIds, Retry(id)
    PROVE  IInv'
<1> DEFINE a == Alloc(req.length, req.ref, id)
<1>1. /\ LayOut /\ pc = "retry" /\ heap' = a.heap /\ req' = NoReq /\ UNCHANGED out
      /\ UNCHANGED <<old_watermark, root, scan, slot>>
  BY DEF Retry, AllocRetry, traceVars
<1>2. req.length \in Nat /\ req.ref \in BOOLEAN
  BY AskedTypes DEF IInv
<1>3. /\ to_space' # 0 /\ LaidOut' /\ Bottom' = Bottom /\ heap.watermark <= top'
      /\ a.ref = SENTINEL => a.heap = heap
  BY <1>1, <1>2, AllocEffect
<1>4. /\ out \in Outs /\ net \in Int /\ root \in 1 .. NRoots + 1
      /\ old_watermark = 0 /\ scan = 0 /\ slot = 0
      /\ AtRest /\ (CountBytes => net = heap.watermark - Bottom)
  BY <1>1 DEF IInv, Accounts
<1>5. req' \in Request
  BY <1>1 DEF Request
<1>6. CASE a.ref = SENTINEL
  <2>1. pc' = "oom" /\ UNCHANGED <<roots, net, view>>
    BY <1>6 DEF Retry, AllocRetry
  <2> HIDE DEF a
  <2>2. heap' = heap
    BY <1>1, <1>3, <1>6
  <2>3. AtRest'
    BY <1>3, <1>4, <2>1, <2>2, StaysAtRest
  <2> QED
    BY <1>1, <1>3, <1>4, <1>5, <2>1, <2>2, <2>3 DEF IInv, Accounts
<1>7. CASE a.ref # SENTINEL
  <2>1. pc' = "run" /\ Push(req.slot, a)
    BY <1>7 DEF Retry, AllocRetry
  <2>2. /\ AtRest' /\ net' \in Int
        /\ CountBytes => net' = heap'.watermark - Bottom'
    BY <1>1, <1>2, <1>4, <1>7, <2>1, BumpRests
  <2> HIDE DEF a
  <2> QED
    BY <1>1, <1>3, <1>4, <1>5, <2>1, <2>2 DEF IInv, Accounts
<1> QED
  BY <1>6, <1>7

\* The flip: from here on the heap as it was is held as h0.
LEMMA CollectIInv == IInv /\ Collect => IInv'
<1> SUFFICES ASSUME IInv, Collect PROVE IInv'
  OBVIOUS
<1>1. /\ pc = "collect" /\ pc' = "trace" /\ from_space' = to_space /\ to_space' = from_space
      /\ top' = from_space + extent /\ heap' = SetWatermark(heap, from_space)
      /\ old_watermark' = heap.watermark /\ scan' = from_space /\ slot' = from_space + Header
      /\ root' = 1 /\ UNCHANGED <<roots, req, out, net, view, extent>>
  BY DEF Collect, NewTop
<1>2. /\ to_space # 0 /\ LaidOut /\ heap.watermark <= top /\ Bottom = to_space
      /\ req \in Request /\ out \in Outs /\ net \in Int
      /\ CountBytes => net = heap.watermark - to_space
  BY <1>1 DEF IInv, AtRest, Accounts, Bottom
<1>3. /\ WellFormed(heap, roots, to_space, heap.watermark) /\ NoForwards(heap) /\ Seen
      /\ heap.watermark \in Nat /\ to_space <= heap.watermark
  BY <1>1, <1>2, AtRestHeap
<1>4. /\ from_space \in Nat /\ to_space \in Nat /\ extent \in Nat /\ top = to_space + extent
      /\ Base <= from_space /\ Base <= to_space /\ top <= HeapEnd /\ from_space + extent <= HeapEnd
      /\ from_space + extent <= to_space \/ to_space + extent <= from_space
      /\ Halves(to_space, from_space, from_space + extent, extent)
  BY <1>2, HalvesWithin DEF LaidOut
<1>5. LaidOut' /\ to_space' # 0
  BY <1>1, <1>4 DEF LaidOut
<1>6. Apart(to_space, heap.watermark, from_space, extent)
  BY <1>2, <1>3, <1>4 DEF Apart
<1>7. Found(heap, roots, to_space, heap.watermark)
  BY <1>3 DEF Found, Seen
<1>8. \E F : Evacuating(heap, roots, F, heap', roots, to_space, heap.watermark, from_space,
                        1, from_space, from_space + Header)
  BY <1>1, <1>6, <1>7, FlipBegins
<1>9. view = ViewOf(heap, roots)
  BY <1>3 DEF Seen
<1>10. PICK F : Evacuating(heap, roots, F, heap', roots, to_space, heap.watermark, from_space,
                           1, from_space, from_space + Header)
  BY <1>8
<1>11. /\ Apart(from_space', old_watermark', to_space', extent')
       /\ Evacuating(heap, roots, F, heap', roots', from_space', old_watermark', to_space',
                     root', scan', slot')
       /\ view' = ViewOf(heap, roots)
  BY <1>1, <1>6, <1>9, <1>10
<1>12. \E h0, rs0, G : Tracing(h0, rs0, G)'
  BY <1>11 DEF Tracing
<1>13. 1 \in 1 .. NRoots + 1
  BY MutatorAssumption DEF MutatorAssumption
<1> QED
  BY <1>1, <1>2, <1>5, <1>12, <1>13 DEF IInv, Accounts

\* A step of the trace that keeps its loop invariant keeps this one.
LEMMA StaysTracing ==
    ASSUME IInv, pc = "trace", UNCHANGED <<pc, req, out, net, spaceVars, old_watermark>>,
           root' \in 1 .. NRoots + 1, \E h0, rs0, F : Tracing(h0, rs0, F)'
    PROVE  IInv'
<1>1. UNCHANGED <<from_space, to_space, top, extent>>
  BY DEF spaceVars
<1>2. /\ to_space # 0 /\ LaidOut /\ req \in Request /\ out \in Outs /\ net \in Int
      /\ CountBytes => net = old_watermark - from_space
  BY DEF IInv, Accounts
<1>3. LaidOut'
  BY <1>1, <1>2 DEF LaidOut
<1> QED
  BY <1>1, <1>2, <1>3 DEF IInv, Accounts

LEMMA ProcessRootIInv == IInv /\ ProcessRoot => IInv'
<1> SUFFICES ASSUME IInv, ProcessRoot PROVE IInv'
  OBVIOUS
<1> DEFINE p == ProcessObj(roots[root])
<1>1. /\ pc = "trace" /\ root \in RootSlots /\ roots' = [roots EXCEPT ![root] = p.ref]
      /\ heap' = p.heap /\ root' = root + 1
      /\ UNCHANGED <<pc, req, out, net, view, spaceVars, old_watermark, scan, slot>>
  BY DEF ProcessRoot
<1> HIDE DEF p
<1>2. PICK h0, rs0, F : Tracing(h0, rs0, F)
  BY <1>1 DEF IInv
<1>3. PICK F2 : Evacuating(h0, rs0, F2, heap', roots', from_space, old_watermark, to_space,
                           root + 1, scan, slot)
  BY <1>1, <1>2, RootProcessed DEF Tracing, p
<1>4. Tracing(h0, rs0, F2)'
  BY <1>1, <1>2, <1>3 DEF Tracing, spaceVars
<1>5. root' \in 1 .. NRoots + 1
  BY <1>1, MutatorAssumption DEF MutatorAssumption, RootSlots
<1> QED
  BY <1>1, <1>4, <1>5, StaysTracing

LEMMA ProcessSlotIInv == IInv /\ ProcessSlot => IInv'
<1> SUFFICES ASSUME IInv, ProcessSlot PROVE IInv'
  OBVIOUS
<1> DEFINE p == ProcessObj(heap.word[slot])
<1>1. /\ pc = "trace" /\ scan < heap.watermark /\ slot \in RefSlots(heap, scan)
      /\ heap' = [p.heap EXCEPT !.word[slot] = p.ref] /\ slot' = slot + 1
      /\ UNCHANGED <<roots, pc, req, out, net, view, spaceVars, old_watermark, root, scan>>
  BY DEF ProcessSlot, ScanLoop
<1> HIDE DEF p
<1>2. PICK h0, rs0, F : Tracing(h0, rs0, F)
  BY <1>1 DEF IInv
<1>3. PICK F2 : Evacuating(h0, rs0, F2, heap', roots, from_space, old_watermark, to_space,
                           root, scan, slot + 1)
  BY <1>1, <1>2, SlotProcessed DEF Tracing, p
<1>4. Tracing(h0, rs0, F2)'
  BY <1>1, <1>2, <1>3 DEF Tracing, spaceVars
<1>5. root' \in 1 .. NRoots + 1
  BY <1>1 DEF IInv
<1> QED
  BY <1>1, <1>4, <1>5, StaysTracing

LEMMA NextCopyIInv == IInv /\ NextCopy => IInv'
<1> SUFFICES ASSUME IInv, NextCopy PROVE IInv'
  OBVIOUS
<1>1. /\ pc = "trace" /\ scan < heap.watermark /\ slot \notin RefSlots(heap, scan)
      /\ scan' = scan + ObjectWords(heap, scan) /\ slot' = scan' + Header
      /\ UNCHANGED <<heap, roots, pc, req, out, net, view, spaceVars, old_watermark, root>>
  BY DEF NextCopy, ScanLoop, AfterScan, mutatorVars
<1>2. PICK h0, rs0, F : Tracing(h0, rs0, F)
  BY <1>1 DEF IInv
<1>3. Evacuating(h0, rs0, F, heap, roots, from_space, old_watermark, to_space,
                 root, scan', scan' + Header)
  BY <1>1, <1>2, CopyScanned DEF Tracing
<1>4. Tracing(h0, rs0, F)'
  BY <1>1, <1>2, <1>3 DEF Tracing, spaceVars
<1>5. root' \in 1 .. NRoots + 1
  BY <1>1 DEF IInv
<1> QED
  BY <1>1, <1>4, <1>5, StaysTracing

LEMMA ScanEndIInv == IInv /\ ScanEnd => IInv'
<1> SUFFICES ASSUME IInv, ScanEnd PROVE IInv'
  OBVIOUS
<1> DEFINE live == heap.watermark - to_space
           room == top - heap.watermark
<1>1. /\ pc = "trace" /\ root > NRoots /\ scan >= heap.watermark /\ pc' = "return"
      /\ out' = [live |-> live, moved |-> live, free |-> room, largest |-> room,
                 freed |-> old_watermark - from_space - live]
      /\ heap' = Vacate(heap, from_space, from_space + extent)
      /\ root' = 1 /\ old_watermark' = 0 /\ scan' = 0 /\ slot' = 0
      /\ UNCHANGED <<roots, req, net, view, spaceVars>>
  BY DEF ScanEnd, ScanLoop, Freed
<1>2. PICK h0, rs0, F : Tracing(h0, rs0, F)
  BY <1>1 DEF IInv
<1>3. /\ to_space # 0 /\ LaidOut /\ req \in Request /\ net \in Int
      /\ CountBytes => net = old_watermark - from_space
      /\ root \in 1 .. NRoots + 1
  BY <1>1 DEF IInv, Accounts
<1>4. /\ from_space \in Nat /\ to_space \in Nat /\ extent \in Nat
      /\ top = to_space + extent /\ top \in Nat
  BY <1>3, HalvesWithin DEF LaidOut
<1>5. /\ heap.watermark \in Nat /\ heap.watermark <= top /\ to_space <= heap.watermark
      /\ heap.watermark - to_space <= old_watermark - from_space /\ old_watermark \in Nat
  <2>1. /\ heap.watermark \in Nat /\ heap.watermark <= to_space + extent
        /\ heap.watermark - to_space <= old_watermark - from_space
    BY <1>2, CopiesWithin DEF Tracing, Evacuating
  <2>2. to_space <= heap.watermark /\ old_watermark \in Nat
    BY <1>2 DEF Tracing, Evacuating, Evacuated, Apart
  <2> QED
    BY <2>1, <2>2, <1>4
<1>6. \A i \in RootSlots : i < root
  BY <1>1, <1>3, MutatorAssumption DEF RootSlots, MutatorAssumption
<1>7. ~(scan < heap.watermark)
  <2>1. scan \in Nat
    <3>1. scan \in Headers(heap, to_space, heap.watermark) \cup {heap.watermark}
      BY <1>2 DEF Tracing, Evacuating, ScanAt
    <3> QED
      BY <3>1, <1>5, HeadersWithin
  <2> QED
    BY <2>1, <1>1, <1>5
<1>8. /\ WellFormed(heap', roots, to_space, heap'.watermark) /\ NoForwards(heap')
      /\ heap'.watermark = heap.watermark
      /\ Headers(heap', to_space, heap'.watermark) = Live(heap', roots)
      /\ ViewOf(heap', roots) = ViewOf(h0, rs0) /\ Distinct(heap', Live(heap', roots))
  BY <1>1, <1>2, <1>6, <1>7, EvacuationEnds DEF Tracing
<1>9. UNCHANGED <<from_space, to_space, top, extent>> /\ Bottom' = to_space
  BY <1>1, <1>3 DEF spaceVars, Bottom
<1>10. view = ViewOf(h0, rs0)
  BY <1>2 DEF Tracing
<1>11. Seen'
  BY <1>1, <1>8, <1>10 DEF Seen
<1>12. AtRest'
  BY <1>1, <1>5, <1>8, <1>9, <1>11 DEF AtRest
<1>13. Headers(heap', to_space', heap'.watermark) = LiveRefs'
  BY <1>1, <1>8, <1>9 DEF LiveRefs, RootSet, Live
<1>14. live \in Nat /\ room \in Nat /\ old_watermark - from_space - live \in Nat
  BY <1>4, <1>5
<1>15. LaidOut' /\ to_space' # 0
  BY <1>3, <1>9 DEF LaidOut
<1>16. 1 \in 1 .. NRoots + 1
  BY MutatorAssumption DEF MutatorAssumption
<1>17. /\ out' \in Outs /\ out'.live = heap'.watermark - to_space'
       /\ out'.free = top' - heap'.watermark
       /\ CountBytes => net' = out'.live + out'.freed
  <2>1. out' \in Outs
    BY <1>1, <1>14 DEF Outs
  <2>2. out'.live = live /\ out'.free = room /\ out'.freed = old_watermark - from_space - live
    BY <1>1
  <2>3. old_watermark - from_space = live + (old_watermark - from_space - live)
    BY <1>4, <1>5
  <2> QED
    BY <2>1, <2>2, <2>3, <1>1, <1>3, <1>8, <1>9
<1> QED
  BY <1>1, <1>3, <1>12, <1>13, <1>15, <1>16, <1>17 DEF IInv, Accounts

LEMMA CollectReturnIInv ==
    IInv /\ CollectReturn /\ UNCHANGED <<spaceVars, traceVars>> => IInv'
<1> SUFFICES ASSUME IInv, CollectReturn, UNCHANGED <<spaceVars, traceVars>> PROVE IInv'
  OBVIOUS
<1>1. /\ pc = "return" /\ pc' \in {"run", "retry"} /\ out' = ZeroOut
      /\ net' = (IF CountBytes THEN net - out.freed ELSE 0)
      /\ UNCHANGED <<heap, roots, req, view>>
      /\ UNCHANGED <<from_space, to_space, top, extent, old_watermark, root, scan, slot>>
  BY DEF CollectReturn, spaceVars, traceVars
<1>2. /\ to_space # 0 /\ LaidOut /\ req \in Request /\ out \in Outs /\ net \in Int
      /\ root \in 1 .. NRoots + 1 /\ old_watermark = 0 /\ scan = 0 /\ slot = 0
      /\ AtRest /\ Headers(heap, to_space, heap.watermark) = LiveRefs
      /\ out.live = heap.watermark - to_space
      /\ CountBytes => net = out.live + out.freed
  BY <1>1 DEF IInv, Accounts
<1>3. out' \in Outs
  BY <1>1 DEF ZeroOut, Outs
<1>4. LaidOut' /\ AtRest' /\ Bottom' = Bottom /\ Bottom = to_space
  BY <1>1, <1>2 DEF LaidOut, AtRest, Seen, Bottom
<1>5. LiveRefs' = LiveRefs
  BY <1>1 DEF LiveRefs, RootSet
<1>6. net' \in Int /\ (CountBytes => net' = heap'.watermark - Bottom')
  <2>1. out.freed \in Nat /\ out.live \in Nat
    BY <1>2 DEF Outs
  <2> QED
    BY <2>1, <1>1, <1>2, <1>4
<1> QED
  BY <1>1, <1>2, <1>3, <1>4, <1>5, <1>6 DEF IInv, Accounts

LEMMA ProgramIInv ==
    ASSUME IInv, ProgramStep \/ \E r, s \in RootSlots, k \in Elements : AIAStore(r, k, s),
           UNCHANGED <<spaceVars, traceVars>>
    PROVE  IInv'
<1>1. WellFormed(heap, roots, Bottom, heap.watermark)
  <2>1. pc = "run"
    BY DEF ProgramStep, AIALoad, IAStore, Pop, AIAStore
  <2> QED
    BY <2>1, AtRestHeap
<1>2. /\ WellFormed(heap', roots', Bottom, heap.watermark)
      /\ heap'.watermark = heap.watermark
      /\ SameChunks(heap, heap', Bottom, heap.watermark)
      /\ pc = "run" /\ UNCHANGED <<pc, req, out, net>>
  BY <1>1, ProgramKeeps
<1>3. NoForwards(heap) /\ Seen /\ AtRest
  BY <1>2, AtRestHeap DEF IInv
<1>4. Seen'
  BY <1>1, <1>3, ProgramSees
<1>5. NoForwards(heap')
  BY <1>2, <1>3 DEF NoForwards, SameChunks
<1>6. UNCHANGED <<from_space, to_space, top, extent, old_watermark, root, scan, slot>>
  BY DEF spaceVars, traceVars
<1>7. Bottom' = Bottom
  BY <1>6 DEF Bottom
<1>8. AtRest'
  BY <1>2, <1>3, <1>4, <1>5, <1>6, <1>7 DEF AtRest
<1>9. to_space # 0 /\ LaidOut => to_space' # 0 /\ LaidOut'
  BY <1>6 DEF LaidOut
<1> QED
  BY <1>2, <1>6, <1>7, <1>8, <1>9 DEF IInv, Accounts

LEMMA NextIInv == ~EarlyGC /\ IInv /\ [Next]_vars => IInv'
<1> SUFFICES ASSUME ~EarlyGC, IInv, [Next]_vars PROVE IInv'
  OBVIOUS
<1>1. ASSUME GCInstruction, to_space # 0, UNCHANGED <<spaceVars, traceVars>> PROVE IInv'
  <2>1. /\ pc = "run" /\ pc' = "collect" /\ req' = NoReq /\ out' = ZeroOut
        /\ UNCHANGED <<heap, roots, net, view>>
        /\ UNCHANGED <<from_space, to_space, top, extent, old_watermark, root, scan, slot>>
    BY <1>1 DEF GCInstruction, Stop, spaceVars, traceVars
  <2>2. out' \in Outs /\ req' \in Request
    BY <2>1 DEF ZeroOut, Outs, Request
  <2>3. /\ AtRest /\ LaidOut /\ net \in Int /\ root \in 1 .. NRoots + 1
        /\ old_watermark = 0 /\ scan = 0 /\ slot = 0
        /\ CountBytes => net = heap.watermark - Bottom
    BY <1>1, <2>1 DEF IInv, Accounts
  <2>4. AtRest' /\ LaidOut' /\ Bottom' = Bottom
    BY <2>1, <2>3 DEF AtRest, Seen, LaidOut, Bottom
  <2> QED
    BY <1>1, <2>1, <2>2, <2>3, <2>4 DEF IInv, Accounts
<1>2. CASE UNCHANGED vars
  <2>1. /\ UNCHANGED <<heap, roots, pc, req, out, net, view>>
        /\ UNCHANGED <<from_space, to_space, top, extent, old_watermark, root, scan, slot>>
    BY <1>2 DEF vars, mutatorVars, spaceVars, traceVars
  <2>2. /\ (AtRest => AtRest') /\ (LaidOut => LaidOut') /\ Bottom' = Bottom
        /\ LiveRefs' = LiveRefs
    BY <2>1 DEF AtRest, Seen, LaidOut, Bottom, LiveRefs, RootSet
  <2>3. (\E h0, rs0, F : Tracing(h0, rs0, F)) => \E h0, rs0, F : Tracing(h0, rs0, F)'
    BY <2>1 DEF Tracing
  <2>4. Accounts'
    BY <2>1, <2>2 DEF IInv, Accounts
  <2> QED
    BY <2>1, <2>2, <2>3, <2>4 DEF IInv
<1> QED
  BY <1>1, <1>2, NewArrayIInv, RetryIInv, CollectIInv, ProcessRootIInv, ProcessSlotIInv,
     NextCopyIInv, ScanEndIInv, CollectReturnIInv, ProgramIInv DEF Next, Program, CollectorStep

LEMMA AlwaysIInv == ASSUME ~EarlyGC PROVE Spec => []IInv
  BY InitIInv, NextIInv, PTL DEF Spec
-----------------------------------------------------------------------------
(* The types and the spaces.                                                *)

LEMMA TracingTypes ==
    ASSUME NEW h0, NEW rs0, NEW F, Tracing(h0, rs0, F)
    PROVE  /\ heap \in Heap /\ roots \in [RootSlots -> Addr]
           /\ heap.watermark \in Nat /\ to_space <= heap.watermark
           /\ heap.watermark <= to_space + extent
           /\ old_watermark \in Word /\ scan \in Word /\ slot \in Word
<1>1. /\ Apart(from_space, old_watermark, to_space, extent)
      /\ Found(h0, rs0, from_space, old_watermark) /\ DOMAIN F \subseteq Live(h0, rs0)
      /\ Evacuated(h0, F, heap, from_space, old_watermark, to_space)
      /\ RootsTo(rs0, F, roots, root) /\ ScanAt(heap, to_space, scan, slot)
  BY DEF Tracing, Evacuating
<1>2. heap.watermark \in Nat /\ heap.watermark <= to_space + extent
  BY <1>1, CopiesWithin
<1>3. /\ heap \in Heap /\ to_space <= heap.watermark /\ Tiled(heap, to_space, heap.watermark)
      /\ roots \in [RootSlots -> Addr]
  BY <1>1 DEF Evacuated, RootsTo
<1>4. /\ to_space \in Nat /\ extent \in Nat /\ from_space \in Nat /\ old_watermark \in Nat
      /\ old_watermark <= from_space + extent
      /\ to_space + extent <= HeapEnd /\ from_space + extent <= HeapEnd
      /\ HeapEnd \in Nat /\ W \in Nat /\ HeapEnd < W - 2
  BY <1>1, Numbers DEF Apart
<1>5. scan \in Nat /\ scan <= heap.watermark /\ slot \in Nat /\ slot <= heap.watermark + Header
  <2>1. /\ scan \in Headers(heap, to_space, heap.watermark) \cup {heap.watermark}
        /\ slot \in Nat
        /\ IF scan = heap.watermark THEN slot = scan + Header
                                    ELSE slot <= scan + ObjectWords(heap, scan)
    BY <1>1 DEF ScanAt
  <2>2. CASE scan = heap.watermark
    BY <2>1, <2>2, <1>2
  <2>3. CASE scan \in Headers(heap, to_space, heap.watermark)
    <3>1. /\ scan \in Nat /\ scan < heap.watermark /\ ObjectWords(heap, scan) \in Nat
          /\ scan + ObjectWords(heap, scan) <= heap.watermark
      BY <2>3, <1>2, <1>3, <1>4, TiledWithin
    <3> QED
      BY <2>1, <3>1, <1>2
  <2> QED
    BY <2>1, <2>2, <2>3
<1>6. old_watermark \in Word /\ scan \in Word /\ slot \in Word
  BY <1>2, <1>4, <1>5 DEF Word
<1> QED
  BY <1>2, <1>3, <1>6

LEMMA InvHolds == IInv => TypeOK /\ SpacesDisjoint /\ HeapIntact
<1> SUFFICES ASSUME IInv PROVE TypeOK /\ SpacesDisjoint /\ HeapIntact
  OBVIOUS
<1>1. heap \in Heap /\ roots \in [RootSlots -> Addr]
  <2>1. CASE pc = "trace"
    BY <2>1, TracingTypes DEF IInv
  <2>2. CASE pc # "trace"
    BY <2>2, AtRestHeap, WellFormedTypes
  <2> QED
    BY <2>1, <2>2
<1>2. 0 \in Word
  BY Numbers DEF Word
<1>3. old_watermark \in Word /\ scan \in Word /\ slot \in Word
  <2>1. CASE pc = "trace"
    BY <2>1, TracingTypes DEF IInv
  <2>2. CASE pc # "trace"
    BY <2>2, <1>2 DEF IInv
  <2> QED
    BY <2>1, <2>2
<1>4. from_space \in Word /\ to_space \in Word /\ top \in Word /\ extent \in Word
  <2>1. CASE to_space = 0
    BY <2>1, <1>2 DEF IInv
  <2>2. CASE to_space # 0
    <3>1. LaidOut
      BY <2>2 DEF IInv
    <3>2. /\ from_space \in Nat /\ to_space \in Nat /\ top \in Nat /\ extent \in Nat
          /\ from_space < W /\ to_space < W /\ top < W /\ extent < W
      BY <3>1, HalvesWithin DEF LaidOut
    <3> QED
      BY <3>2, Numbers DEF Word
  <2> QED
    BY <2>1, <2>2
<1>5. TypeOK
  <2>1. /\ req \in Request /\ net \in Int /\ root \in 1 .. NRoots + 1 /\ out \in Outs
        /\ pc \in {"run", "collect", "trace", "return", "retry", "oom"}
    BY DEF IInv
  <2>2. DOMAIN out = DOMAIN ZeroOut /\ \A x \in DOMAIN out : out[x] \in Nat
    BY <2>1 DEF Outs, ZeroOut
  <2> QED
    BY <1>1, <1>3, <1>4, <2>1, <2>2 DEF TypeOK, MutatorTypeOK
<1>6. SpacesDisjoint
  <2> SUFFICES ASSUME to_space # 0
               PROVE  /\ {from_space, to_space} = {Base, Base + extent}
                      /\ top = to_space + extent /\ top <= HeapEnd
                      /\ to_space <= heap.watermark /\ heap.watermark <= top
    BY DEF SpacesDisjoint
  <2>1. LaidOut
    BY DEF IInv
  <2>2. /\ {from_space, to_space} = {Base, Base + extent}
        /\ top = to_space + extent /\ top <= HeapEnd
    BY <2>1, HalvesWithin DEF LaidOut, Halves
  <2>3. CASE pc = "trace"
    BY <2>2, <2>3, TracingTypes DEF IInv
  <2>4. CASE pc # "trace"
    <3>1. heap.watermark <= top
      BY <2>4 DEF IInv, AtRest
    <3>2. to_space <= heap.watermark
      BY <2>4, AtRestHeap DEF Bottom
    <3> QED
      BY <2>2, <3>1, <3>2
  <2> QED
    BY <2>3, <2>4
<1>7. Quiet => /\ Tiled(heap, Bottom, heap.watermark)
               /\ ReferencesValid(Allocated(heap, Bottom, heap.watermark))
  BY AtRestHeap, WellFormedMeans DEF Quiet
<1> QED
  BY <1>5, <1>6, <1>7 DEF HeapIntact

\* For every heap size, number of roots and program that allocates before it collects,
\* the variables of cheney.c keep their types.
THEOREM CheneyTypeOK == ASSUME ~EarlyGC PROVE Spec => []TypeOK
  BY InvHolds, AlwaysIInv, PTL

\* The semispaces stay the two halves of the heap, survivors fit in one, and between
\* collections to-space is walkable and no reference dangles.
THEOREM CheneyHeapIntact == ASSUME ~EarlyGC PROVE Spec => []HeapIntact
  BY InvHolds, AlwaysIInv, PTL
-----------------------------------------------------------------------------
(* What the program sees.                                                   *)

LEMMA InvSees == IInv => ViewPreserved
  BY SeenMeans DEF IInv, AtRest, ViewPreserved

\* Copying is invisible: every root leads to the array it led to, whose elements lead
\* to theirs.
THEOREM CheneyViewPreserved == ASSUME ~EarlyGC PROVE Spec => []ViewPreserved
  BY InvSees, AlwaysIInv, PTL

\* A root that waits for the array stays null while the roots are rewritten.
LEMMA NextWaiting == Waiting /\ [Next]_vars => Waiting'
<1> SUFFICES ASSUME Waiting, [Next]_vars PROVE Waiting'
  OBVIOUS
<1>1. CASE ProcessRoot
  <2> DEFINE p == ProcessObj(roots[root])
  <2>1. /\ roots' = [roots EXCEPT ![root] = p.ref] /\ pc = "trace" /\ UNCHANGED <<pc, req>>
    BY <1>1 DEF ProcessRoot
  <2>2. roots[root] = GC_NULL => p.ref = GC_NULL
    BY DEF ProcessObj
  <2> HIDE DEF p
  <2>3. \A i : roots[i] = GC_NULL => roots'[i] = GC_NULL
    BY <2>1, <2>2
  <2> QED
    BY <2>1, <2>3 DEF Waiting
<1>2. CASE ~ProcessRoot
  <2>1. \/ \E r \in RootSlots, length \in Lengths, ref \in Kinds : \E a : AllocFirst(r, length, ref, a)
        \/ \E a : AllocRetry(a)
        \/ GCInstruction \/ CollectReturn
        \/ ProgramStep \/ \E r, s \in RootSlots, k \in Elements : AIAStore(r, k, s)
        \/ UNCHANGED <<roots, req>> /\ (pc' = pc \/ pc' \notin {"run", "retry"})
    BY <1>2 DEF Next, Program, CollectorStep, NewArray, Retry, Collect, ProcessSlot, NextCopy,
                ScanEnd, vars, mutatorVars
  <2> QED
    BY <2>1, WaitingKept
<1> QED
  BY <1>1, <1>2

\* Each step of the program is one of AbstractHeap, and no step of a collection is.
LEMMA NextIsAbstract ==
    IInv /\ Waiting /\ [Next]_vars => [Abstract!Next]_(Abstract!vars)
<1> SUFFICES ASSUME IInv, Waiting, [Next]_vars
             PROVE  Abstract!Next \/ UNCHANGED view
  BY DEF Abstract!vars
<1>0. pc # "trace" => /\ WellFormed(heap, roots, Bottom, heap.watermark)
                      /\ Base <= heap.watermark /\ Seen
  <2>1. pc # "trace" =>
           /\ WellFormed(heap, roots, Bottom, heap.watermark) /\ Seen
           /\ Base <= Bottom /\ Bottom <= heap.watermark /\ heap.watermark \in Nat /\ Bottom \in Nat
    BY AtRestHeap
  <2> QED
    BY <2>1
<1>1. ASSUME NEW r \in RootSlots, NEW length \in Lengths, NEW ref \in Kinds,
             NEW id \in FreshIds, NewArray(r, length, ref, id)
      PROVE  Abstract!Next \/ UNCHANGED view
  <2> DEFINE a == Alloc(length, ref, id)
  <2>1. /\ length \in Nat /\ ref \in BOOLEAN /\ AllocFirst(r, length, ref, a) /\ LayOut
        /\ heap' = a.heap /\ roots[r] = GC_NULL /\ pc = "run"
    BY <1>1, AskedTypes DEF NewArray, AllocFirst
  <2>2. a.ref # SENTINEL => a = RawAlloc(heap, length, ref, id)
    BY <2>1, AllocEffect
  <2> HIDE DEF a
  <2>3. CASE a.ref = SENTINEL
    BY <2>1, <2>3 DEF AllocFirst
  <2>4. CASE a.ref # SENTINEL
    <3>1. Push(r, a)
      BY <2>1, <2>4 DEF AllocFirst
    <3>2. Abstract!New(r)
      BY <1>0, <2>1, <2>2, <2>4, <3>1, BumpIsNew
    <3> QED
      BY <3>2, NewIsAbstract
  <2> QED
    BY <2>3, <2>4
<1>2. ASSUME NEW id \in FreshIds, Retry(id) PROVE Abstract!Next \/ UNCHANGED view
  <2> DEFINE a == Alloc(req.length, req.ref, id)
             r == req.slot
  <2>1. AllocRetry(a) /\ LayOut /\ heap' = a.heap /\ pc = "retry"
    BY <1>2 DEF Retry, AllocRetry
  <2>2. /\ r \in RootSlots /\ roots[r] = GC_NULL
        /\ req.length \in Lengths /\ req.length \in Nat /\ req.ref \in BOOLEAN
    BY <2>1, WaitingMeans
  <2>3. a.ref # SENTINEL => a = RawAlloc(heap, req.length, req.ref, id)
    BY <2>1, <2>2, AllocEffect
  <2> HIDE DEF a, r
  <2>4. CASE a.ref = SENTINEL
    BY <2>1, <2>4 DEF AllocRetry
  <2>5. CASE a.ref # SENTINEL
    <3>1. Push(r, a)
      BY <2>1, <2>5 DEF AllocRetry, r
    <3>2. Abstract!New(r)
      BY <1>0, <2>1, <2>2, <2>3, <2>5, <3>1, BumpIsNew
    <3> QED
      BY <2>2, <3>2, NewIsAbstract
  <2> QED
    BY <2>4, <2>5
<1>3. CASE \/ Collect \/ ProcessRoot \/ ProcessSlot \/ NextCopy \/ ScanEnd
           \/ CollectReturn \/ GCInstruction \/ UNCHANGED vars
  BY <1>3 DEF Collect, ProcessRoot, ProcessSlot, NextCopy, ScanEnd, CollectReturn, GCInstruction,
              vars, mutatorVars
<1>4. CASE ProgramStep \/ \E r, s \in RootSlots, k \in Elements : AIAStore(r, k, s)
  <2>1. pc = "run"
    BY <1>4 DEF ProgramStep, AIALoad, IAStore, Pop, AIAStore
  <2> QED
    BY <2>1, <1>0, <1>4, ProgramIsAbstract
<1> QED
  BY <1>1, <1>2, <1>3, <1>4 DEF Next, Program, CollectorStep

\* Cheney's collector implements AbstractHeap: the program's instructions do there what
\* they do here, and copying every array does nothing there.
THEOREM CheneyRefinesAbstract == ASSUME ~EarlyGC PROVE Spec => RefinesAbstract
<1>1. Init => Waiting /\ Abstract!Init
  BY InitWaiting, InitIsAbstract DEF Init
<1> QED
  BY <1>1, NextWaiting, NextIsAbstract, AlwaysIInv, PTL
     DEF Spec, RefinesAbstract, Abstract!Spec
-----------------------------------------------------------------------------
(* What a collection reports, and what memory it needs.                     *)

\* The sizes of the arrays that fill to-space up to the watermark add up to its words.
LEMMA PackedSum ==
    ASSUME NEW h \in Heap, NEW start \in Nat, NEW end \in Nat, start <= end,
           Tiled(h, start, end), NEW S, S = Headers(h, start, end)
    PROVE  SumWords(h, S) = end - start
<1>1. MapThenSumSet(LAMBDA a : ObjectWords(h, a), S) = Cardinality(Covered(h, S))
  BY SumCovered
<1>2. Cardinality(Covered(h, S)) = end - start
  BY TiledCovers
<1> QED
  BY <1>1, <1>2 DEF SumWords

\* What a collection has left in to-space.
LEMMA LeftExactly ==
    ASSUME IInv, pc \in {"return", "retry"}
    PROVE  /\ to_space # 0 /\ LaidOut /\ to_space \in Nat /\ heap.watermark \in Nat
           /\ Copies = LiveRefs /\ SumWords(heap, LiveRefs) = heap.watermark - to_space
<1>1. to_space # 0 /\ LaidOut /\ LiveRefs = Headers(heap, to_space, heap.watermark)
  BY DEF IInv
<1>2. /\ WellFormed(heap, roots, to_space, heap.watermark)
  BY <1>1, AtRestHeap DEF Bottom
<1>3. /\ heap \in Heap /\ to_space \in Nat /\ heap.watermark \in Nat
      /\ to_space <= heap.watermark /\ heap.watermark <= HeapEnd
      /\ Tiled(heap, to_space, heap.watermark)
  BY <1>2 DEF WellFormed
<1>4. ChunksFrom(heap, to_space, heap.watermark) = Headers(heap, to_space, heap.watermark)
  BY <1>3, WalkMeets
<1>5. SumWords(heap, LiveRefs) = heap.watermark - to_space
  BY <1>1, <1>3, PackedSum
<1> QED
  BY <1>1, <1>3, <1>4, <1>5 DEF Copies

LEMMA InvCopied == IInv => CopiedExactly
<1> SUFFICES ASSUME IInv, pc = "return"
             PROVE  /\ Copies = LiveRefs
                    /\ out.live = SumWords(heap, LiveRefs)
                    /\ out.live + out.free = extent
                    /\ CountBytes => net = out.live + out.freed
  BY DEF CopiedExactly
<1>1. /\ LaidOut /\ to_space \in Nat /\ heap.watermark \in Nat
      /\ Copies = LiveRefs /\ SumWords(heap, LiveRefs) = heap.watermark - to_space
  BY LeftExactly
<1>2. /\ out.live = heap.watermark - to_space /\ out.free = top - heap.watermark
      /\ CountBytes => net = out.live + out.freed
  BY DEF IInv, Accounts
<1>3. top = to_space + extent /\ extent \in Nat
  BY <1>1, HalvesWithin DEF LaidOut
<1> QED
  BY <1>1, <1>2, <1>3

\* A collection leaves the reachable arrays alone, packed in to-space, and the statistics
\* it returns say so: their words, the room that is left and what was freed.
THEOREM CheneyCopiedExactly == ASSUME ~EarlyGC PROVE Spec => []CopiedExactly
  BY InvCopied, AlwaysIInv, PTL

LEMMA NextOom ==
    IInv /\ [Next]_vars =>
       [(pc = "retry" /\ pc' = "oom") =>
           SumWords(heap, LiveRefs) + Header + req.length > extent]_vars
<1> SUFFICES ASSUME IInv, Next, pc = "retry", pc' = "oom"
             PROVE  SumWords(heap, LiveRefs) + Header + req.length > extent
  OBVIOUS
<1>1. PICK id \in FreshIds : Retry(id)
  BY DEF Next, Program, CollectorStep, NewArray, AllocFirst, AIAStore, ProgramStep, AIALoad,
         IAStore, Pop, GCInstruction, Collect, ProcessRoot, ProcessSlot, NextCopy, ScanEnd,
         ScanLoop, CollectReturn
<1> DEFINE a == Alloc(req.length, req.ref, id)
<1>2. LayOut /\ AllocRetry(a)
  BY <1>1 DEF Retry
<1>3. req.length \in Nat /\ req.ref \in BOOLEAN
  BY AskedTypes DEF IInv
<1>4. a.ref = SENTINEL
  BY <1>2 DEF AllocRetry
<1>5. /\ to_space \in Nat /\ to_space # 0 /\ LaidOut /\ heap.watermark \in Nat
      /\ SumWords(heap, LiveRefs) = heap.watermark - to_space
  BY LeftExactly
<1>6. heap.watermark + Header + req.length > top' /\ UNCHANGED spaceVars
  BY <1>2, <1>3, <1>4, <1>5, AllocEffect
<1>7. top' = to_space + extent /\ extent \in Nat
  BY <1>5, <1>6, HalvesWithin DEF LaidOut, spaceVars
<1> HIDE DEF a
<1> QED
  BY <1>3, <1>5, <1>6, <1>7

\* The program runs out of memory only when the reachable arrays and the one it asks for
\* do not fit in a semispace together.
THEOREM CheneyOomMeansFull == ASSUME ~EarlyGC PROVE Spec => OomMeansFull
  BY NextOom, AlwaysIInv, PTL DEF Spec, OomMeansFull
-----------------------------------------------------------------------------
(* The trace itself.                                                        *)

LEMMA InvForwards == IInv => ForwardingSound
<1> DEFINE Moved == {a \in from_space .. (old_watermark - 1) : IsForwarded(heap, a)}
<1> SUFFICES ASSUME IInv, pc = "trace"
             PROVE  /\ {GetForwarded(heap, a) : a \in Moved} = Copies
                    /\ Cardinality(Moved) = Cardinality(Copies)
                    /\ \A a \in Moved : heap.tag[GetForwarded(heap, a)].id = heap.tag[a].id
                    /\ \A c \in Copies : c < scan => Children(heap, c) \subseteq Copies
  BY DEF ForwardingSound
<1>1. PICK h0, rs0, F : Tracing(h0, rs0, F)
  BY DEF IInv
<1> DEFINE H == Headers(heap, to_space, heap.watermark)
<1>2. /\ Apart(from_space, old_watermark, to_space, extent)
      /\ Found(h0, rs0, from_space, old_watermark) /\ DOMAIN F \subseteq Live(h0, rs0)
      /\ Evacuated(h0, F, heap, from_space, old_watermark, to_space)
      /\ \A a \in DOMAIN F : CopyOf(h0, F, heap, a, slot)
      /\ ScanAt(heap, to_space, scan, slot)
  BY <1>1 DEF Tracing, Evacuating
<1>3. /\ from_space \in Nat /\ old_watermark \in Nat /\ to_space \in Nat /\ extent \in Nat
      /\ old_watermark <= HeapEnd /\ to_space + extent <= HeapEnd /\ HeapEnd \in Nat
  BY <1>2, Numbers DEF Apart
<1>4. /\ heap.watermark \in Nat /\ heap.watermark <= to_space + extent
      /\ \A a \in DOMAIN F : a \in Addr /\ a \in Nat /\ from_space <= a /\ a < old_watermark
  BY <1>2, CopiesWithin
<1>5. /\ heap \in Heap /\ to_space <= heap.watermark /\ Tiled(heap, to_space, heap.watermark)
      /\ H = {F[a] : a \in DOMAIN F}
      /\ \A a, b \in DOMAIN F : F[a] = F[b] => a = b
      /\ \A x \in Addr : heap.tag[x].fwd => x \in DOMAIN F
      /\ \A x \in DOMAIN F : heap.word[x] = F[x] /\ heap.tag[x] = [h0.tag[x] EXCEPT !.fwd = TRUE]
  BY <1>2, <1>4 DEF Evacuated
<1>6. Copies = H
  BY <1>3, <1>4, <1>5, WalkMeets DEF Copies
<1>7. h0 \in Heap /\ \A x \in DOMAIN F : h0.tag[x] \in Tag
  BY <1>2, <1>4, CopiesWithin DEF Heap
<1>8. Moved = DOMAIN F
  <2>1. ASSUME NEW x \in Moved PROVE x \in DOMAIN F
    <3>1. x \in Addr /\ heap.tag[x].fwd
      BY <1>3 DEF Addr, IsForwarded
    <3> QED
      BY <3>1, <1>5
  <2>2. ASSUME NEW x \in DOMAIN F PROVE x \in Moved
    <3>1. heap.tag[x].fwd
      BY <1>5, <1>7 DEF Tag
    <3>2. x \in from_space .. (old_watermark - 1)
      BY <1>3, <1>4
    <3> QED
      BY <3>1, <3>2 DEF IsForwarded
  <2> QED
    BY <2>1, <2>2
<1> HIDE DEF Moved, H
<1>9. {GetForwarded(heap, a) : a \in Moved} = H
  <2>1. \A x \in DOMAIN F : GetForwarded(heap, x) = F[x]
    BY <1>5 DEF GetForwarded
  <2>2. {GetForwarded(heap, a) : a \in DOMAIN F} = {F[a] : a \in DOMAIN F}
    BY <2>1
  <2> QED
    BY <1>5, <1>8, <2>2
<1>10. Cardinality(Moved) = Cardinality(H)
  <2> DEFINE G == [a \in Moved |-> F[a]]
  <2>1. G \in Surjection(Moved, H)
    BY <1>5, <1>8 DEF Surjection
  <2>3. G \in Injection(Moved, H)
    BY <1>5, <1>8 DEF Injection, IsInjective
  <2>2. IsFiniteSet(Moved)
    <3>1. from_space \in Int /\ old_watermark - 1 \in Int
      BY <1>3
    <3>2. IsFiniteSet(from_space .. (old_watermark - 1))
      BY <3>1, FS_Interval
    <3> QED
      BY <3>2, FS_Subset DEF Moved
  <2> HIDE DEF G
  <2> QED
    BY <2>1, <2>3, <2>2, FS_Surjection
<1>11. ASSUME NEW a \in DOMAIN F
       PROVE  heap.tag[heap.word[a]].id = heap.tag[a].id
  <2>1. heap.tag[F[a]] = h0.tag[a] /\ heap.word[a] = F[a]
    BY <1>2, <1>5 DEF CopyOf
  <2>2. heap.tag[a].id = h0.tag[a].id
    BY <1>5, <1>7 DEF Tag
  <2> QED
    BY <2>1, <2>2
<1>12. ASSUME NEW c \in H, c < scan
       PROVE  Children(heap, c) \subseteq H
  <2>1. PICK a \in DOMAIN F : c = F[a]
    BY <1>5
  <2>2. /\ h0.word[a] \in Nat /\ c \in Addr /\ c \in Nat
        /\ ObjectWords(heap, c) = 2 + h0.word[a] /\ c + ObjectWords(heap, c) <= heap.watermark
    BY <1>2, <2>1, CopyRange
  <2>3. CopyOf(h0, F, heap, a, slot)
    BY <1>2
  <2>4. heap.word[c] = h0.word[a] /\ heap.tag[c].ref = h0.tag[a].ref
    BY <2>1, <2>3 DEF CopyOf
  <2>5. scan \in H \cup {heap.watermark} /\ slot \in Nat /\ scan + Header <= slot
    BY <1>2 DEF ScanAt, H
  <2>6. c + ObjectWords(heap, c) <= scan /\ scan \in Nat
    <3>1. scan \in Nat
      BY <2>5, <1>4, HeadersWithin DEF H
    <3>2. CASE scan = heap.watermark
      BY <3>1, <3>2, <2>2
    <3>3. CASE scan \in H
      <4>1. \/ c < scan /\ c + ObjectWords(heap, c) <= scan
            \/ scan < c /\ scan + ObjectWords(heap, scan) <= c
        BY <3>1, <3>3, <2>2, <1>3, <1>4, <1>5, <1>12, ChunksApart DEF H
      <4> QED
        BY <4>1, <3>1, <2>2, <1>12
    <3> QED
      BY <2>5, <3>2, <3>3
  <2>7. Children(heap, c) = IF heap.tag[c].ref
                            THEN {heap.word[c + Header + k - 1] : k \in 1 .. heap.word[c]}
                                    \cap (Addr \ {GC_NULL})
                            ELSE {}
    <3>1. heap.word[c] \in Nat /\ c + Header + heap.word[c] <= HeapEnd
      BY <2>2, <2>4, <1>3, <1>4
    <3> QED
      BY <3>1, <2>2, ChildrenAre
  <2>8. ASSUME NEW k \in 1 .. heap.word[c], heap.tag[c].ref
        PROVE  heap.word[c + Header + k - 1] \in H \cup {GC_NULL}
    <3>1. k \in 1 .. h0.word[a] /\ F[a] + Header + k - 1 < slot
      BY <2>1, <2>2, <2>4, <2>5, <2>6
    <3>2. /\ h0.word[a + Header + k - 1] \in DOMAIN F \cup {GC_NULL}
          /\ heap.word[F[a] + Header + k - 1] = Carried(F, h0.word[a + Header + k - 1])
      BY <3>1, <2>3, <2>4, <2>8 DEF CopyOf
    <3> QED
      BY <3>2, <2>1, <1>5 DEF Carried
  <2> QED
    BY <2>7, <2>8
<1> QED
  BY <1>6, <1>8, <1>9, <1>10, <1>11, <1>12 DEF GetForwarded

\* During a trace every array is copied at most once, the old copies forward to the new
\* ones, and what is scanned references to-space alone.
THEOREM CheneyForwardingSound == ASSUME ~EarlyGC PROVE Spec => []ForwardingSound
  BY InvForwards, AlwaysIInv, PTL
=============================================================================
