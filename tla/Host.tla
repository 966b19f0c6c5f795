-------------------------------- MODULE Host --------------------------------
(***************************************************************************)
(* The heap services of gc/include/gc_host.h that the collectors call. The *)
(* VM that implements them is a git submodule outside this repository, so  *)
(* they are modelled from how gc/src uses them and from the contract in    *)
(* thesis-files/gc_project_handoff.md.                                     *)
(*                                                                         *)
(* Everything is counted in 4-byte words: a reference is the word offset   *)
(* of a two-word header {length, tags}, followed by length element words.  *)
(* heap.word[a] is the word at offset a; heap.tag[a] is the tag word of    *)
(* the header that starts at a; head tells whether one does.               *)
(***************************************************************************)
EXTENDS Integers, Sequences, FiniteSets

CONSTANTS
    HeapEnd,   \* gc_host_heap_budget, in words: the first offset past the heap
    W,         \* offsets and lengths are unsigned words modulo W
    Ids        \* ghost identities of arrays; the program never reads them

Header  == 2
Base    == 2                       \* gc_host_heap_base: a phantom header at 0
GC_NULL == 0
SENTINEL == W - 1                  \* GC_HOST_FULL_SENTINEL

ASSUME HeapAssumption ==
    /\ HeapEnd \in Nat /\ W \in Nat
    /\ HeapEnd > Base + Header
    /\ HeapEnd < W - 2             \* "heap capacity bound < UINT32_MAX"
    /\ Ids \subseteq Nat \ {0}

NoId  == 0
Addr  == 0 .. (HeapEnd - 1)
Word  == 0 .. (W - 1)
Tag   == [head : BOOLEAN, ref : BOOLEAN, marked : BOOLEAN, free : BOOLEAN, fwd : BOOLEAN,
          id : Ids \cup {NoId}]
Heap  == [word : [Addr -> Word], tag : [Addr -> Tag], watermark : 0 .. HeapEnd]

NoTag   == [head |-> FALSE, ref |-> FALSE, marked |-> FALSE, free |-> FALSE,
            fwd |-> FALSE, id |-> NoId]
FreeTag == [head |-> TRUE, ref |-> FALSE, marked |-> FALSE, free |-> TRUE,
            fwd |-> FALSE, id |-> NoId]
ArrayTag(is_ref, id) == [head |-> TRUE, ref |-> is_ref, marked |-> FALSE,
                         free |-> FALSE, fwd |-> FALSE, id |-> id]

\* What is left in memory that holds no chunk. Nothing may read it before a
\* header is written there, so the model keeps one value for whatever it is;
\* as it is no address and exceeds every length, a read of it would show.
Stale == W - 2

EmptyHeap == [word |-> [a \in Addr |-> IF a < Base THEN 0 ELSE Stale],
              tag  |-> [a \in Addr |-> NoTag],
              watermark |-> Base]
-----------------------------------------------------------------------------
ObjectLength(h, a) == h.word[a]
ObjectWords(h, a)  == Header + h.word[a]
IsMarked(h, a)     == h.tag[a].marked
IsForwarded(h, a)  == h.tag[a].fwd
GetForwarded(h, a) == h.word[a]

SetMarked(h, a)   == [h EXCEPT !.tag[a].marked = TRUE]
ClearMarked(h, a) == [h EXCEPT !.tag[a].marked = FALSE]
SetWatermark(h, a) == [h EXCEPT !.watermark = a]

SetForwarded_Lost(h, a, to) == h          \* mutant
\* The contract lets the forwarding offset replace the length of the old copy.
SetForwarded(h, a, to) == [h EXCEPT !.word[a] = to, !.tag[a].fwd = TRUE]

\* The words of [start, end) no longer belong to a chunk.
Vacate(h, start, end) ==
    [h EXCEPT !.word = [x \in Addr |-> IF x >= start /\ x < end THEN Stale ELSE h.word[x]],
              !.tag  = [x \in Addr |-> IF x >= start /\ x < end THEN NoTag ELSE h.tag[x]]]

\* The slots gc_host_enumerate_object_refs visits: every element of a
\* reference array, null or not, and none of an integer array.
RefSlots(h, a) ==
    IF h.tag[a].ref THEN (a + Header) .. (a + Header + h.word[a] - 1) ELSE {}

\* Writes a header and zeroes the elements it covers.
InitObject(h, a, length, tag) ==
    LET end == a + Header + length
    IN  [h EXCEPT
          !.word = [x \in Addr |-> IF x = a THEN length
                                   ELSE IF x > a /\ x < end THEN 0 ELSE h.word[x]],
          !.tag  = [x \in Addr |-> IF x = a THEN tag
                                   ELSE IF x > a /\ x < end THEN NoTag ELSE h.tag[x]]]

\* memmove of a whole object, header included.
MoveObject(h, from, to) ==
    LET end == to + ObjectWords(h, from)
    IN  [h EXCEPT
          !.word = [x \in Addr |-> IF x >= to /\ x < end THEN h.word[from + (x - to)]
                                                          ELSE h.word[x]],
          !.tag  = [x \in Addr |-> IF x >= to /\ x < end THEN h.tag[from + (x - to)]
                                                          ELSE h.tag[x]]]

\* gc_host_make_free_block: one free chunk over [start, end).
MakeFreeBlock(h, start, end) == InitObject(h, start, end - start - Header, FreeTag)

\* gc_host_raw_alloc: bump allocation; the bound is checked in 64 bits.
\* Mutants: the last word is never used; the bump forgets the header.
Fits_OffByOne(h, length) == h.watermark + Header + length < HeapEnd
Bumped_NoHeader(h, length) == h.watermark + length + 1

Fits(h, length) == h.watermark + Header + length <= HeapEnd
Bumped(h, length) == h.watermark + Header + length

RawAlloc(h, length, is_ref, id) ==
    IF ~Fits(h, length)
    THEN [ref |-> SENTINEL, heap |-> h]
    ELSE [ref  |-> h.watermark,
          heap |-> SetWatermark(InitObject(h, h.watermark, length, ArrayTag(is_ref, id)),
                                Bumped(h, length))]

\* gc_host_split_block: formats an array of the asked length at the start of a
\* free block and the rest as another free block. A rest too small for a header
\* stays in the array, which keeps the heap walkable.
SplitBlock_Whole(h, a, length, is_ref, id) ==      \* mutant: no split at all
    [rem |-> SENTINEL, heap |-> InitObject(h, a, ObjectLength(h, a), ArrayTag(is_ref, id))]

SplitBlock(h, a, length, is_ref, id) ==
    LET total == ObjectWords(h, a)
        rest  == total - (Header + length)
        b     == a + Header + length
    IN  IF rest < Header
        THEN [rem  |-> SENTINEL,
              heap |-> InitObject(h, a, total - Header, ArrayTag(is_ref, id))]
        ELSE [rem  |-> b,
              heap |-> MakeFreeBlock(InitObject(h, a, length, ArrayTag(is_ref, id)),
                                     b, a + total)]

HeapFirst(h) == IF Base < h.watermark THEN Base ELSE SENTINEL

\* Mutants: an array without elements is taken for no chunk; the walk does not
\* stop.
HeapNext_EmptyStays(h, a) ==
    LET n == IF ObjectLength(h, a) = 0 THEN a ELSE a + ObjectWords(h, a)
    IN  IF n < h.watermark THEN n ELSE SENTINEL
HeapNext_Unbounded(h, a) == a + ObjectWords(h, a)

HeapNext(h, a) ==
    LET n == a + ObjectWords(h, a) IN IF n < h.watermark THEN n ELSE SENTINEL
-----------------------------------------------------------------------------
(* Views of the heap used by the properties.                                *)

\* The chunks the heap walk meets from offset a up to the offset end.
ChunksFrom(h, a, end) ==
    LET walk[x \in Nat] ==
            IF x >= end THEN {} ELSE {x} \cup walk[x + ObjectWords(h, x)]
    IN  walk[a]
Chunks(h) == ChunksFrom(h, Base, h.watermark)

\* The headers in [start, end), and those of allocated arrays.
Headers(h, start, end) == {a \in Addr : start <= a /\ a < end /\ h.tag[a].head}
Allocated(h, start, end) == {a \in Headers(h, start, end) : ~h.tag[a].free}

\* The words the chunks of S cover, header words included.
Covered(h, S) == UNION {a .. (a + ObjectWords(h, a) - 1) : a \in S}

\* [start, end) is tiled by chunks: each ends where another begins or at end,
\* and none begins inside another ("layout is walkable").
Tiled(h, start, end) ==
    LET H == Headers(h, start, end)
    IN  /\ start \in H \cup {end}
        /\ \A a \in H : a + ObjectWords(h, a) \in H \cup {end}
        /\ \A a, b \in H : a < b => a + ObjectWords(h, a) <= b

\* Total even on a broken heap, where a slot may hold no offset at all.
Children(h, a) ==
    {h.word[s] : s \in RefSlots(h, a) \cap Addr} \cap (Addr \ {GC_NULL})

\* Everything reachable from the set of references S.
Reachable(h, S) ==
    LET close[R \in SUBSET Addr] ==
            LET N == R \cup UNION {Children(h, a) : a \in R}
            IN  IF N = R THEN R ELSE close[N]
    IN  close[S \cap (Addr \ {GC_NULL})]
=============================================================================
