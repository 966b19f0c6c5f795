-------------------------- MODULE MarkSweepTheorems --------------------------
(***************************************************************************)
(* The mark-sweep collector is correct for every heap size, number of      *)
(* roots, set of size classes and program: its heap stays intact, its free *)
(* lists exact, its figures right, and it gives up only when nothing fits. *)
(***************************************************************************)
EXTENDS MarkSweep, MarkingTheorems

USE DEF Header, Base, GC_NULL

-----------------------------------------------------------------------------
(* Buckets and free lists.                                                  *)

\* A non-empty set of naturals has a least element.
LEMMA MinExists ==
    ASSUME NEW S, S \subseteq Nat, S # {}
    PROVE  Min(S) \in S /\ \A y \in S : Min(S) <= y
<1>1. PICK x \in S : \A y \in S : ~ (<<y, x>> \in OpToRel(<, Nat))
  BY WFMin, NatLessThanWellFounded
<1>2. \A y \in S : ~(y < x)
  BY <1>1, Zenon DEF OpToRel
<1>3. \A y \in S : x <= y
  BY <1>2
<1> QED
  BY <1>3 DEF Min

\* find_free_list_index yields a bucket, and no smaller one for a longer block.
LEMMA BucketOrder ==
    /\ \A a \in Nat : FindFreeListIndex(a) \in Buckets
    /\ \A a, b \in Nat : a <= b => FindFreeListIndex(a) <= FindFreeListIndex(b)
<1> DEFINE last == Len(SizeClasses) + 1
           Above(a) == {i \in DOMAIN SizeClasses : a < SizeClasses[i]} \cup {last}
<1>1. /\ Len(SizeClasses) \in Nat /\ DOMAIN SizeClasses = 1 .. Len(SizeClasses)
      /\ \A i \in DOMAIN SizeClasses : SizeClasses[i] \in Nat
  BY SizeAssumption, LenProperties DEF SizeAssumption
<1>2. \A a : Above(a) \subseteq Buckets /\ Above(a) # {}
  BY <1>1 DEF Buckets
<1>3. Buckets \subseteq Nat
  BY <1>1 DEF Buckets
<1>4. \A a, b \in Nat : a <= b => Above(b) \subseteq Above(a)
  BY <1>1
<1> HIDE DEF Above
<1>5. \A a : Min(Above(a)) \in Above(a) /\ \A i \in Above(a) : Min(Above(a)) <= i
  BY <1>2, <1>3, MinExists
<1>6. \A a : FindFreeListIndex(a) = Min(Above(a))
  BY DEF FindFreeListIndex, Above
<1>7. \A a \in Nat : FindFreeListIndex(a) \in Buckets
  BY <1>2, <1>5, <1>6
<1>8. \A a, b \in Nat : a <= b => FindFreeListIndex(a) <= FindFreeListIndex(b)
  BY <1>4, <1>5, <1>6
<1> QED
  BY <1>7, <1>8

\* A sequence without one of its elements.
LEMMA RemoveAtEffect ==
    ASSUME NEW S, NEW q \in Seq(S), NEW k \in DOMAIN q, NEW p, p = RemoveAt(q, k)
    PROVE  /\ p \in Seq(S)
           /\ \A j \in DOMAIN p : \/ j < k /\ j \in DOMAIN q /\ p[j] = q[j]
                                  \/ j >= k /\ j + 1 \in DOMAIN q /\ p[j] = q[j + 1]
           /\ \A j \in DOMAIN q : \/ j < k /\ j \in DOMAIN p /\ p[j] = q[j]
                                  \/ j = k
                                  \/ j > k /\ j - 1 \in DOMAIN p /\ p[j - 1] = q[j]
<1> DEFINE n == Len(q)
           u == SubSeq(q, 1, k - 1)
           v == SubSeq(q, k + 1, n)
<1>1. n \in Nat /\ DOMAIN q = 1 .. n /\ k \in 1 .. n /\ \A j \in 1 .. n : q[j] \in S
  BY LenProperties, ElementOfSeq
<1> HIDE DEF n
<1>2. /\ u \in Seq(S) /\ Len(u) = k - 1 /\ \A j \in 1 .. k - 1 : u[j] = q[j]
  <2>1. \A j \in 1 .. k - 1 : q[j] \in S
    BY <1>1
  <2> QED
    BY <2>1, <1>1, SubSeqProperties
<1>3. /\ v \in Seq(S) /\ Len(v) = n - k /\ \A j \in 1 .. n - k : v[j] = q[k + j]
  <2>1. \A j \in k + 1 .. n : q[j] \in S
    BY <1>1
  <2> QED
    BY <2>1, <1>1, SubSeqProperties
<1> HIDE DEF u, v
<1>4. p = u \o v
  BY DEF RemoveAt, u, v, n
<1>5. /\ p \in Seq(S) /\ Len(p) = n - 1 /\ DOMAIN p = 1 .. n - 1
      /\ \A j \in 1 .. n - 1 : p[j] = IF j <= k - 1 THEN u[j] ELSE v[j - (k - 1)]
  <2>1. /\ p \in Seq(S) /\ Len(p) = Len(u) + Len(v)
        /\ \A j \in 1 .. Len(u) + Len(v) : p[j] = IF j <= Len(u) THEN u[j] ELSE v[j - Len(u)]
    <3>1. u \in Seq(S) /\ v \in Seq(S)
      BY <1>2, <1>3
    <3>2. /\ u \o v \in Seq(S) /\ Len(u \o v) = Len(u) + Len(v)
          /\ \A j \in 1 .. Len(u) + Len(v) :
                (u \o v)[j] = IF j <= Len(u) THEN u[j] ELSE v[j - Len(u)]
      BY <3>1, ConcatProperties, Zenon
    <3> QED
      BY <3>2, <1>4, Zenon
  <2>2. Len(u) + Len(v) = n - 1
    BY <1>1, <1>2, <1>3
  <2>3. DOMAIN p = 1 .. Len(p)
    BY <2>1, LenProperties
  <2> QED
    BY <2>1, <2>2, <2>3, <1>2
<1>6. ASSUME NEW j \in 1 .. n - 1 PROVE p[j] = IF j < k THEN q[j] ELSE q[j + 1]
  <2>1. CASE j < k
    <3>1. j \in 1 .. k - 1 /\ j <= k - 1
      BY <2>1, <1>1
    <3> QED
      BY <2>1, <3>1, <1>2, <1>5
  <2>2. CASE ~(j < k)
    <3>1. j - (k - 1) \in 1 .. n - k /\ ~(j <= k - 1) /\ k + (j - (k - 1)) = j + 1
      BY <2>2, <1>1
    <3> QED
      BY <2>2, <3>1, <1>3, <1>5
  <2> QED
    BY <2>1, <2>2
<1> QED
  BY <1>1, <1>5, <1>6

\* The lists hold the blocks of S, each once and in the bucket of its length.
ListsHold(lists, S, h) ==
    /\ lists \in [Buckets -> Seq(Addr)]
    /\ \A i \in Buckets : \A k \in DOMAIN lists[i] :
          lists[i][k] \in S /\ FindFreeListIndex(ObjectLength(h, lists[i][k])) = i
    /\ \A a \in S : \E k \in DOMAIN lists[FindFreeListIndex(ObjectLength(h, a))] :
          lists[FindFreeListIndex(ObjectLength(h, a))][k] = a
    /\ \A i \in Buckets : IsInjective(lists[i])

\* They depend on the lengths of the blocks only.
LEMMA ListsSame ==
    ASSUME NEW lists, NEW S, NEW h, NEW g, ListsHold(lists, S, h),
           \A a \in S : g.word[a] = h.word[a]
    PROVE  ListsHold(lists, S, g)
<1>1. \A a \in S : ObjectLength(g, a) = ObjectLength(h, a)
  BY DEF ObjectLength
<1> QED
  BY <1>1 DEF ListsHold

\* free_block: one more block.
LEMMA ListsPush ==
    ASSUME NEW lists, NEW S, S \subseteq Addr, NEW h \in Heap, ListsHold(lists, S, h),
           NEW a \in Addr, a \notin S
    PROVE  ListsHold(FreeBlock(h, lists, a), S \cup {a}, h)
<1> DEFINE B(x) == FindFreeListIndex(ObjectLength(h, x))
           b == B(a)
           q == lists[b]
           p == <<a>> \o q
           new == FreeBlock(h, lists, a)
<1>1. b \in Buckets
  BY BucketOrder, WordTypes
<1>2. /\ lists \in [Buckets -> Seq(Addr)]
      /\ \A i \in Buckets : \A k \in DOMAIN lists[i] : lists[i][k] \in S /\ B(lists[i][k]) = i
      /\ \A x \in S : \E k \in DOMAIN lists[B(x)] : lists[B(x)][k] = x
      /\ \A i \in Buckets : IsInjective(lists[i])
  BY DEF ListsHold
<1>3. new = [lists EXCEPT ![b] = p]
  BY DEF FreeBlock
<1> HIDE DEF B, b, new
<1>4. q \in Seq(Addr)
  BY <1>1, <1>2
<1>5. /\ p \in Seq(Addr) /\ Len(p) \in Nat /\ Len(q) \in Nat
      /\ DOMAIN p = 1 .. Len(p) /\ DOMAIN q = 1 .. Len(q) /\ Len(p) = Len(q) + 1
      /\ p[1] = a
      /\ \A i \in DOMAIN q : i + 1 \in DOMAIN p /\ p[i + 1] = q[i]
      /\ \A i \in DOMAIN p : i = 1 \/ (i - 1 \in DOMAIN q /\ p[i] = q[i - 1])
  BY <1>4, ConsEffect
<1> HIDE DEF p
<1>6. new \in [Buckets -> Seq(Addr)] /\ new[b] = p /\ \A i \in Buckets \ {b} : new[i] = lists[i]
  BY <1>1, <1>2, <1>3, <1>5
<1>7. \A i \in Buckets : \A k \in DOMAIN new[i] : new[i][k] \in S \cup {a} /\ B(new[i][k]) = i
  <2> SUFFICES ASSUME NEW i \in Buckets, NEW k \in DOMAIN new[i]
               PROVE  new[i][k] \in S \cup {a} /\ B(new[i][k]) = i
    OBVIOUS
  <2>1. CASE i # b
    BY <2>1, <1>2, <1>6
  <2>2. CASE i = b /\ k = 1
    BY <2>2, <1>5, <1>6 DEF b
  <2>3. CASE i = b /\ k # 1
    <3>1. k - 1 \in DOMAIN q /\ p[k] = q[k - 1]
      BY <2>3, <1>5, <1>6
    <3> QED
      BY <2>3, <3>1, <1>1, <1>2, <1>6
  <2> QED
    BY <2>1, <2>2, <2>3
<1>8. \A x \in S \cup {a} : \E k \in DOMAIN new[B(x)] : new[B(x)][k] = x
  <2> SUFFICES ASSUME NEW x \in S \cup {a} PROVE \E k \in DOMAIN new[B(x)] : new[B(x)][k] = x
    OBVIOUS
  <2>1. CASE x = a
    <3>1. 1 \in DOMAIN p
      BY <1>5
    <3> QED
      BY <2>1, <3>1, <1>5, <1>6 DEF b
  <2>2. CASE x \in S
    <3>1. PICK k \in DOMAIN lists[B(x)] : lists[B(x)][k] = x
      BY <2>2, <1>2
    <3>2. CASE B(x) = b
      BY <3>1, <3>2, <1>5, <1>6
    <3>3. CASE B(x) # b
      <4>1. B(x) \in Buckets
        BY <2>2, BucketOrder, WordTypes DEF B
      <4> QED
        BY <3>1, <3>3, <4>1, <1>6
    <3> QED
      BY <3>2, <3>3
  <2> QED
    BY <2>1, <2>2
<1>9. \A i \in Buckets : IsInjective(new[i])
  <2>1. IsInjective(p)
    <3> SUFFICES ASSUME NEW j \in DOMAIN p, NEW k \in DOMAIN p, p[j] = p[k] PROVE j = k
      BY DEF IsInjective
    <3>1. \A i \in DOMAIN q : q[i] # a
      BY <1>1, <1>2
    <3>2. CASE j = 1 \/ k = 1
      BY <3>1, <3>2, <1>5
    <3>3. CASE j # 1 /\ k # 1
      <4>1. j - 1 \in DOMAIN q /\ k - 1 \in DOMAIN q /\ q[j - 1] = q[k - 1]
        BY <3>3, <1>5
      <4>2. j - 1 = k - 1
        BY <4>1, <1>1, <1>2 DEF IsInjective
      <4> QED
        BY <4>2, <1>5
    <3> QED
      BY <3>2, <3>3
  <2> QED
    BY <2>1, <1>2, <1>6
<1> QED
  BY <1>6, <1>7, <1>8, <1>9 DEF ListsHold, B, new

\* A block leaves its list.
LEMMA ListsTake ==
    ASSUME NEW lists, NEW S, NEW h, ListsHold(lists, S, h),
           NEW b \in Buckets, NEW n \in DOMAIN lists[b]
    PROVE  ListsHold([lists EXCEPT ![b] = RemoveAt(@, n)], S \ {lists[b][n]}, h)
<1> DEFINE B(x) == FindFreeListIndex(ObjectLength(h, x))
           q == lists[b]
           p == RemoveAt(q, n)
           a == q[n]
           new == [lists EXCEPT ![b] = RemoveAt(@, n)]
<1>1. /\ lists \in [Buckets -> Seq(Addr)]
      /\ \A i \in Buckets : \A k \in DOMAIN lists[i] : lists[i][k] \in S /\ B(lists[i][k]) = i
      /\ \A x \in S : \E k \in DOMAIN lists[B(x)] : lists[B(x)][k] = x
      /\ \A i \in Buckets : \A j, k \in DOMAIN lists[i] : lists[i][j] = lists[i][k] => j = k
  BY DEF ListsHold, IsInjective
<1>2. q \in Seq(Addr) /\ DOMAIN q \subseteq Nat /\ n \in DOMAIN q
  BY <1>1, LenProperties
<1>3. new = [lists EXCEPT ![b] = p]
  BY <1>1
<1> HIDE DEF B, new
<1>4. /\ p \in Seq(Addr)
      /\ \A j \in DOMAIN p : \/ j < n /\ j \in DOMAIN q /\ p[j] = q[j]
                             \/ j >= n /\ j + 1 \in DOMAIN q /\ p[j] = q[j + 1]
      /\ \A j \in DOMAIN q : \/ j < n /\ j \in DOMAIN p /\ p[j] = q[j]
                             \/ j = n
                             \/ j > n /\ j - 1 \in DOMAIN p /\ p[j - 1] = q[j]
  BY <1>2, RemoveAtEffect
<1>5. DOMAIN p \subseteq Nat
  BY <1>4, LenProperties
<1> HIDE DEF p
<1>6. new \in [Buckets -> Seq(Addr)] /\ new[b] = p /\ \A i \in Buckets \ {b} : new[i] = lists[i]
  BY <1>1, <1>3, <1>4
<1>7. \A i \in Buckets : \A k \in DOMAIN new[i] : new[i][k] \in S \ {a} /\ B(new[i][k]) = i
  <2> SUFFICES ASSUME NEW i \in Buckets, NEW k \in DOMAIN new[i]
               PROVE  new[i][k] \in S \ {a} /\ B(new[i][k]) = i
    OBVIOUS
  <2>1. CASE i # b
    BY <2>1, <1>1, <1>6
  <2>2. CASE i = b
    <3>1. PICK j \in DOMAIN q : p[k] = q[j] /\ j # n
      BY <2>2, <1>2, <1>4, <1>5, <1>6
    <3> QED
      BY <2>2, <3>1, <1>1, <1>6
  <2> QED
    BY <2>1, <2>2
<1>8. \A x \in S \ {a} : \E k \in DOMAIN new[B(x)] : new[B(x)][k] = x
  <2> SUFFICES ASSUME NEW x \in S, x # a PROVE \E k \in DOMAIN new[B(x)] : new[B(x)][k] = x
    OBVIOUS
  <2>1. PICK k \in DOMAIN lists[B(x)] : lists[B(x)][k] = x
    BY <1>1
  <2>2. CASE B(x) = b
    BY <2>1, <2>2, <1>4, <1>6
  <2>3. CASE B(x) # b
    BY <2>1, <2>3, <1>3, <1>1
  <2> QED
    BY <2>2, <2>3
<1>9. \A i \in Buckets : IsInjective(new[i])
  <2>1. ASSUME NEW j \in DOMAIN p, NEW k \in DOMAIN p, p[j] = p[k] PROVE j = k
    <3> DEFINE J == IF j < n THEN j ELSE j + 1
               K == IF k < n THEN k ELSE k + 1
    <3>1. J \in DOMAIN q /\ K \in DOMAIN q /\ q[J] = p[j] /\ q[K] = p[k]
      BY <1>2, <1>4, <1>5
    <3>2. J = K
      BY <3>1, <2>1, <1>1
    <3> QED
      BY <3>2, <1>2, <1>5
  <2> QED
    BY <2>1, <1>1, <1>6 DEF IsInjective
<1> QED
  BY <1>6, <1>7, <1>8, <1>9 DEF ListsHold, B, new

\* find_free_block: nothing fits, or a block that does leaves its list.
LEMMA FindEffect ==
    ASSUME NEW lists, NEW S, S \subseteq Addr, NEW h \in Heap, ListsHold(lists, S, h),
           NEW length \in Nat, NEW f, f = FindFreeBlock(h, lists, length)
    PROVE  \/ /\ f.ref = SENTINEL /\ f.lists = lists
              /\ \A a \in S : ObjectLength(h, a) < length
           \/ /\ f.ref \in S /\ f.ref # SENTINEL /\ ObjectLength(h, f.ref) >= length
              /\ ListsHold(f.lists, S \ {f.ref}, h)
<1> DEFINE Enough(i) == {k \in DOMAIN lists[i] : ObjectLength(h, lists[i][k]) >= length}
           buckets == {i \in Searched(length) : Enough(i) # {}}
           b == Min(buckets)
           n == Min(Enough(b))
<1>1. f = IF buckets = {}
          THEN [ref |-> SENTINEL, lists |-> lists]
          ELSE [ref |-> lists[b][n], lists |-> [lists EXCEPT ![b] = RemoveAt(@, n)]]
  BY DEF FindFreeBlock
<1>2. /\ lists \in [Buckets -> Seq(Addr)]
      /\ \A i \in Buckets : \A k \in DOMAIN lists[i] : lists[i][k] \in S
      /\ \A a \in S : \E k \in DOMAIN lists[FindFreeListIndex(ObjectLength(h, a))] :
            lists[FindFreeListIndex(ObjectLength(h, a))][k] = a
  BY DEF ListsHold
<1>3. buckets \subseteq Buckets /\ Buckets \subseteq Nat
  <2>1. Len(SizeClasses) \in Nat
    BY SizeAssumption, LenProperties DEF SizeAssumption
  <2> QED
    BY <2>1 DEF Searched, Buckets
<1>4. CASE buckets = {}
  <2>1. f.ref = SENTINEL /\ f.lists = lists
    BY <1>1, <1>4
  <2>2. ASSUME NEW a \in S, ObjectLength(h, a) >= length PROVE FALSE
    <3> DEFINE i == FindFreeListIndex(ObjectLength(h, a))
    <3>1. ObjectLength(h, a) \in Nat
      BY WordTypes
    <3>2. i \in Searched(length)
      BY <3>1, <2>2, BucketOrder DEF Searched
    <3>3. PICK k \in DOMAIN lists[i] : lists[i][k] = a
      BY <1>2
    <3>4. k \in Enough(i)
      BY <3>3, <2>2
    <3> QED
      BY <3>2, <3>4, <1>4
  <2>3. \A a \in S : ObjectLength(h, a) \in Nat
    BY WordTypes
  <2> QED
    BY <2>1, <2>2, <2>3
<1>5. CASE buckets # {}
  <2>1. b \in buckets
    BY <1>3, <1>5, MinExists
  <2>2. b \in Buckets /\ Enough(b) # {} /\ Enough(b) \subseteq Nat
    <3>1. b \in Buckets /\ Enough(b) # {}
      BY <2>1, <1>3
    <3>2. \A i \in Buckets : lists[i] \in Seq(Addr)
      BY <1>2
    <3>3. \A i \in Buckets : DOMAIN lists[i] \subseteq Nat
      BY <3>2, LenProperties
    <3>4. DOMAIN lists[b] \subseteq Nat
      BY <3>1, <3>3
    <3> QED
      BY <3>1, <3>4
  <2> HIDE DEF b
  <2>3. n \in Enough(b)
    BY <2>2, MinExists
  <2> HIDE DEF n
  <2>4. n \in DOMAIN lists[b] /\ ObjectLength(h, lists[b][n]) >= length
    BY <2>3
  <2>5. f.ref = lists[b][n] /\ f.lists = [lists EXCEPT ![b] = RemoveAt(@, n)]
    BY <1>1, <1>5 DEF b, n
  <2>6. lists[b][n] \in S /\ lists[b][n] # SENTINEL
    BY <2>2, <2>4, <1>2, Numbers
  <2>7. ListsHold(f.lists, S \ {f.ref}, h)
    BY <2>2, <2>4, <2>5, ListsTake
  <2> QED
    BY <2>4, <2>5, <2>6, <2>7
<1> QED
  BY <1>4, <1>5

\* The words on the lists can be counted.
LEMMA CountType ==
    ASSUME NEW lists, lists \in [Buckets -> Seq(Addr)], NEW h
    PROVE  CountFreeListWords(h, lists) \in Nat
<1> DEFINE Words(i) == {w \in (DOMAIN lists[i]) \X (1 .. HeapEnd) :
                           w[2] <= ObjectWords(h, lists[i][w[1]])}
           Named == [i \in Buckets |-> {i} \X Words(i)]
           T == {{i} \X Words(i) : i \in Buckets}
<1>1. IsFiniteSet(Buckets)
  <2>1. Len(SizeClasses) \in Nat
    BY SizeAssumption, LenProperties DEF SizeAssumption
  <2>2. 1 \in Int /\ Len(SizeClasses) + 1 \in Int
    BY <2>1
  <2> QED
    BY <2>2, FS_Interval DEF Buckets
<1>2. ASSUME NEW i \in Buckets PROVE IsFiniteSet({i} \X Words(i))
  <2>1. IsFiniteSet(DOMAIN lists[i])
    <3>1. lists[i] \in Seq(Addr)
      OBVIOUS
    <3>2. DOMAIN lists[i] = 1 .. Len(lists[i]) /\ Len(lists[i]) \in Nat
      BY <3>1, LenProperties
    <3>3. 1 \in Int /\ Len(lists[i]) \in Int
      BY <3>2
    <3>4. IsFiniteSet(1 .. Len(lists[i]))
      BY <3>3, FS_Interval
    <3> QED
      BY <3>2, <3>4
  <2>2. IsFiniteSet(1 .. HeapEnd)
    <3>1. 1 \in Int /\ HeapEnd \in Int
      BY Numbers
    <3> QED
      BY <3>1, FS_Interval
  <2>3. IsFiniteSet((DOMAIN lists[i]) \X (1 .. HeapEnd))
    BY <2>1, <2>2, FS_Product
  <2>4. Words(i) \in SUBSET ((DOMAIN lists[i]) \X (1 .. HeapEnd))
    OBVIOUS
  <2>5. IsFiniteSet(Words(i))
    BY <2>3, <2>4, FS_Subset
  <2> HIDE DEF Words
  <2>6. IsFiniteSet({i})
    BY FS_Singleton
  <2> QED
    BY <2>5, <2>6, FS_Product
<1> HIDE DEF Words
<1>3. IsFiniteSet(T)
  <2>1. Named \in Surjection(Buckets, T)
    BY DEF Surjection
  <2> QED
    BY <2>1, <1>1, FS_Surjection
<1>4. \A x \in T : IsFiniteSet(x)
  BY <1>2
<1>5. IsFiniteSet(UNION T)
  BY <1>3, <1>4, FS_UNION
<1>6. CountFreeListWords(h, lists) = Cardinality(UNION T)
  BY DEF CountFreeListWords, Words
<1> QED
  BY <1>5, <1>6, FS_CardinalityType

-----------------------------------------------------------------------------
(* Allocation.                                                              *)

\* The free block b of h became an array in g and, when the rest can hold a
\* header, one free block rem after it.
BlockTaken(h, g, b, rem) ==
    LET w == h.watermark
        F == FreeChunks(h, w)
        G == FreeChunks(g, w)
        e == b + ObjectWords(h, b)
    IN  /\ g.watermark = w /\ b \in Allocated(g, Base, w) /\ ~g.tag[b].marked
        /\ \A x \in Addr : x < b \/ x >= e => g.word[x] = h.word[x] /\ g.tag[x] = h.tag[x]
        /\ Headers(g, Base, w) \subseteq Headers(h, Base, w) \cup {rem}
        /\ \/ rem = SENTINEL /\ G = F \ {b} /\ b + ObjectWords(g, b) = e
           \/ /\ rem \in Addr \ F /\ rem # SENTINEL /\ G = (F \ {b}) \cup {rem}
              /\ b < rem /\ ~g.tag[rem].marked
              /\ b + ObjectWords(g, b) = rem /\ rem + ObjectWords(g, rem) = e

\* gc_host_split_block.
LEMMA SplitEffect ==
    ASSUME NEW h, NEW rs, WellFormed(h, rs, Base, h.watermark),
           NEW b \in FreeChunks(h, h.watermark),
           NEW length \in Nat, ObjectLength(h, b) >= length,
           NEW is_ref \in BOOLEAN, NEW id \in Ids \cup {NoId},
           NEW s, s = SplitBlock(h, b, length, is_ref, id)
    PROVE  /\ WellFormed(s.heap, rs, Base, h.watermark) /\ BlockTaken(h, s.heap, b, s.rem)
           /\ Zeroed(s.heap, b, length, ArrayTag(is_ref, id))
<1> DEFINE w == h.watermark
           g == s.heap
           F == FreeChunks(h, w)
           e == b + ObjectWords(h, b)
           tag == ArrayTag(is_ref, id)
           H == Headers(h, Base, w)
<1>1. /\ h \in Heap /\ w \in Nat /\ Base <= w /\ w <= HeapEnd /\ Tiled(h, Base, w)
  BY WellFormedTypes DEF WellFormed
<1>2. /\ b \in H /\ h.tag[b].free /\ b \in Addr /\ b \in Nat /\ b >= 2
  BY HeadersWithin DEF FreeChunks
<1>3. /\ e \in H \cup {w} /\ e <= w /\ e \in Nat /\ ObjectWords(h, b) = 2 + h.word[b]
      /\ h.word[b] \in Word /\ h.word[b] \in Nat /\ ObjectLength(h, b) = h.word[b]
      /\ \A x \in H : ~(b < x /\ x < e)
  BY <1>1, <1>2, TiledWithin, WordTypes DEF Tiled
<1>4. tag \in Tag /\ tag.head /\ ~tag.free /\ ~tag.marked
  BY TagTypes DEF ArrayTag
<1>5. length \in Word
  BY <1>3, Numbers DEF Word
<1>6. \A x \in Addr : x \in Nat
  BY Numbers
<1>7. \A x \in F : x \in H
  BY DEF FreeChunks
<1> HIDE DEF tag, H, g, F
<1>8. CASE ObjectWords(h, b) - (Header + length) < Header
  <2>1. s.rem = SENTINEL /\ g = InitObject(h, b, h.word[b], tag)
    BY <1>3, <1>8 DEF SplitBlock, tag, g
  <2> HIDE DEF w, e
  <2>2. /\ g \in Heap /\ g.watermark = w /\ g.tag[b] = tag /\ b + ObjectWords(g, b) = e
        /\ Cleared(g, b, e) /\ Untouched(h, g, b, e)
        /\ Tiled(g, Base, w)
        /\ \A x : x \in Headers(g, Base, w) <=> x = b \/ (x \in H /\ ~(b <= x /\ x < e))
    <3>1. /\ h \in Heap /\ Base \in Nat /\ w \in Nat /\ Base <= w /\ w <= HeapEnd
          /\ Tiled(h, Base, w)
          /\ b \in Headers(h, Base, w) /\ e \in Headers(h, Base, w) \cup {w}
          /\ h.word[b] \in Word /\ b + Header + h.word[b] = e /\ tag \in Tag /\ tag.head
          /\ g = InitObject(h, b, h.word[b], tag) /\ h.watermark = w
      BY <1>1, <1>2, <1>3, <1>4, <2>1 DEF H, e, w
    <3> QED
      BY ONLY <3>1, OverlayOne DEF H
  <2>4. /\ \A x \in Addr : x > b /\ x < e => g.word[x] = 0 /\ g.tag[x] = NoTag
        /\ \A x \in Addr : x < b \/ x >= e => g.word[x] = h.word[x] /\ g.tag[x] = h.tag[x]
    BY <2>2 DEF Cleared, Untouched
  <2>6. \A x \in H : x = b \/ x < b \/ x >= e
    BY <1>2, <1>3, <1>6, HeadersWithin DEF H
  <2>7. /\ \A x \in H : x # b => g.tag[x] = h.tag[x]
        /\ Headers(g, Base, w) = H
    <3>1. \A x \in H : x \in Addr /\ x \in Nat
      BY HeadersWithin DEF H
    <3>2. \A x \in H : x # b => g.tag[x] = h.tag[x]
      BY <3>1, <2>4, <2>6
    <3>3. ASSUME NEW x PROVE x \in Headers(g, Base, w) <=> x \in H
      <4>1. ASSUME x \in H, x # b, b <= x PROVE ~(x < e)
        <5>1. b < x
          BY <4>1, <3>1, <1>2
        <5> QED
          BY <4>1, <5>1, <1>3
      <4> QED
        BY <4>1, <2>2, <1>2
    <3>4. Headers(g, Base, w) = H
      BY <3>3
    <3> QED
      BY <3>2, <3>4
  <2>8. /\ Allocated(g, Base, w) = Allocated(h, Base, w) \cup {b}
        /\ FreeChunks(g, w) = F \ {b}
    <3>1. ~g.tag[b].free /\ \A x \in H : x # b => g.tag[x].free = h.tag[x].free
      BY <2>2, <2>7, <1>4
    <3>2. /\ Allocated(g, Base, w) = {x \in H : ~g.tag[x].free}
          /\ FreeChunks(g, w) = {x \in H : g.tag[x].free}
      BY <2>7 DEF Allocated, FreeChunks
    <3>3. /\ Allocated(h, Base, w) = {x \in H : ~h.tag[x].free}
          /\ F = {x \in H : h.tag[x].free}
      BY DEF Allocated, FreeChunks, H, w, F
    <3> QED
      BY ONLY <3>1, <3>2, <3>3, <1>2
  <2>9. ASSUME NEW t \in RefSlots(g, b) PROVE g.word[t] = GC_NULL
    <3>1. b \in Headers(g, Base, w)
      BY <2>7, <1>2
    <3>2. t \in Addr /\ t > b /\ t < b + ObjectWords(g, b)
      BY <3>1, <2>2, <1>1, SlotRange
    <3> QED
      BY <3>2, <2>2, <2>4
  <2>10. WellFormed(g, rs, Base, w)
    BY <1>2, <2>2, <2>4, <2>8, <2>9, ReformatKeeps DEF H, e, w
  <2>11. Zeroed(g, b, length, tag)
    <3>1. g.word[b] = h.word[b] /\ h.word[b] \in {length, length + 1} /\ e <= HeapEnd
      <4>1. b \in Headers(g, Base, w) /\ g \in Heap /\ ObjectWords(g, b) = 2 + g.word[b]
        BY <2>2, <2>7, <1>2 DEF ObjectWords
      <4>2. g.word[b] \in Nat
        BY <4>1, <1>2, WordTypes
      <4>3. e = b + 2 + h.word[b]
        BY <1>2, <1>3 DEF e
      <4> QED
        BY <4>1, <4>2, <4>3, <2>2, <1>1, <1>2, <1>3, <1>8, Numbers
    <3> QED
      BY <3>1, <2>2, <2>4, <1>2, <1>3 DEF Zeroed, e
  <2> QED
    BY <2>1, <2>2, <2>4, <2>7, <2>8, <2>10, <2>11, <1>2, <1>4 DEF e, w, H, g, F, tag, BlockTaken
<1>9. CASE ~(ObjectWords(h, b) - (Header + length) < Header)
  <2> DEFINE c == b + Header + length
  <2>1. s.rem = c /\ g = MakeFreeBlock(InitObject(h, b, length, tag), c, e)
    BY <1>9 DEF SplitBlock, tag, g
  <2>2. c \in Nat /\ b < c /\ c + Header <= e /\ e <= HeapEnd /\ c \in Addr /\ c # SENTINEL
    <3>1. c \in Nat /\ b < c /\ c + 2 <= e /\ e <= HeapEnd
      BY <1>1, <1>2, <1>3, <1>9, Numbers
    <3>2. c \in Addr
      BY <3>1, <1>3, Numbers DEF Addr
    <3> QED
      BY <3>1, <3>2, Numbers
  <2> HIDE DEF c, e, w
  <2>3. /\ g \in Heap /\ g.watermark = w /\ g.tag[b] = tag /\ b + ObjectWords(g, b) = c
        /\ g.tag[c] = FreeTag /\ c + ObjectWords(g, c) = e
        /\ Cleared(g, b, c) /\ Cleared(g, c, e) /\ Untouched(h, g, b, e)
        /\ Tiled(g, Base, w)
        /\ \A x : x \in Headers(g, Base, w) <=>
              x = b \/ x = c \/ (x \in H /\ ~(b <= x /\ x < e))
    <3>1. /\ h \in Heap /\ Base \in Nat /\ w \in Nat /\ Base <= w /\ w <= HeapEnd
          /\ Tiled(h, Base, w)
          /\ b \in Headers(h, Base, w) /\ e \in Headers(h, Base, w) \cup {w}
          /\ length \in Word /\ c = b + Header + length /\ c + Header <= e
          /\ tag \in Tag /\ tag.head
          /\ g = MakeFreeBlock(InitObject(h, b, length, tag), c, e) /\ h.watermark = w
      BY <1>1, <1>2, <1>3, <1>4, <1>5, <2>1, <2>2 DEF H, c, e, w
    <3> QED
      BY ONLY <3>1, OverlayTwo DEF H
  <2>6. ASSUME NEW x \in Addr, x > b, x < e, x # c
        PROVE  g.word[x] = 0 /\ g.tag[x] = NoTag
    <3>1. x \in Nat /\ (x < c \/ x > c)
      BY <2>6, <2>2, <1>6
    <3> QED
      BY <3>1, <2>6, <2>3 DEF Cleared
  <2>7. \A x \in Addr : x < b \/ x >= e => g.word[x] = h.word[x] /\ g.tag[x] = h.tag[x]
    BY <2>3 DEF Untouched
  <2>10. \A x \in H : x = b \/ x < b \/ x >= e
    BY <1>2, <1>3, <1>6, HeadersWithin DEF H
  <2>11. c \notin H
    BY <2>2, <1>2, <1>3
  <2>12. /\ \A x \in H : x # b => g.tag[x] = h.tag[x]
         /\ Headers(g, Base, w) = H \cup {c}
    <3>1. \A x \in H : x \in Addr /\ x \in Nat
      BY HeadersWithin DEF H
    <3>2. \A x \in H : x # b => g.tag[x] = h.tag[x]
      BY <3>1, <2>7, <2>10
    <3>3. ASSUME NEW x PROVE x \in Headers(g, Base, w) <=> x \in H \cup {c}
      <4>1. ASSUME x \in H, x # b, b <= x PROVE ~(x < e)
        <5>1. b < x
          BY <4>1, <3>1, <1>2
        <5> QED
          BY <4>1, <5>1, <1>3
      <4> QED
        BY <4>1, <2>3, <1>2
    <3>4. Headers(g, Base, w) = H \cup {c}
      BY <3>3
    <3> QED
      BY <3>2, <3>4
  <2>13. /\ Allocated(g, Base, w) = Allocated(h, Base, w) \cup {b}
         /\ FreeChunks(g, w) = (F \ {b}) \cup {c}
    <3>1. g.tag[c].free /\ ~g.tag[b].free
      BY <2>3, <1>4 DEF FreeTag
    <3> QED
      <4>1. \A x \in H : x # b => g.tag[x].free = h.tag[x].free
        BY <2>12
      <4>2. /\ Allocated(g, Base, w) = {x \in H \cup {c} : ~g.tag[x].free}
            /\ FreeChunks(g, w) = {x \in H \cup {c} : g.tag[x].free}
        BY <2>12 DEF Allocated, FreeChunks
      <4>3. /\ Allocated(h, Base, w) = {x \in H : ~h.tag[x].free}
            /\ F = {x \in H : h.tag[x].free}
        BY DEF Allocated, FreeChunks, H, w, F
      <4> QED
        BY <3>1, <2>11, <4>1, <4>2, <4>3, <1>2
  <2>14. ASSUME NEW t \in RefSlots(g, b) PROVE g.word[t] = GC_NULL
    <3>1. b \in Headers(g, Base, w)
      BY <2>3
    <3>2. /\ g \in Heap /\ Base \in Nat /\ w \in Nat /\ w <= HeapEnd /\ Tiled(g, Base, w)
      BY <2>3, <1>1 DEF w
    <3>4. t \in Addr /\ t \in Nat /\ b \in Nat /\ t >= b + Header /\ t < b + ObjectWords(g, b)
      BY <3>1, <3>2, SlotRange
    <3>3. t < c
      BY <3>4, <2>3
    <3> QED
      BY <3>4, <3>3, <2>3, <1>2 DEF Cleared
  <2>15. WellFormed(g, rs, Base, w)
    BY <1>2, <2>3, <2>7, <2>13, <2>14, ReformatKeeps DEF H, e, w
  <2>16. c \notin F /\ ~g.tag[c].marked
    BY <2>3, <2>11, <1>7 DEF FreeTag
  <2>17. b \in Allocated(g, Base, w) /\ ~g.tag[b].marked
    BY <2>3, <2>13, <1>2, <1>4
  <2>18. Zeroed(g, b, length, tag)
    <3>1. g.word[b] = length
      <4>1. g \in Heap /\ ObjectWords(g, b) = 2 + g.word[b]
        BY <2>3 DEF ObjectWords
      <4>2. g.word[b] \in Nat
        BY <4>1, <1>2, WordTypes
      <4> QED
        BY <4>1, <4>2, <2>3, <1>2 DEF c
    <3>2. c = b + 2 + length /\ c <= HeapEnd
      BY <2>2, <1>3, Numbers DEF c
    <3>3. g.tag[b] = tag /\ b + Header + g.word[b] = c
      BY <3>1, <3>2, <2>3, <1>3
    <3>4. b \in Addr \ {GC_NULL}
      BY <1>2, <1>3, Numbers
    <3>5. ASSUME NEW x \in Addr, x > b, x < c PROVE g.word[x] = 0
      BY <3>5, <2>3 DEF Cleared
    <3> QED
      BY <3>1, <3>2, <3>3, <3>4, <3>5 DEF Zeroed
  <2> QED
    BY <2>1, <2>2, <2>3, <2>7, <2>12, <2>13, <2>15, <2>16, <2>17, <2>18
       DEF e, w, H, g, F, tag, BlockTaken
<1> QED
  BY <1>8, <1>9

\* What holds of the heap and the lists whenever no sweep is running.
Consistent(h, rs, lists) ==
    /\ WellFormed(h, rs, Base, h.watermark)
    /\ ~h.tag[GC_NULL].ref
    /\ ListsHold(lists, FreeChunks(h, h.watermark), h)
    /\ \A a \in FreeChunks(h, h.watermark) :
          a + ObjectWords(h, a) \notin FreeChunks(h, h.watermark)

\* An array is bump-allocated.
LEMMA BumpKeeps ==
    ASSUME NEW h, NEW rs, NEW lists, Consistent(h, rs, lists), NoMarks(h),
           NEW length \in Nat, NEW is_ref \in BOOLEAN, NEW id \in Ids \cup {NoId},
           NEW a, a = RawAlloc(h, length, is_ref, id), a.ref # SENTINEL
    PROVE  /\ Consistent(a.heap, rs, lists) /\ NoMarks(a.heap)
           /\ a.ref \in Allocated(a.heap, Base, a.heap.watermark)
<1>0. /\ WellFormed(a.heap, rs, Base, a.heap.watermark)
      /\ a.ref \in Allocated(a.heap, Base, a.heap.watermark)
      /\ OneMore(h, a.heap, Base, a.ref)
  <2>1. WellFormed(h, rs, Base, h.watermark) /\ Base <= h.watermark
    BY DEF Consistent, WellFormed
  <2> QED
    BY <2>1, AppendKeeps
<1> DEFINE w == h.watermark
           g == a.heap
           H == Headers(h, Base, w)
           F == FreeChunks(h, w)
           new == a.ref
<1>1. /\ WellFormed(h, rs, Base, w) /\ ~h.tag[GC_NULL].ref /\ ListsHold(lists, F, h)
      /\ \A x \in F : x + ObjectWords(h, x) \notin F
      /\ \A x \in H : ~h.tag[x].marked
  BY DEF Consistent, NoMarks
<1>2. h \in Heap /\ w \in Nat /\ Base <= w /\ w <= HeapEnd
  BY <1>1, WellFormedTypes
<1>3. /\ WellFormed(g, rs, Base, g.watermark)
      /\ new \in Allocated(g, Base, g.watermark)
      /\ Headers(g, Base, g.watermark) = H \cup {new}
  BY <1>0 DEF OneMore

<1>4. /\ new = w /\ g.tag[new] = ArrayTag(is_ref, id)
      /\ \A x \in Addr : x < new => g.word[x] = h.word[x] /\ g.tag[x] = h.tag[x]
  <2>1. /\ h \in Heap /\ h.watermark \in Base .. HeapEnd /\ length \in Nat
        /\ is_ref \in BOOLEAN /\ id \in Ids \cup {NoId}
        /\ a = RawAlloc(h, length, is_ref, id) /\ a.ref # SENTINEL
    BY <1>2, Numbers
  <2>2. /\ a.ref = h.watermark /\ a.heap.tag[a.ref] = ArrayTag(is_ref, id)
        /\ \A x \in Addr : x < a.ref \/ x >= a.heap.watermark =>
              a.heap.word[x] = h.word[x] /\ a.heap.tag[x] = h.tag[x]
    BY <2>1, RawAllocEffect
  <2> QED
    BY <2>2
<1>5. /\ \A x \in H : x \in Addr /\ x < new /\ x # new
      /\ GC_NULL \in Addr /\ GC_NULL < new
  BY <1>1, <1>2, <1>4, HeadersWithin, WellFormedTypes
<1>6. ~g.tag[new].free /\ ~g.tag[new].marked
  BY <1>4 DEF ArrayTag
<1> HIDE DEF g, w, H, new
<1>7. \A x \in H : g.word[x] = h.word[x] /\ g.tag[x] = h.tag[x]
  BY <1>4, <1>5
<1>8. FreeChunks(g, g.watermark) = F
  <2>1. /\ FreeChunks(g, g.watermark) = {x \in H \cup {new} : g.tag[x].free}
        /\ F = {x \in H : h.tag[x].free}
    BY <1>3 DEF FreeChunks, H
  <2> QED
    BY <2>1, <1>6, <1>7
<1>9. \A x \in F : x \in H /\ ObjectWords(g, x) = ObjectWords(h, x) /\ g.word[x] = h.word[x]
  BY <1>7 DEF FreeChunks, H, ObjectWords
<1>10. ListsHold(lists, F, g)
  BY <1>1, <1>9, ListsSame
<1>11. ~g.tag[GC_NULL].ref
  BY <1>1, <1>4, <1>5
<1>12. NoMarks(g)
  BY <1>1, <1>3, <1>6, <1>7 DEF NoMarks
<1>13. \A x \in F : x + ObjectWords(g, x) \notin F
  BY <1>1, <1>9
<1>14. Consistent(g, rs, lists)
  BY <1>3, <1>8, <1>10, <1>11, <1>13 DEF Consistent
<1> QED
  BY <1>3, <1>12, <1>14 DEF g, new

\* An array is taken from the block b, which has left the lists.
LEMMA SplitKeeps ==
    ASSUME NEW h, NEW rs, NEW lists, Consistent(h, rs, lists), NoMarks(h),
           NEW b \in FreeChunks(h, h.watermark), NEW taken,
           ListsHold(taken, FreeChunks(h, h.watermark) \ {b}, h),
           NEW length \in Nat, ObjectLength(h, b) >= length,
           NEW is_ref \in BOOLEAN, NEW id \in Ids \cup {NoId},
           NEW s, s = SplitBlock(h, b, length, is_ref, id)
    PROVE  /\ Consistent(s.heap, rs, IF s.rem = SENTINEL THEN taken
                                     ELSE FreeBlock(s.heap, taken, s.rem))
           /\ NoMarks(s.heap)
           /\ b \in Allocated(s.heap, Base, s.heap.watermark)
<1>0. /\ WellFormed(s.heap, rs, Base, h.watermark) /\ BlockTaken(h, s.heap, b, s.rem)
      /\ Zeroed(s.heap, b, length, ArrayTag(is_ref, id))
  <2>1. WellFormed(h, rs, Base, h.watermark)
    BY DEF Consistent
  <2> QED
    BY <2>1, SplitEffect
<1> DEFINE w == h.watermark
           g == s.heap
           H == Headers(h, Base, w)
           F == FreeChunks(h, w)
           G == FreeChunks(g, w)
           e == b + ObjectWords(h, b)
<1>1. /\ WellFormed(h, rs, Base, w) /\ ~h.tag[GC_NULL].ref /\ ListsHold(taken, F \ {b}, h)
      /\ \A x \in F : x + ObjectWords(h, x) \notin F
      /\ \A x \in H : ~h.tag[x].marked
  BY DEF Consistent, NoMarks
<1>12. b \in F /\ b + ObjectWords(h, b) \notin F
  BY <1>1
<1>2. h \in Heap /\ w \in Nat /\ Base <= w /\ w <= HeapEnd /\ Tiled(h, Base, w)
  BY <1>1, WellFormedTypes DEF WellFormed
<1>3. /\ WellFormed(g, rs, Base, w) /\ g.watermark = w
      /\ b \in Allocated(g, Base, w) /\ ~g.tag[b].marked
      /\ \A x \in Addr : x < b \/ x >= e => g.word[x] = h.word[x] /\ g.tag[x] = h.tag[x]
      /\ Headers(g, Base, w) \subseteq H \cup {s.rem}
      /\ \/ s.rem = SENTINEL /\ G = F \ {b} /\ b + ObjectWords(g, b) = e
         \/ /\ s.rem \in Addr \ F /\ s.rem # SENTINEL
            /\ G = (F \ {b}) \cup {s.rem}
            /\ b < s.rem /\ ~g.tag[s.rem].marked
            /\ s.rem + ObjectWords(g, s.rem) = e
            /\ b + ObjectWords(g, b) = s.rem
  BY <1>0 DEF BlockTaken

<1>4. /\ b \in H /\ b \in Addr /\ b \in Nat /\ b >= 2 /\ F \subseteq H /\ F \subseteq Addr
      /\ e \in Nat /\ e <= w /\ b < e /\ \A x \in H : ~(b < x /\ x < e)
  <2>1. F \subseteq H /\ F \subseteq Addr
    BY DEF FreeChunks, Headers
  <2>2. /\ b \in H /\ b \in Addr /\ b \in Nat /\ b >= 2 /\ ObjectWords(h, b) \in Nat
        /\ ObjectWords(h, b) >= 2 /\ e <= w /\ \A x \in H : ~(b < x /\ x < e)
    BY <1>2, <2>1, TiledWithin
  <2> QED
    BY <2>1, <2>2
<1>5. \A x \in H : x \in Addr /\ x \in Nat /\ (x = b \/ x < b \/ x >= e)
  BY <1>4, HeadersWithin
<1> HIDE DEF g, w, H, F, G, e
<1>6. \A x \in H \ {b} : g.word[x] = h.word[x] /\ g.tag[x] = h.tag[x]
                         /\ ObjectWords(g, x) = ObjectWords(h, x)
  BY <1>3, <1>5 DEF ObjectWords
<1>7. \A x \in F \ {b} : g.word[x] = h.word[x] /\ ObjectWords(g, x) = ObjectWords(h, x)
                         /\ x + ObjectWords(g, x) \notin F
  BY <1>1, <1>4, <1>6
<1>8. ListsHold(taken, F \ {b}, g)
  BY <1>1, <1>7, ListsSame
<1>9. ~g.tag[GC_NULL].ref
  <2>1. GC_NULL \in Addr /\ GC_NULL < b
    BY <1>1, <1>4, WellFormedTypes
  <2> QED
    BY <2>1, <1>1, <1>3
<1>10. CASE s.rem = SENTINEL
  <2>1. G = F \ {b} /\ \A x \in G : x + ObjectWords(g, x) \notin G
    BY <1>3, <1>7, <1>10
  <2>2. Consistent(g, rs, taken)
    BY <2>1, <1>3, <1>8, <1>9 DEF Consistent, G
  <2>3. NoMarks(g)
    <3>1. ASSUME NEW x \in Headers(g, Base, w) PROVE ~g.tag[x].marked
      <4>1. x \in Addr /\ x # SENTINEL
        BY Numbers DEF Headers
      <4>2. x \in H
        BY <4>1, <1>3, <1>10
      <4> QED
        BY <4>2, <1>1, <1>3, <1>6
    <3> QED
      BY <3>1, <1>3 DEF NoMarks
  <2> QED
    BY <2>2, <2>3, <1>3, <1>10 DEF g
<1>11. CASE s.rem # SENTINEL
  <2> DEFINE c == s.rem
  <2>1. /\ c \in Addr /\ c \notin F /\ G = (F \ {b}) \cup {c} /\ b < c /\ ~g.tag[c].marked
        /\ c + ObjectWords(g, c) = e /\ c \in Nat
    BY <1>3, <1>11, Numbers
  <2>2. g \in Heap
    BY <1>3 DEF WellFormed
  <2>3. c < e
    BY <2>1, <2>2, <1>4, WordTypes
  <2>4. ListsHold(FreeBlock(g, taken, c), G, g)
    BY <2>1, <2>2, <1>4, <1>8, ListsPush
  <2>5. ASSUME NEW x \in G PROVE x + ObjectWords(g, x) \notin G
    <3>1. CASE x = c
      <4>1. e \notin F
        BY <1>12 DEF e
      <4> QED
        BY <3>1, <4>1, <2>1, <2>3
    <3>2. CASE x # c
      <4>1. x \in F \ {b} /\ x \in H
        BY <3>2, <2>1, <1>4
      <4>2. x + ObjectWords(h, x) \in H \cup {w}
        BY <4>1, <1>2 DEF Tiled, H
      <4>3. ObjectWords(g, x) = ObjectWords(h, x) /\ x + ObjectWords(h, x) \notin F
        BY <4>1, <1>1, <1>7
      <4>4. x + ObjectWords(h, x) # c
        BY <4>2, <2>1, <2>3, <1>2, <1>4, <1>5
      <4> QED
        BY <4>3, <4>4, <2>1
    <3> QED
      BY <3>1, <3>2
  <2>6. Consistent(g, rs, FreeBlock(g, taken, c))
    BY <2>4, <2>5, <1>3, <1>9 DEF Consistent, G
  <2>7. NoMarks(g)
    <3>1. ASSUME NEW x \in Headers(g, Base, w) PROVE ~g.tag[x].marked
      <4>1. x \in H \/ x = c
        BY <1>3
      <4> QED
        BY <4>1, <2>1, <1>1, <1>3, <1>6
    <3> QED
      BY <3>1, <1>3 DEF NoMarks
  <2> QED
    BY <2>6, <2>7, <1>3, <1>11 DEF g
<1> QED
  BY <1>10, <1>11

\* mark_sweep_alloc: when nothing fits, nothing changes; otherwise the heap and
\* the lists stay consistent.
LEMMA AllocEffect ==
    ASSUME Consistent(heap, roots, free_list), NoMarks(heap),
           NEW length \in Nat, NEW is_ref \in BOOLEAN, NEW id \in Ids \cup {NoId},
           NEW a, a = Alloc(length, is_ref, id)
    PROVE  \/ /\ a.ref = SENTINEL /\ a.heap = heap /\ a.lists = free_list /\ ~Fits(heap, length)
              /\ \A b \in FreeChunks(heap, heap.watermark) : ObjectLength(heap, b) < length
           \/ /\ a.ref # SENTINEL /\ Consistent(a.heap, roots, a.lists) /\ NoMarks(a.heap)
              /\ a.ref \in Allocated(a.heap, Base, a.heap.watermark)
<1> DEFINE F == FreeChunks(heap, heap.watermark)
           f == FindFreeBlock(heap, free_list, length)
           s == SplitBlock(heap, f.ref, length, is_ref, id)
           r == RawAlloc(heap, length, is_ref, id)
<1>1. heap \in Heap /\ F \subseteq Addr /\ ListsHold(free_list, F, heap)
      /\ heap.watermark \in Base .. HeapEnd
  <2>1. WellFormed(heap, roots, Base, heap.watermark) /\ ListsHold(free_list, F, heap)
    BY DEF Consistent
  <2>2. F \subseteq Addr
    BY DEF FreeChunks, Headers
  <2> QED
    BY <2>1, <2>2, WellFormedTypes, Numbers
<1>2. \/ f.ref = SENTINEL /\ f.lists = free_list /\ \A b \in F : ObjectLength(heap, b) < length
      \/ /\ f.ref \in F /\ f.ref # SENTINEL /\ ObjectLength(heap, f.ref) >= length
         /\ ListsHold(f.lists, F \ {f.ref}, heap)
  BY <1>1, FindEffect
<1>3. CASE f.ref = SENTINEL
  <2>1. a = [ref |-> r.ref, heap |-> r.heap, lists |-> free_list]
    BY <1>3 DEF Alloc
  <2>2. r.ref = SENTINEL => ~Fits(heap, length) /\ r.heap = heap
    BY <1>1, Numbers, RawAllocEffect
  <2>3. r.ref # SENTINEL => /\ Consistent(r.heap, roots, free_list) /\ NoMarks(r.heap)
                            /\ r.ref \in Allocated(r.heap, Base, r.heap.watermark)
    BY BumpKeeps
  <2>4. \A b \in F : ObjectLength(heap, b) < length
    BY <1>1, <1>2, <1>3, Numbers
  <2> HIDE DEF r
  <2> QED
    BY <2>1, <2>2, <2>3, <2>4
<1>4. CASE f.ref # SENTINEL
  <2> DEFINE lists == IF s.rem = SENTINEL THEN f.lists ELSE FreeBlock(s.heap, f.lists, s.rem)
  <2>1. a = [ref |-> f.ref, heap |-> s.heap, lists |-> lists]
    BY <1>4 DEF Alloc
  <2>2. /\ f.ref \in F /\ ObjectLength(heap, f.ref) >= length
        /\ ListsHold(f.lists, F \ {f.ref}, heap)
    BY <1>2, <1>4
  <2> HIDE DEF f
  <2>3. /\ Consistent(s.heap, roots, lists) /\ NoMarks(s.heap)
        /\ f.ref \in Allocated(s.heap, Base, s.heap.watermark)
    BY <2>2, SplitKeeps
  <2> HIDE DEF s, lists
  <2> QED
    BY <2>1, <2>3, <1>4
<1> QED
  BY <1>3, <1>4

-----------------------------------------------------------------------------
(* The sweep.                                                               *)

\* The arrays the program keeps: those below bound survived, those still marked
\* will.
Kept(h, bound) == {a \in Allocated(h, Base, h.watermark) : h.tag[a].marked \/ a < bound}

\* The sweep between two chunks: the walk has reached walked, and from bound on
\* it has met nothing but dead chunks. What lies below bound is final. No free
\* chunk touches a chunk that may still become free.
Swept(h, rs, lists, walked, bound) ==
    LET H == Headers(h, Base, h.watermark)
        F == FreeChunks(h, bound)
    IN  /\ h \in Heap /\ Base <= h.watermark /\ Tiled(h, Base, h.watermark)
        /\ ~h.tag[GC_NULL].ref
        /\ walked \in H \cup {h.watermark} /\ bound \in H \cup {h.watermark} /\ bound <= walked
        /\ rs \in [RootSlots -> Kept(h, bound) \cup {GC_NULL}]
        /\ \A a \in Kept(h, bound) : \A s \in RefSlots(h, a) :
              h.word[s] \in Kept(h, bound) \cup {GC_NULL}
        /\ \A a \in H : h.tag[a].marked => walked <= a /\ ~h.tag[a].free
        /\ ListsHold(lists, F, h)
        /\ \A a \in F :
              /\ a + ObjectWords(h, a) \notin F
              /\ \/ a + ObjectWords(h, a) < bound
                 \/ bound = h.watermark
                 \/ h.tag[bound].marked

\* The sweep passes a dead chunk.
LEMMA PassDead ==
    ASSUME NEW h, NEW rs, NEW lists, NEW c, NEW bound, Swept(h, rs, lists, c, bound),
           c \in Headers(h, Base, h.watermark), ~h.tag[c].marked
    PROVE  Swept(h, rs, lists, c + ObjectWords(h, c), bound)
<1> DEFINE H == Headers(h, Base, h.watermark)
           n == c + ObjectWords(h, c)
<1>1. /\ h \in Heap /\ h.watermark \in Nat /\ Tiled(h, Base, h.watermark)
      /\ \A a \in H : h.tag[a].marked => c <= a /\ ~h.tag[a].free
      /\ bound \in H \cup {h.watermark} /\ bound <= c
  BY Numbers DEF Swept, Heap
<1>2. c \in Nat /\ ObjectWords(h, c) \in Nat /\ bound \in Nat
  BY <1>1, TiledWithin
<1>3. n \in H \cup {h.watermark} /\ \A a \in H : a \in Nat /\ (c < a => n <= a)
  BY <1>1, TiledWithin DEF Tiled
<1>4. \A a \in H : h.tag[a].marked => n <= a /\ ~h.tag[a].free
  BY <1>1, <1>2, <1>3
<1>5. bound <= n
  BY <1>1, <1>2
<1> HIDE DEF H, n
<1> QED
  BY <1>3, <1>4, <1>5 DEF Swept, H, n

\* A chunk was passed or a run closed: from h with bound b to g with bound n the
\* arrays that are kept are the same, and the chunks of new are free as well.
Settled(h, g, b, n, new) ==
    /\ Kept(g, n) = Kept(h, b)
    /\ FreeChunks(g, n) = FreeChunks(h, b) \cup new
    /\ \A x \in Kept(h, b) \cup FreeChunks(h, b) : g.word[x] = h.word[x]

\* The sweep clears the mark of a live chunk and passes it.
LEMMA PassMarkedEffect ==
    ASSUME NEW h, NEW rs, NEW lists, NEW c, Swept(h, rs, lists, c, c),
           c \in Headers(h, Base, h.watermark), h.tag[c].marked,
           NEW g, g = ClearMarked(h, c), NEW n, n = c + ObjectWords(h, c)
    PROVE  Swept(g, rs, lists, n, n) /\ Settled(h, g, c, n, {})
<1> DEFINE w == h.watermark
           H == Headers(h, Base, w)
           K == Kept(h, c)
           F == FreeChunks(h, c)
<1>1. /\ h \in Heap /\ Base <= w /\ Tiled(h, Base, w) /\ ~h.tag[GC_NULL].ref
      /\ rs \in [RootSlots -> K \cup {GC_NULL}]
      /\ \A a \in K : \A s \in RefSlots(h, a) : h.word[s] \in K \cup {GC_NULL}
      /\ \A a \in H : h.tag[a].marked => c <= a /\ ~h.tag[a].free
      /\ ListsHold(lists, F, h)
      /\ \A a \in F : a + ObjectWords(h, a) \notin F
      /\ w \in Nat
  BY Numbers DEF Swept, Heap
<1>2. /\ c \in Addr /\ c \in Nat /\ c \in H /\ ObjectWords(h, c) \in Nat /\ ObjectWords(h, c) >= 2
      /\ n \in H \cup {w} /\ n \in Nat /\ c < n
      /\ \A a \in H : a \in Addr /\ a \in Nat /\ (c < a => n <= a)
  BY <1>1, TiledWithin DEF Tiled
<1>3. /\ SameButMarks(h, g) /\ ~IsMarked(g, c)
      /\ \A x \in Addr \ {c} : g.tag[x] = h.tag[x]
  BY <1>1, <1>2, MarkEffect
<1>4. /\ g \in Heap /\ g.watermark = w /\ g.word = h.word
      /\ \A x \in Addr : /\ g.tag[x].head = h.tag[x].head
                         /\ g.tag[x].ref = h.tag[x].ref
                         /\ g.tag[x].free = h.tag[x].free
  BY <1>3 DEF SameButMarks
<1>5. /\ Headers(g, Base, w) = H /\ Allocated(g, Base, w) = Allocated(h, Base, w)
      /\ Tiled(g, Base, w) /\ \A x \in Addr : RefSlots(g, x) = RefSlots(h, x)
  BY <1>1, <1>3, MarksOnly
<1> HIDE DEF w, H, K, F
<1>6. \A a \in H : g.tag[a].marked <=> h.tag[a].marked /\ a # c
  BY <1>2, <1>3 DEF IsMarked
<1>7. ASSUME NEW a \in H PROVE a < n <=> a < c \/ a = c
  <2>1. a \in Nat /\ c \in Nat /\ n \in Nat /\ c < n /\ (c < a => n <= a)
    BY <1>2
  <2> QED
    BY ONLY <2>1
<1>8. Kept(g, n) = K
  <2>1. Kept(g, n) = {a \in Allocated(h, Base, w) : g.tag[a].marked \/ a < n}
    BY <1>4, <1>5 DEF Kept
  <2>2. K = {a \in Allocated(h, Base, w) : h.tag[a].marked \/ a < c}
    BY DEF K, Kept, w
  <2>3. \A a \in Allocated(h, Base, w) : a \in H
    BY DEF Allocated, H
  <2>4. \A a \in Allocated(h, Base, w) :
            (g.tag[a].marked \/ a < n) <=> (h.tag[a].marked \/ a < c)
    BY <2>3, <1>6, <1>7
  <2> QED
    BY <2>1, <2>2, <2>4
<1>9. FreeChunks(g, n) = F
  <2>1. ASSUME NEW a PROVE a \in FreeChunks(g, n) <=> a \in Addr /\ Base <= a /\ a < n
                              /\ h.tag[a].head /\ h.tag[a].free
    BY <1>4 DEF FreeChunks, Headers
  <2>2. ASSUME NEW a PROVE a \in F <=> a \in Addr /\ Base <= a /\ a < c
                              /\ h.tag[a].head /\ h.tag[a].free
    BY DEF F, FreeChunks, Headers
  <2>3. ~h.tag[c].free
    BY <1>1, <1>2
  <2>4. ASSUME NEW a \in Addr, Base <= a, a < n, h.tag[a].head, h.tag[a].free
        PROVE  a < c
    <3>1. a \in Nat /\ a < w
      BY <2>4, <1>1, <1>2, Numbers, HeadersWithin DEF H
    <3>2. a \in H
      BY <3>1, <2>4 DEF H, Headers
    <3> QED
      BY <3>2, <2>3, <2>4, <1>7
  <2>5. \A a \in Addr : a < c => a < n
    BY <1>2, Numbers
  <2>6. \A a : a \in FreeChunks(g, n) <=> a \in F
    BY <2>1, <2>2, <2>4, <2>5
  <2> QED
    BY <2>6
<1>10. ListsHold(lists, F, g)
  BY <1>1, <1>4, ListsSame
<1>11. \A a \in F : ObjectWords(g, a) = ObjectWords(h, a) /\ a + ObjectWords(h, a) < n
  <2> SUFFICES ASSUME NEW a \in F PROVE ObjectWords(g, a) = ObjectWords(h, a)
                                        /\ a + ObjectWords(h, a) < n
    OBVIOUS
  <2>1. a \in Addr /\ a < c /\ Base <= a /\ h.tag[a].head
    BY DEF F, FreeChunks, Headers
  <2>2. a \in H
    <3>1. a \in Nat /\ c < w
      BY <2>1, <1>2, Numbers, HeadersWithin DEF H
    <3>2. a < w
      BY <3>1, <2>1, <1>1, <1>2
    <3> QED
      BY <3>2, <2>1 DEF H, Headers
  <2>3. a + ObjectWords(h, a) <= c
    BY <2>1, <2>2, <1>1, <1>2 DEF Tiled, H
  <2>4. ObjectWords(h, a) \in Nat /\ a \in Nat
    BY <2>1, <1>1, Numbers, WordTypes
  <2> QED
    BY <2>3, <2>4, <1>2, <1>4 DEF ObjectWords
<1>12. \A a \in H : g.tag[a].marked => n <= a /\ ~g.tag[a].free
  BY <1>1, <1>2, <1>4, <1>6
<1>13. \A a \in K : \A s \in RefSlots(g, a) : g.word[s] \in K \cup {GC_NULL}
  <2>1. \A a \in K : a \in Addr
    BY DEF K, Kept, Allocated, Headers
  <2> QED
    BY <2>1, <1>1, <1>4, <1>5
<1>14. ~g.tag[GC_NULL].ref
  <2>1. GC_NULL \in Addr
    BY Numbers DEF Addr
  <2> QED
    BY <2>1, <1>1, <1>4
<1>15. n <= n
  BY <1>2
<1>16. \A a \in F : a + ObjectWords(g, a) \notin F /\ a + ObjectWords(g, a) < n
  BY <1>1, <1>11
<1>17. Swept(g, rs, lists, n, n)
  BY <1>1, <1>2, <1>4, <1>5, <1>8, <1>9, <1>10, <1>12, <1>13, <1>14, <1>15, <1>16 DEF Swept, H
<1>18. Settled(h, g, c, n, {})
  BY <1>4, <1>8, <1>9 DEF Settled, K, F
<1> QED
  BY <1>17, <1>18

LEMMA PassMarked ==
    ASSUME NEW h, NEW rs, NEW lists, NEW c, Swept(h, rs, lists, c, c),
           c \in Headers(h, Base, h.watermark), h.tag[c].marked,
           NEW g, g = ClearMarked(h, c), NEW n, n = c + ObjectWords(h, c)
    PROVE  Swept(g, rs, lists, n, n)
  BY PassMarkedEffect

\* gc_host_make_free_block over a dead run: one more free block, known to the
\* lists.
RunClosed(h, g, rs, lists, b, next) ==
    /\ Swept(g, rs, FreeBlock(g, lists, b), next, next)
    /\ g.watermark = h.watermark /\ Untouched(h, g, b, next)
    /\ Settled(h, g, b, next, {b}) /\ b + ObjectWords(g, b) = next

LEMMA CloseEffect ==
    ASSUME NEW h, NEW rs, NEW lists, NEW next, NEW b, Swept(h, rs, lists, next, b),
           b < next, next = h.watermark \/ h.tag[next].marked,
           NEW g, g = MakeFreeBlock(h, b, next)
    PROVE  RunClosed(h, g, rs, lists, b, next)
<1> DEFINE w == h.watermark
           H == Headers(h, Base, w)
           K == Kept(h, b)
           F == FreeChunks(h, b)
           G == Headers(g, Base, w)
<1>1. /\ h \in Heap /\ Base <= w /\ Tiled(h, Base, w) /\ ~h.tag[GC_NULL].ref
      /\ rs \in [RootSlots -> K \cup {GC_NULL}]
      /\ \A a \in K : \A s \in RefSlots(h, a) : h.word[s] \in K \cup {GC_NULL}
      /\ \A a \in H : h.tag[a].marked => next <= a /\ ~h.tag[a].free
      /\ ListsHold(lists, F, h)
      /\ w \in Nat /\ w <= HeapEnd /\ next \in H \cup {w} /\ b \in H \cup {w}
  BY Numbers DEF Swept, Heap
<1>2. /\ \A a \in F : a + ObjectWords(h, a) \notin F
      /\ \A a \in F : a + ObjectWords(h, a) < b \/ b = w \/ h.tag[b].marked
  BY DEF Swept
<1>3. \A a \in H : /\ a \in Addr /\ a \in Nat /\ a >= 2 /\ a < w /\ h.tag[a].head
                   /\ ObjectWords(h, a) \in Nat /\ ObjectWords(h, a) >= 2
                   /\ a + ObjectWords(h, a) <= w
  BY <1>1, TiledWithin, HeadersWithin
<1>4. next \in Nat /\ next <= w /\ b \in H /\ b \in Nat /\ b \in Addr /\ b >= 2
  BY <1>1, <1>3
<1>5. \A x, y \in H : x < y => x + ObjectWords(h, x) <= y
  BY <1>1 DEF Tiled
<1>6. b + Header <= next
  <2>1. b + ObjectWords(h, b) <= next
    BY <1>1, <1>3, <1>4, <1>5
  <2> QED
    BY <2>1, <1>3, <1>4
<1>7. /\ g \in Heap /\ g.watermark = w /\ g.tag[b] = FreeTag /\ b + ObjectWords(g, b) = next
      /\ Cleared(g, b, next) /\ Untouched(h, g, b, next)
      /\ Tiled(g, Base, w)
      /\ \A x : x \in G <=> x = b \/ (x \in H /\ ~(b <= x /\ x < next))
  <2> DEFINE length == next - b - Header
             tag == FreeTag
  <2>1. /\ length \in Word /\ b + Header + length = next /\ tag \in Tag /\ tag.head
        /\ g = InitObject(h, b, length, tag)
    BY <1>1, <1>4, <1>6, Numbers, TagTypes DEF Word, MakeFreeBlock, FreeTag
  <2> HIDE DEF length, tag, w
  <2>2. /\ h \in Heap /\ Base \in Nat /\ w \in Nat /\ Base <= w /\ w <= HeapEnd
        /\ Tiled(h, Base, w) /\ h.watermark = w
        /\ b \in Headers(h, Base, w) /\ next \in Headers(h, Base, w) \cup {w}
    BY <1>1, <1>4 DEF w, H
  <2>3. /\ g \in Heap /\ g.watermark = h.watermark
        /\ g.tag[b] = tag /\ b + ObjectWords(g, b) = next
        /\ Cleared(g, b, next) /\ Untouched(h, g, b, next)
        /\ Tiled(g, Base, w)
        /\ \A x : x \in Headers(g, Base, w) <=>
              x = b \/ (x \in Headers(h, Base, w) /\ ~(b <= x /\ x < next))
    BY ONLY <2>1, <2>2, OverlayOne
  <2> QED
    BY <2>2, <2>3 DEF tag, H, G
<1>8. \A x \in Addr : x < b \/ x >= next => g.word[x] = h.word[x] /\ g.tag[x] = h.tag[x]
  BY <1>7 DEF Untouched
<1> HIDE DEF w, H, K, F, G
<1>9. ASSUME NEW x \in G, x # b
      PROVE  x \in H /\ x \in Addr /\ (x < b \/ x >= next)
             /\ g.word[x] = h.word[x] /\ g.tag[x] = h.tag[x]
  <2>1. x \in H /\ ~(b <= x /\ x < next)
    BY <1>7, <1>9
  <2>2. x \in Addr /\ x \in Nat
    BY <2>1, <1>3
  <2>3. x < b \/ x >= next
    BY <2>1, <2>2, <1>4
  <2> QED
    BY <2>1, <2>2, <2>3, <1>8
<1>10. ASSUME NEW x \in H, x < b \/ x >= next
       PROVE  x \in G /\ x # b /\ g.word[x] = h.word[x] /\ g.tag[x] = h.tag[x]
  <2>1. x \in Addr /\ x \in Nat
    BY <1>3
  <2>2. x # b /\ ~(b <= x /\ x < next)
    BY <1>10, <2>1, <1>4
  <2>3. x \in G
    BY <2>2, <1>7
  <2> QED
    BY <1>10, <2>1, <2>2, <2>3, <1>8
<1>11. ~g.tag[b].marked /\ g.tag[b].free
  BY <1>7 DEF FreeTag
<1>12. \A x \in G : g.tag[x].marked => next <= x /\ ~g.tag[x].free
  BY <1>1, <1>9, <1>11
<1>13. /\ \A x : x \in K <=> x \in H /\ ~h.tag[x].free /\ (h.tag[x].marked \/ x < b)
       /\ \A x : x \in Kept(g, next) <=>
             x \in G /\ ~g.tag[x].free /\ (g.tag[x].marked \/ x < next)
  BY <1>7 DEF K, Kept, Allocated, H, G, w
<1>14. ASSUME NEW x, x \in K PROVE x \in Kept(g, next) /\ (x < b \/ x >= next)
  <2>1. x \in H /\ (x < b \/ x >= next)
    BY <1>14, <1>13, <1>1, <1>3, <1>4
  <2>2. x < b => x < next
    BY <2>1, <1>3, <1>4
  <2> QED
    BY <2>1, <2>2, <1>14, <1>13, <1>10
<1>15. ASSUME NEW x, x \in Kept(g, next) PROVE x \in K
  <2>1. x \in H /\ (x < b \/ x >= next) /\ g.tag[x] = h.tag[x]
    BY <1>15, <1>13, <1>11, <1>9
  <2>2. x < next => x < b
    BY <2>1, <1>3, <1>4
  <2> QED
    BY <2>1, <2>2, <1>15, <1>13
<1>16. Kept(g, next) = K
  BY <1>14, <1>15
<1>17. ASSUME NEW a \in K, NEW s \in RefSlots(g, a)
       PROVE  g.word[s] \in K \cup {GC_NULL}
  <2>1. a \in H /\ (a < b \/ a >= next)
    BY <1>13, <1>14
  <2>2. s \in RefSlots(h, a)
    BY <2>1, <1>10 DEF RefSlots
  <2>3. s \in Addr /\ s \in Nat /\ a \in Nat /\ s >= a + Header /\ s < a + ObjectWords(h, a)
    BY <2>1, <2>2, <1>1, SlotRange DEF H
  <2>4. s < b \/ s >= next
    BY <2>1, <2>3, <1>3, <1>4, <1>5
  <2> QED
    BY <2>2, <2>3, <2>4, <1>1, <1>8
<1>18. /\ \A x : x \in F <=> x \in H /\ x < b /\ h.tag[x].free
       /\ \A x : x \in FreeChunks(g, next) <=> x \in G /\ x < next /\ g.tag[x].free
  <2>1. \A x \in Addr : /\ x < b => x < w
                        /\ x < next => x < w
    BY <1>1, <1>3, <1>4, Numbers
  <2> QED
    BY <2>1, <1>3 DEF F, FreeChunks, H, G, Headers
<1>19. FreeChunks(g, next) = F \cup {b}
  <2>1. b \in G /\ b < next
    BY <1>7
  <2>2. ASSUME NEW x, x \in F PROVE x \in FreeChunks(g, next)
    <3>1. x \in H /\ x < b /\ h.tag[x].free
      BY <2>2, <1>18
    <3>2. x \in G /\ g.tag[x] = h.tag[x]
      BY <3>1, <1>10
    <3>3. x \in Nat
      BY <3>1, <1>3
    <3>4. x < next
      BY <3>1, <3>3, <1>4, <2>1
    <3> QED
      BY <3>1, <3>2, <3>4, <1>18
  <2>3. ASSUME NEW x, x \in FreeChunks(g, next), x # b PROVE x \in F
    <3>1. x \in G /\ x < next /\ g.tag[x].free
      BY <2>3, <1>18
    <3>2. x \in H /\ (x < b \/ x >= next) /\ g.tag[x] = h.tag[x]
      BY <2>3, <3>1, <1>9
    <3>3. x \in Nat
      BY <3>2, <1>3
    <3>4. x < b
      BY <3>1, <3>2, <3>3, <1>4
    <3> QED
      BY <3>1, <3>2, <3>4, <1>18
  <2> QED
    BY <2>1, <2>2, <2>3, <1>11, <1>18
<1>20. ListsHold(FreeBlock(g, lists, b), F \cup {b}, g)
  <2>1. F \subseteq Addr /\ b \notin F /\ \A x \in F : g.word[x] = h.word[x]
    BY <1>3, <1>4, <1>10, <1>18
  <2>2. ListsHold(lists, F, g)
    BY <2>1, <1>1, ListsSame
  <2> QED
    BY <2>1, <2>2, <1>4, <1>7, ListsPush
<1>21. ASSUME NEW x \in F \cup {b}
       PROVE  /\ x + ObjectWords(g, x) \notin F \cup {b}
              /\ x + ObjectWords(g, x) < next \/ next = w \/ g.tag[next].marked
  <2>1. ASSUME NEW y \in F \cup {b} PROVE y \in H /\ y \in Nat /\ y < next
    <3>1. y \in H /\ (y = b \/ y < b)
      BY <1>4, <1>18
    <3>2. y \in Nat
      BY <3>1, <1>3
    <3>3. b < next
      OBVIOUS
    <3>4. y < next
      BY <3>1, <3>2, <3>3, <1>4
    <3> QED
      BY <3>1, <3>2, <3>4
  <2>2. CASE x = b
    <3>1. next # w => g.tag[next] = h.tag[next]
      BY <1>1, <1>3, <1>4, <1>8
    <3> QED
      BY <2>1, <2>2, <3>1, <1>4, <1>7 DEF w
  <2>3. CASE x \in F
    <3>1. ~h.tag[b].marked /\ b # w
      BY <1>1, <1>3, <1>4
    <3>2. x + ObjectWords(h, x) < b /\ x + ObjectWords(h, x) \notin F
      BY <2>3, <3>1, <1>2
    <3>3. ObjectWords(g, x) = ObjectWords(h, x) /\ x + ObjectWords(h, x) \in Nat
      BY <2>3, <1>3, <1>10, <1>18 DEF ObjectWords
    <3> QED
      BY <3>2, <3>3, <1>4
  <2> QED
    BY <2>2, <2>3
<1>22. next \in G \cup {w} /\ next <= next
  BY <1>1, <1>3, <1>4, <1>10
<1>23. ~g.tag[GC_NULL].ref
  <2>1. GC_NULL \in Addr
    BY Numbers DEF Addr
  <2> QED
    BY <2>1, <1>1, <1>4, <1>8
<1>24. Swept(g, rs, FreeBlock(g, lists, b), next, next)
  BY <1>1, <1>7, <1>12, <1>16, <1>17, <1>19, <1>20, <1>21, <1>22, <1>23 DEF Swept, G
<1>25. Settled(h, g, b, next, {b})
  <2>1. \A x \in K \cup F : g.word[x] = h.word[x]
    <3>1. \A x \in F : x \in H /\ x < b
      BY <1>18
    <3>2. \A x \in K : x \in H /\ (x < b \/ x >= next)
      BY <1>13, <1>14
    <3> QED
      BY <3>1, <3>2, <1>10
  <2> QED
    BY <2>1, <1>16, <1>19 DEF Settled, K, F
<1> QED
  BY <1>7, <1>24, <1>25 DEF w, RunClosed

LEMMA CloseKeeps ==
    ASSUME NEW h, NEW rs, NEW lists, NEW next, NEW b, Swept(h, rs, lists, next, b),
           b < next, next = h.watermark \/ h.tag[next].marked,
           NEW g, g = MakeFreeBlock(h, b, next)
    PROVE  /\ Swept(g, rs, FreeBlock(g, lists, b), next, next)
           /\ g.watermark = h.watermark /\ Untouched(h, g, b, next)
<1>1. RunClosed(h, g, rs, lists, b, next)
  BY CloseEffect
<1> QED
  BY <1>1 DEF RunClosed

\* Clearing the mark of the chunk behind a run commutes with closing the run.
LEMMA ClearCommutes ==
    ASSUME NEW h \in Heap, NEW b \in Addr, NEW c \in Addr, b + Header <= c
    PROVE  MakeFreeBlock(ClearMarked(h, c), b, c) = ClearMarked(MakeFreeBlock(h, b, c), c)
<1> DEFINE k == ClearMarked(h, c)
           m == MakeFreeBlock(h, b, c)
           p == MakeFreeBlock(k, b, c)
           q == ClearMarked(m, c)
<1>1. b \in Nat /\ c \in Nat /\ c <= HeapEnd
  BY Numbers DEF Addr
<1>2. /\ k \in Heap /\ k.word = h.word /\ k.watermark = h.watermark
      /\ \A x \in Addr \ {c} : k.tag[x] = h.tag[x]
      /\ k.tag[c] = [h.tag[c] EXCEPT !.marked = FALSE]
  <2>1. k.tag[c] = [h.tag[c] EXCEPT !.marked = FALSE]
    BY DEF ClearMarked, Heap
  <2> QED
    BY <2>1, MarkEffect DEF SameButMarks
<1>3. /\ m \in Heap /\ m.watermark = h.watermark
      /\ m.word[b] = c - b - Header /\ m.tag[b] = FreeTag
      /\ Cleared(m, b, c) /\ Untouched(h, m, b, c)
  BY <1>1, MakeFreeBlockEffect
<1>4. /\ q \in Heap /\ q.word = m.word /\ q.watermark = m.watermark
      /\ \A x \in Addr \ {c} : q.tag[x] = m.tag[x]
      /\ q.tag[c] = [m.tag[c] EXCEPT !.marked = FALSE]
  <2> HIDE DEF m
  <2>1. q.tag[c] = [m.tag[c] EXCEPT !.marked = FALSE]
    BY <1>3 DEF ClearMarked, Heap
  <2> QED
    BY <2>1, <1>3, MarkEffect DEF SameButMarks
<1> HIDE DEF k, m, q
<1>5. /\ p \in Heap /\ p.watermark = k.watermark
      /\ p.word[b] = c - b - Header /\ p.tag[b] = FreeTag
      /\ Cleared(p, b, c) /\ Untouched(k, p, b, c)
  BY <1>1, <1>2, MakeFreeBlockEffect
<1> HIDE DEF p
<1>6. ASSUME NEW x \in Addr PROVE p.word[x] = q.word[x] /\ p.tag[x] = q.tag[x]
  <2>1. x \in Nat
    BY Numbers
  <2>2. CASE x = b
    BY <2>2, <1>1, <1>3, <1>4, <1>5
  <2>3. CASE x > b /\ x < c
    BY <2>1, <2>3, <1>1, <1>3, <1>4, <1>5 DEF Cleared
  <2>4. CASE x = c
    <3>1. p.word[c] = k.word[c] /\ p.tag[c] = k.tag[c]
      BY <1>1, <1>5 DEF Untouched
    <3>2. m.word[c] = h.word[c] /\ m.tag[c] = h.tag[c]
      BY <1>1, <1>3 DEF Untouched
    <3> QED
      BY <2>4, <3>1, <3>2, <1>2, <1>4
  <2>5. CASE (x < b \/ x >= c) /\ x # c
    BY <2>5, <1>2, <1>3, <1>4, <1>5 DEF Untouched
  <2> QED
    BY <2>1, <2>2, <2>3, <2>4, <2>5, <1>1
<1>7. /\ p.word \in [Addr -> Word] /\ q.word \in [Addr -> Word]
      /\ p.tag \in [Addr -> Tag] /\ q.tag \in [Addr -> Tag]
      /\ p = [word |-> p.word, tag |-> p.tag, watermark |-> p.watermark]
      /\ q = [word |-> q.word, tag |-> q.tag, watermark |-> q.watermark]
  BY <1>4, <1>5 DEF Heap
<1>8. p.word = q.word /\ p.tag = q.tag
  BY <1>6, <1>7
<1> QED
  BY <1>2, <1>3, <1>4, <1>5, <1>7, <1>8 DEF p, q, k, m

\* free_lists_clear.
LEMMA ListsNone == \A h : ListsHold(ClearedLists, {}, h)
<1> SUFFICES ASSUME NEW h PROVE ListsHold(ClearedLists, {}, h)
  OBVIOUS
<1>1. \A i \in Buckets : ClearedLists[i] = <<>> /\ DOMAIN ClearedLists[i] = {}
  BY DEF ClearedLists
<1>2. ClearedLists \in [Buckets -> Seq(Addr)]
  <2>1. <<>> \in Seq(Addr)
    OBVIOUS
  <2> QED
    BY <2>1 DEF ClearedLists
<1>3. \A i \in Buckets : IsInjective(ClearedLists[i])
  BY <1>1 DEF IsInjective
<1> QED
  BY <1>1, <1>2, <1>3 DEF ListsHold

\* A complete mark phase is what the sweep starts from.
LEMMA SweepBegin ==
    ASSUME MarkInv, MarkDone
    PROVE  /\ Base <= heap.watermark
           /\ HeapFirst(heap) \in Headers(heap, Base, heap.watermark) \cup {SENTINEL}
           /\ At(heap, HeapFirst(heap)) = Base
           /\ Swept(heap, roots, ClearedLists, Base, Base)
<1> DEFINE w == heap.watermark
           H == Headers(heap, Base, w)
<1>1. /\ heap \in Heap /\ w \in Nat /\ Base <= w /\ Tiled(heap, Base, w)
      /\ ~heap.tag[GC_NULL].ref /\ Marked \subseteq Arrays
      /\ DOMAIN roots = RootSlots /\ roots = [r \in RootSlots |-> roots[r]]
  BY DEF MarkInv, WellFormed
<1>2. /\ \A r \in RootSlots : roots[r] \in Marked \cup {GC_NULL}
      /\ \A a \in Marked : \A s \in RefSlots(heap, a) : heap.word[s] \in Marked \cup {GC_NULL}
  BY MarkDoneCloses
<1>3. Base \in H \cup {w}
  BY <1>1 DEF Tiled
<1>4. /\ HeapFirst(heap) \in H \cup {SENTINEL} /\ At(heap, HeapFirst(heap)) = Base
  <2>1. CASE Base < w
    <3>1. Base \in H /\ HeapFirst(heap) = Base
      BY <1>3, <2>1 DEF HeapFirst
    <3>2. Base # SENTINEL
      BY <3>1, Numbers, HeadersWithin
    <3> QED
      BY <3>1, <3>2 DEF At
  <2>2. CASE Base = w
    BY <2>2, <1>1 DEF HeapFirst, At
  <2> QED
    BY <1>1, <2>1, <2>2
<1>5. Kept(heap, Base) = Marked
  <2>1. ASSUME NEW a \in Allocated(heap, Base, w) PROVE a \in H /\ ~(a < Base)
    <3>1. a \in H
      BY DEF Allocated
    <3> QED
      BY <3>1, HeadersWithin
  <2>2. \A a : a \in Kept(heap, Base) <=> a \in Allocated(heap, Base, w) /\ heap.tag[a].marked
    BY <2>1 DEF Kept
  <2>3. \A a : a \in Marked <=> a \in H /\ heap.tag[a].marked
    BY DEF Marked, IsMarked
  <2>4. \A a \in Marked : a \in Allocated(heap, Base, w)
    BY <1>1 DEF Arrays
  <2> QED
    BY <2>1, <2>2, <2>3, <2>4
<1>6. FreeChunks(heap, Base) = {}
  BY TiledEmpty DEF FreeChunks
<1>7. \A a \in H : heap.tag[a].marked => Base <= a /\ ~heap.tag[a].free
  <2> SUFFICES ASSUME NEW a \in H, heap.tag[a].marked PROVE Base <= a /\ ~heap.tag[a].free
    OBVIOUS
  <2>1. a \in Marked
    BY DEF Marked, IsMarked
  <2> QED
    BY <2>1, <1>1, HeadersWithin DEF Arrays, Allocated
<1>8. roots \in [RootSlots -> Kept(heap, Base) \cup {GC_NULL}]
  BY <1>1, <1>2, <1>5
<1>9. Swept(heap, roots, ClearedLists, Base, Base)
  <2>1. /\ ListsHold(ClearedLists, FreeChunks(heap, Base), heap)
        /\ \A a \in FreeChunks(heap, Base) :
              /\ a + ObjectWords(heap, a) \notin FreeChunks(heap, Base)
              /\ \/ a + ObjectWords(heap, a) < Base
                 \/ Base = heap.watermark
                 \/ heap.tag[Base].marked
    BY <1>6, ListsNone
  <2>2. \A a \in Kept(heap, Base) : \A s \in RefSlots(heap, a) :
           heap.word[s] \in Kept(heap, Base) \cup {GC_NULL}
    BY <1>2, <1>5
  <2>3. Base <= Base
    OBVIOUS
  <2> QED
    BY ONLY <1>1, <1>3, <1>7, <1>8, <2>1, <2>2, <2>3 DEF Swept
<1> QED
  BY <1>1, <1>4, <1>9

\* A complete sweep leaves the heap consistent and without marks.
LEMMA SweepFinish ==
    ASSUME NEW h, NEW rs, NEW lists, NEW w, w = h.watermark, Swept(h, rs, lists, w, w)
    PROVE  Consistent(h, rs, lists) /\ NoMarks(h)
<1> DEFINE H == Headers(h, Base, w)
<1>1. /\ h \in Heap /\ Base <= w /\ w \in Nat /\ w <= HeapEnd /\ Tiled(h, Base, w)
      /\ ~h.tag[GC_NULL].ref
      /\ rs \in [RootSlots -> Kept(h, w) \cup {GC_NULL}]
      /\ \A a \in Kept(h, w) : \A s \in RefSlots(h, a) : h.word[s] \in Kept(h, w) \cup {GC_NULL}
      /\ \A a \in H : h.tag[a].marked => w <= a
      /\ ListsHold(lists, FreeChunks(h, w), h)
      /\ \A a \in FreeChunks(h, w) : a + ObjectWords(h, a) \notin FreeChunks(h, w)
  BY Numbers DEF Swept, Heap
<1>2. \A a \in H : a \in Nat /\ a < w
  BY HeadersWithin
<1>3. Kept(h, w) = Allocated(h, Base, w)
  <2>1. \A a \in Allocated(h, Base, w) : a < w
    BY <1>2 DEF Allocated, H
  <2> QED
    BY <2>1 DEF Kept
<1>4. NoMarks(h)
  BY <1>1, <1>2 DEF NoMarks, H
<1>5. Base \in Nat
  OBVIOUS
<1>6. WellFormed(h, rs, Base, w)
  BY <1>1, <1>3, <1>5 DEF WellFormed
<1> QED
  BY <1>1, <1>4, <1>6 DEF Consistent

\* The same, with the walk's next position.
LEMMA PassMarkedNext ==
    ASSUME NEW h, NEW rs, NEW lists, NEW c, Swept(h, rs, lists, c, c),
           c \in Headers(h, Base, h.watermark), h.tag[c].marked,
           NEW g, g = ClearMarked(h, c), NEW n, n = HeapNext(h, c)
    PROVE  /\ Swept(g, rs, lists, At(g, n), At(g, n))
           /\ n \in Headers(g, Base, g.watermark) \cup {SENTINEL}
           /\ SameButMarks(h, g)
<1>1. /\ h \in Heap /\ Base <= h.watermark /\ Tiled(h, Base, h.watermark) /\ h.watermark \in Nat
      /\ c \in Addr
  BY HeadersWithin, Numbers DEF Swept, Heap
<1>2. /\ n \in Headers(h, Base, h.watermark) \cup {SENTINEL}
      /\ At(h, n) = c + ObjectWords(h, c)
  BY <1>1, NextEffect
<1>3. SameButMarks(h, g)
  BY <1>1, MarkEffect
<1>4. g.watermark = h.watermark
  BY <1>3 DEF SameButMarks
<1>5. Headers(g, Base, h.watermark) = Headers(h, Base, h.watermark)
  BY <1>1, <1>3, MarksOnly
<1>6. Swept(g, rs, lists, At(h, n), At(h, n))
  BY <1>2, PassMarked
<1>7. At(g, n) = At(h, n)
  BY <1>4 DEF At
<1> QED
  BY <1>2, <1>3, <1>4, <1>5, <1>6, <1>7

\* The sweep between two steps of its walk.
Bound == IF run_start # SENTINEL THEN run_start ELSE At(heap, current)

SweepInv ==
    /\ current \in Headers(heap, Base, heap.watermark) \cup {SENTINEL}
    /\ run_start \in Addr \cup {SENTINEL}
    /\ run_start # SENTINEL => run_start < At(heap, current)
    /\ Swept(heap, roots, free_list, At(heap, current), Bound)

\* A chunk that begins below another one ends there at the latest.
LEMMA RunFits ==
    ASSUME NEW h, NEW rs, NEW lists, NEW next, NEW b, Swept(h, rs, lists, next, b), b < next
    PROVE  /\ h \in Heap /\ next \in Nat /\ next <= HeapEnd /\ b \in Addr /\ b + Header <= next
<1> DEFINE H == Headers(h, Base, h.watermark)
<1>1. /\ h \in Heap /\ h.watermark \in Nat /\ h.watermark <= HeapEnd
      /\ Tiled(h, Base, h.watermark)
      /\ next \in H \cup {h.watermark} /\ b \in H \cup {h.watermark}
  BY Numbers DEF Swept, Heap
<1>2. \A a \in H : /\ a \in Addr /\ a \in Nat /\ a < h.watermark
                   /\ ObjectWords(h, a) \in Nat /\ ObjectWords(h, a) >= Header
                   /\ a + ObjectWords(h, a) <= h.watermark
  BY <1>1, TiledWithin
<1>3. next \in Nat /\ next <= h.watermark
  BY <1>1, <1>2
<1>4. b \in H
  BY <1>1, <1>3
<1>5. b + ObjectWords(h, b) <= next
  BY <1>1, <1>2, <1>4 DEF Tiled
<1>6. /\ b \in Nat /\ ObjectWords(h, b) \in Nat /\ ObjectWords(h, b) >= Header
      /\ b \in Addr
  BY <1>2, <1>4
<1>7. next <= HeapEnd
  BY <1>1, <1>3, Numbers
<1>8. b + Header <= next
  BY <1>3, <1>5, <1>6
<1> QED
  BY <1>1, <1>3, <1>6, <1>7, <1>8

\* The sweep meets a marked chunk with a run before it: this is as if the run were
\* closed first, which gives m, and the mark cleared then.
ClosesAt(m) ==
    /\ RunClosed(heap, m, roots, free_list, run_start, current)
    /\ current \in Headers(m, Base, m.watermark) /\ m.tag[current].marked
    /\ ObjectWords(m, current) = ObjectWords(heap, current)
    /\ HeapNext(m, current) = HeapNext(heap, current)
    /\ heap' = ClearMarked(m, current) /\ heap'.word = m.word
    /\ free_list' = FreeBlock(m, free_list, run_start)

LEMMA MarkedCloses ==
    ASSUME SweepInv, SweepMarked, run_start # SENTINEL,
           NEW m, m = MakeFreeBlock(heap, run_start, current)
    PROVE  ClosesAt(m)
<1> DEFINE c == current
           b == run_start
           w == heap.watermark
<1>1. /\ c # SENTINEL /\ c \in Headers(heap, Base, w) /\ heap.tag[c].marked
      /\ heap' = MakeFreeBlock(ClearMarked(heap, c), b, c)
      /\ free_list' = FreeBlock(heap', free_list, b)
  BY DEF SweepInv, SweepMarked, IsMarked, CloseRun, Unmarked
<1>2. /\ heap \in Heap /\ w \in Nat /\ Tiled(heap, Base, w) /\ c \in Addr /\ c \in Nat /\ c < w
      /\ c <= HeapEnd
  BY <1>1, HeadersWithin, Numbers DEF SweepInv, Swept, Heap, Addr
<1>3. Swept(heap, roots, free_list, c, b) /\ b \in Addr /\ b < c
  BY <1>1 DEF SweepInv, Bound, At
<1>4. RunClosed(heap, m, roots, free_list, b, c)
  BY <1>1, <1>3, CloseEffect
<1>5. /\ c \in Headers(m, Base, m.watermark) /\ m \in Heap /\ m.watermark = w
      /\ m.tag[c] = heap.tag[c] /\ m.word[c] = heap.word[c]
  BY <1>2, <1>4 DEF RunClosed, Swept, Untouched
<1>6. b + Header <= c
  BY <1>3, RunFits
<1>7. heap' = ClearMarked(m, c)
  BY <1>1, <1>2, <1>3, <1>6, ClearCommutes
<1>8. heap'.word = m.word
  BY <1>2, <1>5, <1>7, MarkEffect DEF SameButMarks
<1>9. free_list' = FreeBlock(m, free_list, b)
  BY <1>1, <1>8 DEF FreeBlock, ObjectLength
<1> QED
  BY <1>1, <1>4, <1>5, <1>7, <1>8, <1>9 DEF ClosesAt, HeapNext, ObjectWords

LEMMA SweepMarkedKeeps == SweepInv /\ SweepMarked => SweepInv'
<1> SUFFICES ASSUME SweepInv, SweepMarked PROVE SweepInv'
  OBVIOUS
<1> DEFINE c == current
           b == run_start
           w == heap.watermark
<1>1. /\ c # SENTINEL /\ c \in Headers(heap, Base, w) /\ heap.tag[c].marked
      /\ run_start' = SENTINEL /\ current' = HeapNext(heap, c) /\ roots' = roots
  BY DEF SweepInv, SweepMarked, IsMarked
<1>2. At(heap, c) = c
  BY <1>1 DEF At
<1>3. /\ heap \in Heap /\ w \in Nat /\ Tiled(heap, Base, w) /\ c \in Addr /\ c \in Nat /\ c < w
      /\ c <= HeapEnd
  BY <1>1, HeadersWithin, Numbers DEF SweepInv, Swept, Heap, Addr
<1>4. Bound' = At(heap', current')
  BY <1>1 DEF Bound
<1>5. SUFFICES /\ current' \in Headers(heap', Base, heap'.watermark) \cup {SENTINEL}
               /\ Swept(heap', roots, free_list', At(heap', current'), At(heap', current'))
  BY <1>1, <1>4 DEF SweepInv
<1>6. CASE b = SENTINEL
  <2>1. heap' = ClearMarked(heap, c) /\ free_list' = free_list
    BY <1>6 DEF SweepMarked, Unmarked
  <2>2. Swept(heap, roots, free_list, c, c)
    BY <1>2, <1>6 DEF SweepInv, Bound
  <2> QED
    BY <1>1, <2>1, <2>2, PassMarkedNext
<1>7. CASE b # SENTINEL
  <2> DEFINE m == MakeFreeBlock(heap, b, c)
             lists == FreeBlock(m, free_list, b)
  <2>1. ClosesAt(m)
    BY <1>7, MarkedCloses
  <2>2. /\ Swept(m, roots, lists, c, c) /\ c \in Headers(m, Base, m.watermark) /\ m.tag[c].marked
        /\ HeapNext(m, c) = HeapNext(heap, c) /\ heap' = ClearMarked(m, c) /\ free_list' = lists
    BY <2>1 DEF ClosesAt, RunClosed
  <2> HIDE DEF m, lists
  <2> QED
    BY <1>1, <2>2, PassMarkedNext
<1> QED
  BY <1>6, <1>7

LEMMA SweepDeadKeeps == SweepInv /\ SweepDead => SweepInv'
<1> SUFFICES ASSUME SweepInv, SweepDead PROVE SweepInv'
  OBVIOUS
<1> DEFINE c == current
           w == heap.watermark
<1>1. /\ c # SENTINEL /\ c \in Headers(heap, Base, w) /\ ~heap.tag[c].marked
      /\ run_start' = (IF run_start = SENTINEL THEN c ELSE run_start)
      /\ current' = HeapNext(heap, c) /\ UNCHANGED <<heap, roots, free_list>>
  BY DEF SweepInv, SweepDead, ExtendRun, IsMarked
<1>2. At(heap, c) = c
  BY <1>1 DEF At
<1>3. /\ heap \in Heap /\ w \in Nat /\ Base <= w /\ Tiled(heap, Base, w)
      /\ c \in Addr /\ c \in Nat
  BY <1>1, HeadersWithin, Numbers DEF SweepInv, Swept, Heap
<1>4. /\ current' \in Headers(heap, Base, w) \cup {SENTINEL}
      /\ At(heap, current') = c + ObjectWords(heap, c) /\ c < At(heap, current')
      /\ At(heap, current') \in Nat
  BY <1>1, <1>3, NextEffect
<1>5. Bound' = Bound /\ run_start' # SENTINEL
  BY <1>1, <1>2 DEF Bound
<1>6. run_start' \in Addr /\ run_start' < At(heap, current')
  <2>1. run_start # SENTINEL => run_start \in Addr /\ run_start \in Nat /\ run_start < c
    BY <1>2, Numbers DEF SweepInv
  <2> QED
    BY <2>1, <1>1, <1>3, <1>4
<1>7. Swept(heap, roots, free_list, At(heap, current'), Bound)
  <2>1. Swept(heap, roots, free_list, c, Bound)
    BY <1>2 DEF SweepInv
  <2> QED
    BY <1>1, <1>4, <2>1, PassDead
<1> QED
  BY <1>1, <1>4, <1>5, <1>6, <1>7 DEF SweepInv, At

LEMMA SweepTailKeeps == SweepInv /\ SweepTail => SweepInv'
<1> SUFFICES ASSUME SweepInv, SweepTail PROVE SweepInv'
  OBVIOUS
<1> DEFINE b == run_start
           w == heap.watermark
<1>1. /\ current = SENTINEL /\ b # SENTINEL /\ run_start' = SENTINEL
      /\ heap' = MakeFreeBlock(heap, b, w) /\ free_list' = FreeBlock(heap', free_list, b)
      /\ UNCHANGED <<roots, current>>
  BY DEF SweepTail, CloseTail, CloseRun
<1>2. Swept(heap, roots, free_list, w, b) /\ b < w
  BY <1>1 DEF SweepInv, Bound, At
<1>3. Swept(heap', roots, free_list', w, w) /\ heap'.watermark = w
  BY <1>1, <1>2, CloseKeeps
<1>4. At(heap', current') = w /\ Bound' = At(heap', current')
  BY <1>1, <1>3 DEF At, Bound
<1> QED
  BY <1>1, <1>3, <1>4 DEF SweepInv

-----------------------------------------------------------------------------
(* The inductive invariant.                                                 *)

Types ==
    /\ pc \in {"run", "collect", "mark", "sweep", "return", "retry", "oom"}
    /\ req \in Request
    /\ out \in Outs
    /\ net \in Int
    /\ root \in 1 .. NRoots + 1
    /\ frames \in Seq(Frame)
    /\ current \in Addr \cup {SENTINEL}
    /\ run_start \in Addr \cup {SENTINEL}
    /\ free_before \in Nat

\* The heap and the lists in each phase: consistent but for a sweep that runs,
\* and without marks but for a collection that does.
Phase ==
    /\ pc # "sweep" => Consistent(heap, roots, free_list)
    /\ pc \notin {"mark", "sweep"} => NoMarks(heap)
    /\ pc # "mark" => root = 1 /\ frames = <<>>
    /\ pc = "mark" => MarkInv
    /\ pc = "sweep" => SweepInv

IInv == Types /\ Phase

LEMMA InitIInv == Init => IInv
<1> SUFFICES ASSUME Init PROVE IInv
  OBVIOUS
<1>0. /\ heap = EmptyHeap /\ roots = [r \in RootSlots |-> GC_NULL] /\ pc = "run" /\ req = NoReq
      /\ out = ZeroOut /\ net = 0 /\ root = 1 /\ frames = <<>> /\ free_list = ClearedLists
      /\ current = SENTINEL /\ run_start = SENTINEL /\ free_before = 0
  BY DEF Init, MutatorInit, MarkInit
<1>1. heap \in Heap /\ heap.watermark = Base
  <2>1. 0 \in Word /\ Base \in 0 .. HeapEnd /\ Stale \in Word
    BY Numbers DEF Word
  <2>2. [a \in Addr |-> IF a < Base THEN 0 ELSE Stale] \in [Addr -> Word]
    BY <2>1
  <2>3. [a \in Addr |-> NoTag] \in [Addr -> Tag]
    BY TagTypes
  <2> QED
    BY <1>0, <2>1, <2>2, <2>3 DEF EmptyHeap, Heap
<1>2. ~heap.tag[GC_NULL].ref
  <2>1. GC_NULL \in Addr
    BY Numbers DEF Addr
  <2> QED
    BY <1>0, <2>1 DEF EmptyHeap, NoTag
<1>3. Headers(heap, Base, Base) = {} /\ Tiled(heap, Base, Base)
  BY TiledEmpty
<1>4. FreeChunks(heap, Base) = {} /\ Allocated(heap, Base, Base) = {}
  BY <1>3 DEF FreeChunks, Allocated
<1>5. WellFormed(heap, roots, Base, Base)
  BY <1>0, <1>1, <1>3, <1>4, Numbers DEF WellFormed
<1>6. ListsHold(free_list, FreeChunks(heap, Base), heap)
  BY <1>0, <1>4, ListsNone
<1>7. Consistent(heap, roots, free_list)
  BY <1>1, <1>2, <1>4, <1>5, <1>6 DEF Consistent
<1>8. NoMarks(heap)
  BY <1>1, <1>3 DEF NoMarks
<1>9. Phase
  BY <1>0, <1>7, <1>8 DEF Phase
<1>10. Types
  <2>1. root \in 1 .. NRoots + 1
    BY <1>0, MutatorAssumption DEF MutatorAssumption
  <2>2. out \in Outs
    BY <1>0 DEF Outs, ZeroOut
  <2>3. req \in Request
    BY <1>0 DEF Request
  <2> QED
    BY <1>0, <2>1, <2>2, <2>3 DEF Types
<1> QED
  BY <1>9, <1>10 DEF IInv

\* An array found or bumped is pushed.
LEMMA PushKeeps ==
    ASSUME NEW a, NEW r, Consistent(a.heap, roots, a.lists), NoMarks(a.heap),
           a.ref \in Allocated(a.heap, Base, a.heap.watermark),
           Push(r, a), heap' = a.heap, free_list' = a.lists, net \in Int
    PROVE  Consistent(heap', roots', free_list') /\ NoMarks(heap') /\ net' \in Int
<1>1. WellFormed(a.heap, roots, Base, a.heap.watermark)
  BY DEF Consistent
<1>2. WellFormed(a.heap, [roots EXCEPT ![r] = a.ref], Base, a.heap.watermark)
  BY <1>1, RootKeeps
<1>3. roots' = [roots EXCEPT ![r] = a.ref]
  BY DEF Push
<1>4. Consistent(heap', roots', free_list')
  BY <1>2, <1>3 DEF Consistent
<1>5. net' \in Int
  <2>1. a.heap \in Heap /\ a.ref \in Addr
    BY <1>1 DEF WellFormed, Allocated, Headers
  <2>2. ObjectWords(a.heap, a.ref) \in Nat
    BY <2>1, WordTypes
  <2> QED
    BY <2>2 DEF Push
<1> QED
  BY <1>4, <1>5

\* The program's instructions change neither chunks nor lengths.
LEMMA ProgramConsistent ==
    ASSUME Consistent(heap, roots, free_list), NoMarks(heap),
           ProgramStep \/ \E r, s \in RootSlots, k \in Elements : AIAStore(r, k, s)
    PROVE  Consistent(heap', roots', free_list) /\ NoMarks(heap')
<1> DEFINE w == heap.watermark
           F == FreeChunks(heap, w)
<1>1. WellFormed(heap, roots, Base, w)
  BY DEF Consistent
<1>2. /\ WellFormed(heap', roots', Base, w) /\ heap'.watermark = w
      /\ SameChunks(heap, heap', Base, w)
  BY <1>1, ProgramKeeps
<1>3. /\ heap'.tag = heap.tag /\ Headers(heap', Base, w) = Headers(heap, Base, w)
      /\ \A a \in Headers(heap, Base, w) : heap'.word[a] = heap.word[a]
  BY <1>2 DEF SameChunks, Headers
<1>4. FreeChunks(heap', w) = F /\ \A a \in F : heap'.word[a] = heap.word[a]
  BY <1>3 DEF FreeChunks
<1>5. ListsHold(free_list, F, heap')
  BY <1>4, ListsSame DEF Consistent
<1>6. Consistent(heap', roots', free_list)
  BY <1>2, <1>3, <1>4, <1>5 DEF Consistent, ObjectWords
<1> QED
  BY <1>2, <1>3, <1>6 DEF NoMarks

\* Marking does not touch what the lists depend on.
LEMMA MarkConsistent ==
    ASSUME Consistent(heap, roots, free_list), NEW g, SameButMarks(heap, g)
    PROVE  Consistent(g, roots, free_list)
<1> DEFINE w == heap.watermark
<1>1. WellFormed(heap, roots, Base, w) /\ heap \in Heap /\ Base \in Nat /\ w \in Nat
  BY DEF Consistent, WellFormed
<1>2. WellFormed(g, roots, Base, w) /\ Headers(g, Base, w) = Headers(heap, Base, w)
  BY <1>1, MarksOnly
<1>3. /\ g.word = heap.word /\ g.watermark = w
      /\ \A x \in Addr : g.tag[x].free = heap.tag[x].free /\ g.tag[x].ref = heap.tag[x].ref
  BY DEF SameButMarks
<1>4. FreeChunks(g, w) = FreeChunks(heap, w)
  <2>1. \A a \in Headers(heap, Base, w) : a \in Addr
    BY DEF Headers
  <2> QED
    BY <1>2, <1>3, <2>1 DEF FreeChunks
<1>5. ListsHold(free_list, FreeChunks(heap, w), g)
  BY <1>3, ListsSame DEF Consistent
<1>6. ~g.tag[GC_NULL].ref
  <2>1. GC_NULL \in Addr
    BY Numbers DEF Addr
  <2> QED
    BY <2>1, <1>3 DEF Consistent
<1> QED
  BY <1>2, <1>3, <1>4, <1>5, <1>6 DEF Consistent, ObjectWords

\* Without marks, the mark phase begins with nothing visited.
LEMMA MarkBegin ==
    ASSUME Consistent(heap, roots, free_list), NoMarks(heap), root = 1, frames = <<>>
    PROVE  MarkInv
  BY MarkBegins DEF Consistent

\* The words that a sweep adds up are naturals.
LEMMA CloseTypes ==
    ASSUME NEW h \in Heap, NEW end \in Nat, run_start \in Addr, run_start + Header <= end,
           end <= HeapEnd, NEW live \in Nat, out \in Outs, CloseRun(h, end, live)
    PROVE  out' \in Outs
<1> DEFINE size == ObjectWords(heap', run_start)
<1>1. /\ heap' = MakeFreeBlock(h, run_start, end)
      /\ out' = [out EXCEPT !.live = @ + live, !.free = @ + size,
                            !.largest = IF size > @ THEN size ELSE @]
  BY DEF CloseRun
<1>2. heap' \in Heap
  BY <1>1, MakeFreeBlockEffect
<1>3. size \in Nat
  BY <1>2, WordTypes
<1>4. out.live \in Nat /\ out.free \in Nat /\ out.largest \in Nat
  BY DEF Outs
<1> HIDE DEF size
<1> DEFINE live2 == out.live + live
           free2 == out.free + size
           largest2 == IF size > out.largest THEN size ELSE out.largest
<1>5. live2 \in Nat /\ free2 \in Nat /\ largest2 \in Nat
  BY <1>3, <1>4
<1>6. out' = [out EXCEPT !.live = live2, !.free = free2, !.largest = largest2]
  BY <1>1
<1> HIDE DEF live2, free2, largest2
<1> QED
  BY <1>5, <1>6 DEF Outs

LEMMA NewArrayIInv ==
    ASSUME IInv, NEW r \in RootSlots, NEW length \in Lengths, NEW ref \in Kinds,
           NEW id \in FreshIds, NewArray(r, length, ref, id)
    PROVE  IInv'
<1> DEFINE a == Alloc(length, ref, id)
<1>1. /\ length \in Nat /\ ref \in BOOLEAN /\ id \in Ids \cup {NoId} /\ pc = "run"
      /\ Consistent(heap, roots, free_list) /\ NoMarks(heap)
  BY MutatorAssumption DEF MutatorAssumption, NewArray, AllocFirst, IInv, Phase, FreshIds
<1>2. /\ heap' = a.heap /\ free_list' = a.lists
      /\ UNCHANGED <<root, frames, current, run_start, free_before>>
  BY DEF NewArray, AllocFirst, markVars
<1>3. /\ Types /\ root = 1 /\ frames = <<>>
  BY <1>1 DEF IInv, Phase
<1>4. CASE a.ref = SENTINEL
  <2>1. a.heap = heap /\ a.lists = free_list
    BY <1>1, <1>4, AllocEffect
  <2>2. /\ req' = [slot |-> r, length |-> length, ref |-> ref]
        /\ pc' = "collect" /\ out' = ZeroOut /\ UNCHANGED <<roots, net>>
    BY <1>4 DEF NewArray, AllocFirst, Stop
  <2>3. req' \in Request /\ out' \in Outs
    BY <1>1, <2>2 DEF Request, Outs, ZeroOut
  <2>4. Types'
    BY <1>2, <1>3, <2>2, <2>3 DEF Types
  <2>5. Phase'
    BY <1>1, <1>2, <1>3, <2>1, <2>2 DEF Phase
  <2> QED
    BY <2>4, <2>5 DEF IInv
<1>5. CASE a.ref # SENTINEL
  <2>1. /\ Consistent(a.heap, roots, a.lists) /\ NoMarks(a.heap)
        /\ a.ref \in Allocated(a.heap, Base, a.heap.watermark)
    BY <1>1, <1>5, AllocEffect
  <2>2. Push(r, a) /\ UNCHANGED <<pc, req, out>>
    BY <1>5 DEF NewArray, AllocFirst
  <2>3. net \in Int
    BY <1>3 DEF Types
  <2> HIDE DEF a
  <2>4. Consistent(heap', roots', free_list') /\ NoMarks(heap') /\ net' \in Int
    BY <1>2, <2>1, <2>2, <2>3, PushKeeps
  <2>5. Types'
    BY <1>2, <1>3, <2>2, <2>4 DEF Types
  <2>6. Phase'
    BY <1>1, <1>2, <1>3, <2>2, <2>4 DEF Phase
  <2> QED
    BY <2>5, <2>6 DEF IInv
<1> QED
  BY <1>4, <1>5

LEMMA RetryIInv ==
    ASSUME IInv, NEW id \in FreshIds, Retry(id)
    PROVE  IInv'
<1> DEFINE a == Alloc(req.length, req.ref, id)
<1>1. /\ req.length \in Nat /\ req.ref \in BOOLEAN /\ id \in Ids \cup {NoId} /\ pc = "retry"
      /\ Consistent(heap, roots, free_list) /\ NoMarks(heap)
  <2>1. pc = "retry"
    BY DEF Retry, AllocRetry
  <2>2. Consistent(heap, roots, free_list) /\ NoMarks(heap)
    BY <2>1 DEF IInv, Phase
  <2>3. req \in Request
    BY DEF IInv, Types
  <2>4. req.length \in Nat /\ req.ref \in BOOLEAN
    <3>1. CASE req = NoReq
      BY <3>1 DEF NoReq
    <3>2. CASE req \in [slot : RootSlots, length : Lengths, ref : BOOLEAN]
      <4>1. req.length \in Lengths /\ req.ref \in BOOLEAN
        BY <3>2
      <4> QED
        BY <4>1, MutatorAssumption DEF MutatorAssumption
    <3> QED
      BY <2>3, <3>1, <3>2 DEF Request
  <2>5. id \in Ids \cup {NoId}
    BY DEF FreshIds
  <2> QED
    BY <2>1, <2>2, <2>4, <2>5
<1>2. /\ heap' = a.heap /\ free_list' = a.lists /\ req' = NoReq
      /\ UNCHANGED <<out, root, frames, current, run_start, free_before>>
  BY DEF Retry, AllocRetry, markVars
<1>3. /\ Types /\ root = 1 /\ frames = <<>>
  BY <1>1 DEF IInv, Phase
<1>4. req' \in Request
  BY <1>2 DEF Request
<1>5. CASE a.ref = SENTINEL
  <2>1. a.heap = heap /\ a.lists = free_list
    BY <1>1, <1>5, AllocEffect
  <2>2. pc' = "oom" /\ UNCHANGED <<roots, net>>
    BY <1>5 DEF Retry, AllocRetry
  <2>3. Types'
    BY <1>2, <1>3, <1>4, <2>2 DEF Types
  <2>4. Phase'
    BY <1>1, <1>2, <1>3, <2>1, <2>2 DEF Phase
  <2> QED
    BY <2>3, <2>4 DEF IInv
<1>6. CASE a.ref # SENTINEL
  <2>1. /\ Consistent(a.heap, roots, a.lists) /\ NoMarks(a.heap)
        /\ a.ref \in Allocated(a.heap, Base, a.heap.watermark)
    BY <1>1, <1>6, AllocEffect
  <2>2. Push(req.slot, a) /\ pc' = "run"
    BY <1>6 DEF Retry, AllocRetry
  <2>3. net \in Int
    BY <1>3 DEF Types
  <2> HIDE DEF a
  <2>4. Consistent(heap', roots', free_list') /\ NoMarks(heap') /\ net' \in Int
    BY <1>2, <2>1, <2>2, <2>3, PushKeeps
  <2>5. Types'
    BY <1>2, <1>3, <1>4, <2>2, <2>4 DEF Types
  <2>6. Phase'
    BY <1>2, <1>3, <2>2, <2>4 DEF Phase
  <2> QED
    BY <2>5, <2>6 DEF IInv
<1> QED
  BY <1>5, <1>6

LEMMA SweepStartIInv ==
    ASSUME IInv, SweepStart
    PROVE  IInv'
<1>1. /\ MarkDone /\ pc = "mark" /\ frames = <<>> /\ MarkInv /\ Types
      /\ Consistent(heap, roots, free_list)
  BY DEF IInv, Phase, SweepStart, MarkDone
<1>2. /\ pc' = "sweep" /\ free_list' = ClearedLists /\ current' = HeapFirst(heap)
      /\ run_start' = SENTINEL /\ root' = 1
      /\ free_before' = CountFreeListWords(heap, free_list)
      /\ UNCHANGED <<heap, roots, req, out, net, frames>>
  BY DEF SweepStart
<1>3. /\ HeapFirst(heap) \in Headers(heap, Base, heap.watermark) \cup {SENTINEL}
      /\ At(heap, HeapFirst(heap)) = Base
      /\ Swept(heap, roots, ClearedLists, Base, Base)
  BY <1>1, SweepBegin
<1>4. free_before' \in Nat
  <2>1. free_list \in [Buckets -> Seq(Addr)]
    BY <1>1 DEF Consistent, ListsHold
  <2> QED
    BY <1>2, <2>1, CountType
<1>5. SweepInv'
  <2>1. At(heap', current') = Base /\ Bound' = Base
    BY <1>2, <1>3 DEF Bound
  <2> QED
    BY <1>2, <1>3, <2>1 DEF SweepInv
<1>6. Types'
  <2>1. current' \in Addr \cup {SENTINEL}
    BY <1>2, <1>3 DEF Headers
  <2>2. root' \in 1 .. NRoots + 1
    BY <1>2, MutatorAssumption DEF MutatorAssumption
  <2> QED
    BY <1>1, <1>2, <1>4, <2>1, <2>2 DEF Types
<1>7. Phase'
  BY <1>1, <1>2, <1>5 DEF Phase
<1> QED
  BY <1>6, <1>7 DEF IInv

\* What the three steps of the sweep's walk have in common.
LEMMA WalkIInv ==
    ASSUME IInv, pc = "sweep", SweepInv', out' \in Outs,
           UNCHANGED <<pc, req, net, root, frames, free_before>>
    PROVE  IInv'
<1>1. Types /\ root = 1 /\ frames = <<>>
  BY DEF IInv, Phase
<1>2. current' \in Addr \cup {SENTINEL} /\ run_start' \in Addr \cup {SENTINEL}
  BY DEF SweepInv, Headers
<1>3. Types'
  BY <1>1, <1>2 DEF Types
<1>4. Phase'
  BY <1>1 DEF Phase
<1> QED
  BY <1>3, <1>4 DEF IInv

LEMMA SweepMarkedIInv ==
    ASSUME IInv, SweepMarked
    PROVE  IInv'
<1>1. SweepInv /\ pc = "sweep" /\ Types /\ out \in Outs /\ current # SENTINEL
  BY DEF IInv, Phase, SweepMarked, Types
<1>2. SweepInv'
  BY <1>1, SweepMarkedKeeps
<1>3. heap \in Heap /\ current \in Addr
  BY <1>1, HeadersWithin DEF SweepInv, Swept
<1>4. ObjectWords(heap, current) \in Nat
  BY <1>3, WordTypes
<1>5. out' \in Outs
  <2>1. CASE run_start = SENTINEL
    <3> DEFINE live == out.live + ObjectWords(heap, current)
    <3>1. out' = [out EXCEPT !.live = live]
      BY <2>1 DEF SweepMarked
    <3>2. out.live \in Nat
      BY <1>1 DEF Outs
    <3>3. live \in Nat
      BY <1>4, <3>2
    <3> HIDE DEF live
    <3> QED
      BY <1>1, <3>1, <3>3 DEF Outs
  <2>2. CASE run_start # SENTINEL
    <3>1. CloseRun(ClearMarked(heap, current), current, ObjectWords(heap, current))
      BY <2>2 DEF SweepMarked, Unmarked
    <3>2. Swept(heap, roots, free_list, current, run_start) /\ run_start < current
      BY <1>1, <2>2 DEF SweepInv, Bound, At
    <3>3. /\ run_start \in Addr /\ run_start + Header <= current
          /\ current \in Nat /\ current <= HeapEnd
      BY <3>2, RunFits
    <3>4. ClearMarked(heap, current) \in Heap
      BY <1>3, MarkEffect DEF SameButMarks
    <3> QED
      BY <1>1, <1>4, <3>1, <3>3, <3>4, CloseTypes
  <2> QED
    BY <2>1, <2>2
<1>6. UNCHANGED <<pc, req, net, root, frames, free_before>>
  BY DEF SweepMarked, markVars
<1> QED
  BY <1>1, <1>2, <1>5, <1>6, WalkIInv

LEMMA SweepDeadIInv ==
    ASSUME IInv, SweepDead
    PROVE  IInv'
<1>1. SweepInv /\ pc = "sweep" /\ out \in Outs
  BY DEF IInv, Phase, SweepDead, Types
<1>2. SweepInv'
  BY <1>1, SweepDeadKeeps
<1>3. UNCHANGED <<pc, req, out, net, root, frames, free_before>>
  BY DEF SweepDead, ExtendRun, markVars
<1> QED
  BY <1>1, <1>2, <1>3, WalkIInv

LEMMA SweepTailIInv ==
    ASSUME IInv, SweepTail
    PROVE  IInv'
<1>1. SweepInv /\ pc = "sweep" /\ out \in Outs /\ current = SENTINEL /\ run_start # SENTINEL
  BY DEF IInv, Phase, SweepTail, Types
<1>2. SweepInv'
  BY <1>1, SweepTailKeeps
<1>3. out' \in Outs
  <2>1. CloseRun(heap, heap.watermark, 0)
    BY DEF SweepTail, CloseTail
  <2>2. Swept(heap, roots, free_list, heap.watermark, run_start) /\ run_start < heap.watermark
    BY <1>1 DEF SweepInv, Bound, At
  <2>3. /\ heap \in Heap /\ run_start \in Addr /\ run_start + Header <= heap.watermark
        /\ heap.watermark \in Nat /\ heap.watermark <= HeapEnd
    BY <2>2, RunFits
  <2> QED
    BY <1>1, <2>1, <2>3, CloseTypes
<1>4. UNCHANGED <<pc, req, net, root, frames, free_before>>
  BY DEF SweepTail, markVars
<1> QED
  BY <1>1, <1>2, <1>3, <1>4, WalkIInv

LEMMA SweepEndIInv ==
    ASSUME IInv, SweepEnd
    PROVE  IInv'
<1>1. /\ pc = "sweep" /\ SweepInv /\ current = SENTINEL /\ run_start = SENTINEL /\ Types
      /\ root = 1 /\ frames = <<>>
  BY DEF IInv, Phase, SweepEnd
<1>2. /\ pc' = "return" /\ out' = [out EXCEPT !.freed = Freed] /\ free_before' = 0
      /\ UNCHANGED <<heap, roots, req, net, root, frames, free_list, current, run_start>>
  BY DEF SweepEnd, markVars
<1>3. Swept(heap, roots, free_list, heap.watermark, heap.watermark)
  BY <1>1 DEF SweepInv, Bound, At
<1>4. Consistent(heap, roots, free_list) /\ NoMarks(heap)
  BY <1>3, SweepFinish
<1>5. out' \in Outs
  <2>1. out \in Outs /\ free_before \in Nat
    BY <1>1 DEF Types
  <2>2. out.free \in Nat
    BY <2>1 DEF Outs
  <2>3. Freed \in Nat
    BY <2>1, <2>2 DEF Freed
  <2> QED
    BY <1>2, <2>1, <2>3 DEF Outs
<1>6. Types'
  BY <1>1, <1>2, <1>5 DEF Types
<1>7. Phase'
  BY <1>1, <1>2, <1>4 DEF Phase
<1> QED
  BY <1>6, <1>7 DEF IInv

LEMMA NextIInv == IInv /\ [Next]_vars => IInv'
<1> SUFFICES ASSUME IInv, [Next]_vars PROVE IInv'
  OBVIOUS
<1>0. Types /\ Phase
  BY DEF IInv
<1>1. ASSUME NEW r \in RootSlots, NEW length \in Lengths, NEW ref \in Kinds,
             NEW id \in FreshIds, NewArray(r, length, ref, id)
      PROVE  IInv'
  BY <1>1, NewArrayIInv
<1>2. ASSUME NEW id \in FreshIds, Retry(id)
      PROVE  IInv'
  BY <1>2, RetryIInv
<1>3. CASE (ProgramStep \/ \E r, s \in RootSlots, k \in Elements : AIAStore(r, k, s))
           /\ UNCHANGED <<markVars, sweepVars>>
  <2>1. pc = "run"
    BY <1>3 DEF ProgramStep, AIALoad, IAStore, Pop, AIAStore
  <2>2. Consistent(heap, roots, free_list) /\ NoMarks(heap) /\ root = 1 /\ frames = <<>>
    BY <1>0, <2>1 DEF Phase
  <2>3. Consistent(heap', roots', free_list) /\ NoMarks(heap')
    BY <1>3, <2>2, ProgramConsistent
  <2>4. UNCHANGED <<pc, req, out, net>>
    BY <1>3 DEF ProgramStep, AIALoad, IAStore, Pop, AIAStore, WriteElement
  <2>5. UNCHANGED <<root, frames, free_list, current, run_start, free_before>>
    BY <1>3 DEF markVars, sweepVars
  <2>6. Types'
    BY <1>0, <2>4, <2>5 DEF Types
  <2>7. Phase'
    BY <2>1, <2>2, <2>3, <2>4, <2>5 DEF Phase
  <2> QED
    BY <2>6, <2>7 DEF IInv
<1>4. CASE GCInstruction /\ UNCHANGED <<markVars, sweepVars>>
  <2>1. /\ pc = "run" /\ pc' = "collect" /\ req' = NoReq /\ out' = ZeroOut
        /\ UNCHANGED <<heap, roots, net, root, frames, free_list, current, run_start, free_before>>
    BY <1>4 DEF GCInstruction, Stop, markVars, sweepVars
  <2>2. req' \in Request /\ out' \in Outs
    BY <2>1 DEF Request, Outs, ZeroOut
  <2>3. Types'
    BY <1>0, <2>1, <2>2 DEF Types
  <2>4. Phase'
    BY <1>0, <2>1 DEF Phase
  <2> QED
    BY <2>3, <2>4 DEF IInv
<1>5. CASE Collect
  <2>1. /\ pc = "collect" /\ pc' = "mark"
        /\ UNCHANGED <<heap, roots, req, out, net, root, frames, free_list, current, run_start,
                       free_before>>
    BY <1>5 DEF Collect, markVars, sweepVars
  <2>2. Consistent(heap, roots, free_list) /\ NoMarks(heap) /\ root = 1 /\ frames = <<>>
    BY <1>0, <2>1 DEF Phase
  <2>3. MarkInv
    BY <2>2, MarkBegin
  <2>4. MarkInv'
    BY <2>1, <2>3 DEF MarkInv, Marked, Arrays
  <2>5. Types'
    BY <1>0, <2>1 DEF Types
  <2>6. Phase'
    BY <2>1, <2>2, <2>4 DEF Phase
  <2> QED
    BY <2>5, <2>6 DEF IInv
<1>6. CASE (VisitRoot \/ VisitRef) /\ UNCHANGED sweepVars
  <2>1. /\ pc = "mark" /\ UNCHANGED <<pc, req, out, net, roots>>
        /\ UNCHANGED <<free_list, current, run_start, free_before>>
    BY <1>6 DEF VisitRoot, VisitRef, sweepVars
  <2>2. MarkInv /\ Consistent(heap, roots, free_list)
    BY <1>0, <2>1 DEF Phase
  <2>3. MarkInv' /\ SameButMarks(heap, heap')
    BY <1>6, <2>2, VisitRootKeeps, VisitRefKeeps
  <2>4. Consistent(heap', roots, free_list)
    BY <2>2, <2>3, MarkConsistent
  <2>5. root' \in 1 .. NRoots + 1 /\ frames' \in Seq(Frame)
    BY <2>3 DEF MarkInv
  <2>6. Types'
    BY <1>0, <2>1, <2>5 DEF Types
  <2>7. Phase'
    BY <2>1, <2>3, <2>4 DEF Phase
  <2> QED
    BY <2>6, <2>7 DEF IInv
<1>7. CASE CollectReturn /\ UNCHANGED <<markVars, sweepVars>>
  <2>1. /\ pc = "return" /\ pc' \in {"run", "retry"} /\ out' = ZeroOut
        /\ net' = (IF CountBytes THEN net - out.freed ELSE 0)
        /\ UNCHANGED <<heap, roots, req, root, frames, free_list, current, run_start, free_before>>
    BY <1>7 DEF CollectReturn, markVars, sweepVars
  <2>2. net' \in Int
    <3>1. net \in Int /\ out \in Outs
      BY <1>0 DEF Types
    <3>2. out.freed \in Nat
      BY <3>1 DEF Outs
    <3> QED
      BY <2>1, <3>1, <3>2
  <2>3. out' \in Outs
    BY <2>1 DEF Outs, ZeroOut
  <2>4. Types'
    BY <1>0, <2>1, <2>2, <2>3 DEF Types
  <2>5. Phase'
    BY <1>0, <2>1 DEF Phase
  <2> QED
    BY <2>4, <2>5 DEF IInv
<1>8. CASE UNCHANGED vars
  <2>1. UNCHANGED <<heap, roots, pc, req, out, net, root, frames, free_list, current, run_start,
                    free_before>>
    BY <1>8 DEF vars, mutatorVars, markVars, sweepVars
  <2>2. Types'
    BY <1>0, <2>1 DEF Types
  <2>3. MarkInv => MarkInv'
    BY <2>1 DEF MarkInv, Marked, Arrays
  <2>4. SweepInv => SweepInv'
    BY <2>1 DEF SweepInv, Bound
  <2>5. Phase'
    BY <1>0, <2>1, <2>3, <2>4 DEF Phase
  <2> QED
    BY <2>2, <2>5 DEF IInv
<1>9. CASE SweepStart
  BY <1>9, SweepStartIInv
<1>10. CASE SweepMarked
  BY <1>10, SweepMarkedIInv
<1>11. CASE SweepDead
  BY <1>11, SweepDeadIInv
<1>12. CASE SweepTail
  BY <1>12, SweepTailIInv
<1>13. CASE SweepEnd
  BY <1>13, SweepEndIInv
<1> QED
  BY <1>1, <1>2, <1>3, <1>4, <1>5, <1>6, <1>7, <1>8, <1>9, <1>10, <1>11, <1>12, <1>13
     DEF Next, Program, CollectorStep

LEMMA AlwaysIInv == Spec => []IInv
  BY InitIInv, NextIInv, PTL DEF Spec
-----------------------------------------------------------------------------
(* The program's view.                                                      *)

\* Outside [b, next) the arrays are untouched, but for marks.
Outside(h, g, b, next) ==
    \A x \in Addr : x < b \/ x >= next =>
       g.word[x] = h.word[x] /\ g.tag[x].ref = h.tag[x].ref /\ g.tag[x].id = h.tag[x].id

\* A chunk that ends before b or begins after next is as it was.
LEMMA OutsideUnmoved ==
    ASSUME NEW h \in Heap, NEW start \in Nat, NEW end \in Nat, end <= HeapEnd, Tiled(h, start, end),
           NEW a \in Headers(h, start, end), NEW b, NEW next, b \in Nat, next \in Nat,
           a + ObjectWords(h, a) <= b \/ next <= a,
           NEW g, Outside(h, g, b, next)
    PROVE  Unmoved(h, g, a)
<1>1. /\ a \in Addr /\ a \in Nat /\ h.word[a] \in Nat /\ ObjectWords(h, a) = 2 + h.word[a]
      /\ a + ObjectWords(h, a) <= end /\ HeapEnd \in Nat
  BY TiledWithin, WordTypes, Numbers
<1>2. a + Header + h.word[a] <= HeapEnd
  BY <1>1
<1>3. ASSUME NEW x \in Addr, x >= a, x < a + Header + h.word[a] PROVE x < b \/ x >= next
  <2>1. x \in Nat
    BY Numbers
  <2> QED
    BY <1>1, <1>3, <2>1
<1>4. a < b \/ a >= next
  BY <1>1
<1>5. /\ \A x \in Addr : x >= a /\ x < a + Header + h.word[a] => g.word[x] = h.word[x]
      /\ g.tag[a].ref = h.tag[a].ref /\ g.tag[a].id = h.tag[a].id
  BY <1>1, <1>3, <1>4 DEF Outside
<1> QED
  BY <1>1, <1>2, <1>5, UntouchedUnmoved

\* Whatever block it reuses, mark_sweep_alloc hands out an array that is new to
\* the program and leaves those it knows.
LEMMA AllocIsFresh ==
    ASSUME Consistent(heap, roots, free_list), NoMarks(heap),
           NEW length \in Nat, NEW ref \in BOOLEAN, NEW id \in FreshIds,
           NEW a, a = Alloc(length, ref, id), a.ref # SENTINEL
    PROVE  /\ roots \in [RootSlots -> Addr] /\ Readable(heap, Live(heap, roots))
           /\ \A b \in Live(heap, roots) : Unmoved(heap, a.heap, b)
           /\ Zeroed(a.heap, a.ref, length, ArrayTag(ref, id))
<1> DEFINE f == FindFreeBlock(heap, free_list, length)
           s == SplitBlock(heap, f.ref, length, ref, id)
           raw == RawAlloc(heap, length, ref, id)
           F == FreeChunks(heap, heap.watermark)
           L == Live(heap, roots)
<1>1. /\ WellFormed(heap, roots, Base, heap.watermark) /\ ListsHold(free_list, F, heap)
      /\ heap \in Heap /\ heap.watermark \in Nat /\ Base <= heap.watermark
      /\ heap.watermark <= HeapEnd /\ Tiled(heap, Base, heap.watermark)
      /\ id \in Ids \cup {NoId} /\ F \subseteq Addr
  BY WellFormedTypes DEF Consistent, FreshIds, WellFormed, FreeChunks, Headers
<1>2. CASE f.ref = SENTINEL
  <2>1. a.ref = raw.ref /\ a.heap = raw.heap
    BY <1>2 DEF Alloc
  <2>2. raw.ref # SENTINEL
    BY <2>1
  <2>3. /\ roots \in [RootSlots -> Addr] /\ Readable(heap, L)
        /\ \A b \in L : Unmoved(heap, raw.heap, b)
        /\ Zeroed(raw.heap, raw.ref, length, ArrayTag(ref, id))
    <3> HIDE DEF f, s, L, raw
    <3> QED
      BY <1>1, <2>2, BumpIsFresh DEF L, raw
  <2> HIDE DEF f, s, raw
  <2> QED
    BY <2>1, <2>3
<1>3. CASE f.ref # SENTINEL
  <2>1. a.ref = f.ref /\ a.heap = s.heap
    BY <1>3 DEF Alloc
  <2>2. \/ f.ref = SENTINEL /\ f.lists = free_list /\ \A b \in F : ObjectLength(heap, b) < length
        \/ /\ f.ref \in F /\ f.ref # SENTINEL /\ ObjectLength(heap, f.ref) >= length
           /\ ListsHold(f.lists, F \ {f.ref}, heap)
    BY <1>1, FindEffect
  <2>3. f.ref \in F /\ ObjectLength(heap, f.ref) >= length
    BY <2>2, <1>3
  <2> HIDE DEF f
  <2>4. /\ WellFormed(s.heap, roots, Base, heap.watermark) /\ BlockTaken(heap, s.heap, f.ref, s.rem)
        /\ Zeroed(s.heap, f.ref, length, ArrayTag(ref, id))
    BY <1>1, <2>3, SplitEffect
  <2> HIDE DEF s
  <2>5. /\ Readable(heap, L) /\ roots \in [RootSlots -> Addr]
        /\ L \subseteq Allocated(heap, Base, heap.watermark)
    BY <1>1, WellFormedLive
  <2> HIDE DEF L
  <2>6. ASSUME NEW b \in L PROVE Unmoved(heap, a.heap, b)
    <3> DEFINE e == f.ref + ObjectWords(heap, f.ref)
    <3>1. /\ b \in Headers(heap, Base, heap.watermark) /\ ~heap.tag[b].free
          /\ f.ref \in Headers(heap, Base, heap.watermark) /\ heap.tag[f.ref].free
      BY <2>3, <2>5 DEF Allocated, FreeChunks
    <3>2. /\ f.ref \in Nat /\ ObjectWords(heap, f.ref) \in Nat /\ e \in Nat /\ Base \in Nat
      BY <1>1, <3>1, TiledWithin
    <3>3. \/ b < f.ref /\ b + ObjectWords(heap, b) <= f.ref
          \/ f.ref < b /\ f.ref + ObjectWords(heap, f.ref) <= b
      BY <1>1, <3>1, <3>2, ChunksApart
    <3>4. Outside(heap, a.heap, f.ref, e)
      BY <2>1, <2>4 DEF BlockTaken, Outside
    <3>5. b + ObjectWords(heap, b) <= f.ref \/ e <= b
      BY <3>3
    <3> HIDE DEF e
    <3> QED
      BY <1>1, <3>1, <3>2, <3>4, <3>5, OutsideUnmoved
  <2>7. Zeroed(a.heap, a.ref, length, ArrayTag(ref, id))
    BY <2>1, <2>4
  <2> QED
    BY <2>5, <2>6, <2>7 DEF L
<1> QED
  BY <1>2, <1>3

\* The array that alloc returned is pushed.
LEMMA AllocSees ==
    ASSUME Consistent(heap, roots, free_list), NoMarks(heap), Seen,
           NEW length \in Nat, NEW ref \in BOOLEAN, NEW id \in FreshIds,
           NEW a, a = Alloc(length, ref, id), a.ref # SENTINEL,
           NEW r, Push(r, a), heap' = a.heap
    PROVE  Seen'
  BY AllocIsFresh, PushSees

LEMMA AllocIsNew ==
    ASSUME Consistent(heap, roots, free_list), NoMarks(heap), Seen,
           NEW length \in Lengths, length \in Nat, NEW ref \in BOOLEAN, NEW id \in FreshIds,
           NEW a, a = Alloc(length, ref, id), a.ref # SENTINEL,
           NEW r \in RootSlots, roots[r] = GC_NULL, Push(r, a), heap' = a.heap
    PROVE  Abstract!Next
<1>1. Abstract!New(r)
  BY AllocIsFresh, PushIsNew
<1> QED
  BY <1>1, NewIsAbstract

\* While the sweep runs, what the program reaches is kept.
LEMMA SweptLive ==
    ASSUME NEW h, NEW rs, NEW lists, NEW walked, NEW bound, Swept(h, rs, lists, walked, bound)
    PROVE  /\ Live(h, rs) \subseteq Kept(h, bound)
           /\ Readable(h, Live(h, rs)) /\ rs \in [RootSlots -> Addr]
<1> DEFINE K == Kept(h, bound)
           w == h.watermark
<1>1. /\ h \in Heap /\ Base <= w /\ w \in Nat /\ w <= HeapEnd /\ Base \in Nat /\ Tiled(h, Base, w)
      /\ rs \in [RootSlots -> K \cup {GC_NULL}]
      /\ \A a \in K : \A s \in RefSlots(h, a) : h.word[s] \in K \cup {GC_NULL}
  BY Numbers DEF Swept, Heap
<1>2. K \subseteq Headers(h, Base, w) /\ K \subseteq Addr
  BY DEF Kept, Allocated, Headers
<1>3. \A a \in K : a + ObjectWords(h, a) <= HeapEnd
  <2> SUFFICES ASSUME NEW a \in K PROVE a + ObjectWords(h, a) <= HeapEnd
    OBVIOUS
  <2>1. a \in Nat /\ a + ObjectWords(h, a) <= w /\ ObjectWords(h, a) \in Nat
    BY <1>1, <1>2, TiledWithin
  <2> QED
    BY <2>1, <1>1, Numbers
<1>4. K \cup {GC_NULL} \subseteq Addr
  BY <1>2, Numbers DEF Addr
<1> HIDE DEF K
<1>5. \A r \in RootSlots : rs[r] \in K \cup {GC_NULL}
  BY <1>1
<1>6. Live(h, rs) \subseteq K
  BY <1>1, <1>2, <1>5, LiveWithin
<1>7. Readable(h, Live(h, rs))
  BY <1>1, <1>2, <1>3, <1>6, ReadableWithin
<1>8. rs \in [RootSlots -> Addr]
  BY <1>1, <1>4
<1> QED
  BY <1>6, <1>7, <1>8 DEF K

\* Closing a run of dead chunks shows the program nothing.
LEMMA CloseSees ==
    ASSUME NEW h, NEW rs, NEW lists, NEW next, NEW b, Swept(h, rs, lists, next, b),
           Distinct(h, Live(h, rs)), NEW g, Outside(h, g, b, next)
    PROVE  ViewOf(g, rs) = ViewOf(h, rs) /\ Live(g, rs) = Live(h, rs) /\ Distinct(g, Live(g, rs))
<1> DEFINE L == Live(h, rs)
           w == h.watermark
           H == Headers(h, Base, w)
<1>1. /\ h \in Heap /\ Base <= w /\ w \in Nat /\ w <= HeapEnd /\ Base \in Nat /\ Tiled(h, Base, w)
      /\ next \in H \cup {w} /\ b \in H \cup {w} /\ b <= next
      /\ \A a \in H : h.tag[a].marked => next <= a
  BY Numbers DEF Swept, Heap
<1>2. L \subseteq Kept(h, b) /\ Readable(h, L) /\ rs \in [RootSlots -> Addr]
  BY SweptLive
<1>3. b \in Nat /\ next \in Nat
  BY <1>1, HeadersWithin
<1> HIDE DEF L
<1>4. ASSUME NEW a \in L PROVE Unmoved(h, g, a)
  <2>1. a \in H /\ (h.tag[a].marked \/ a < b)
    BY <1>2 DEF Kept, Allocated
  <2>2. a + ObjectWords(h, a) <= b \/ next <= a
    <3>1. CASE h.tag[a].marked
      BY <2>1, <3>1, <1>1
    <3>2. CASE a < b
      <4>1. a \in Nat /\ a + ObjectWords(h, a) <= w
        BY <2>1, <1>1, TiledWithin
      <4> QED
        BY <4>1, <2>1, <3>2, <1>1 DEF Tiled
    <3> QED
      BY <2>1, <3>1, <3>2
  <2> QED
    BY <1>1, <1>3, <2>1, <2>2, OutsideUnmoved
<1> QED
  BY <1>2, <1>4, UnmovedView DEF L

\* A step of the sweep shows the program nothing.
LEMMA SweepSees ==
    ASSUME SweepInv, Seen, SweepMarked \/ SweepDead \/ SweepTail
    PROVE  Seen' /\ Live(heap', roots') = Live(heap, roots)
<1> DEFINE w == heap.watermark
<1>1. view' = view /\ roots' = roots
  BY DEF SweepMarked, SweepDead, SweepTail
<1>2. /\ heap \in Heap /\ Tiled(heap, Base, w) /\ w \in Nat /\ w <= HeapEnd /\ Base \in Nat
      /\ current \in Headers(heap, Base, w) \cup {SENTINEL}
      /\ run_start \in Addr \cup {SENTINEL} /\ (run_start # SENTINEL => run_start < At(heap, current))
      /\ Swept(heap, roots, free_list, At(heap, current), Bound)
      /\ Bound \in Headers(heap, Base, w) \cup {w}
      /\ At(heap, current) \in Headers(heap, Base, w) \cup {w}
      /\ Distinct(heap, Live(heap, roots))
  BY Numbers DEF SweepInv, Swept, Heap, Seen
<1>3. Bound \in Nat /\ At(heap, current) \in Nat /\ At(heap, current) <= HeapEnd
  BY <1>2, HeadersWithin, Numbers
<1>4. SUFFICES Outside(heap, heap', Bound, At(heap, current))
  <2>1. /\ ViewOf(heap', roots) = ViewOf(heap, roots) /\ Distinct(heap', Live(heap', roots))
        /\ Live(heap', roots) = Live(heap, roots)
    BY <1>2, <1>4, CloseSees
  <2> QED
    BY <1>1, <2>1 DEF Seen
<1>5. ASSUME run_start # SENTINEL, NEW h \in Heap, NEW g,
             g = MakeFreeBlock(h, run_start, At(heap, current))
      PROVE  Untouched(h, g, run_start, At(heap, current))
  <2>1. Bound = run_start /\ run_start \in Addr
    BY <1>2, <1>5 DEF Bound
  <2>2. run_start \in Headers(heap, Base, w)
    <3>1. run_start < w \/ run_start # w
      BY <1>2, <1>3, <1>5, <2>1, HeadersWithin
    <3> QED
      BY <1>2, <1>3, <1>5, <2>1, <3>1, HeadersWithin
  <2>3. run_start + Header <= At(heap, current)
    <3>1. /\ ObjectWords(heap, run_start) \in Nat /\ ObjectWords(heap, run_start) >= Header
          /\ run_start \in Nat /\ run_start + ObjectWords(heap, run_start) <= w
      BY <1>2, <2>2, TiledWithin
    <3>2. run_start + ObjectWords(heap, run_start) <= At(heap, current)
      BY <1>2, <1>5, <2>2, <3>1 DEF Tiled
    <3> QED
      BY <1>3, <3>1, <3>2
  <2> QED
    BY <1>3, <1>5, <2>1, <2>3, MakeFreeBlockEffect
<1>6. CASE SweepDead
  <2>1. heap' = heap
    BY <1>6 DEF SweepDead, ExtendRun
  <2> QED
    BY <2>1 DEF Outside
<1>7. CASE SweepTail
  <2>1. /\ run_start # SENTINEL /\ At(heap, current) = w /\ Bound = run_start
        /\ heap' = MakeFreeBlock(heap, run_start, w)
    BY <1>7 DEF SweepTail, CloseTail, CloseRun, At, Bound
  <2>2. Untouched(heap, heap', run_start, w)
    BY <1>2, <1>5, <2>1
  <2> QED
    BY <2>1, <2>2 DEF Untouched, Outside
<1>8. CASE SweepMarked
  <2> DEFINE g == ClearMarked(heap, current)
  <2>1. /\ current \in Addr /\ At(heap, current) = current
    BY <1>2, <1>8 DEF SweepMarked, Headers, At
  <2>2. SameButMarks(heap, g) /\ g \in Heap
    BY <1>2, <2>1, MarkEffect DEF SameButMarks
  <2>3. Outside(heap, g, Bound, current)
    BY <2>2 DEF SameButMarks, Outside
  <2>4. CASE run_start = SENTINEL
    <3>1. heap' = g
      BY <1>8, <2>4 DEF SweepMarked, Unmarked
    <3> QED
      BY <3>1, <2>1, <2>3
  <2>5. CASE run_start # SENTINEL
    <3>1. heap' = MakeFreeBlock(g, run_start, current) /\ Bound = run_start
      BY <1>8, <2>5 DEF SweepMarked, CloseRun, Unmarked, Bound
    <3> HIDE DEF g
    <3>2. Untouched(g, heap', run_start, current)
      BY <1>5, <2>1, <2>2, <2>5, <3>1
    <3> QED
      BY <2>1, <2>3, <3>1, <3>2 DEF Outside, Untouched
  <2> QED
    BY <2>4, <2>5
<1> QED
  BY <1>6, <1>7, <1>8

LEMMA NextSeen == IInv /\ Seen /\ [Next]_vars => Seen'
<1> SUFFICES ASSUME IInv, Seen, [Next]_vars PROVE Seen'
  OBVIOUS
<1>0. Types /\ Phase
  BY DEF IInv
<1>1. ASSUME NEW r \in RootSlots, NEW length \in Lengths, NEW ref \in Kinds,
             NEW id \in FreshIds, NewArray(r, length, ref, id)
      PROVE  Seen'
  <2> DEFINE a == Alloc(length, ref, id)
  <2>1. /\ length \in Nat /\ ref \in BOOLEAN /\ id \in Ids \cup {NoId}
        /\ AllocFirst(r, length, ref, a) /\ heap' = a.heap /\ pc = "run"
    BY <1>1, AskedTypes DEF NewArray, AllocFirst
  <2>2. Consistent(heap, roots, free_list) /\ NoMarks(heap)
    BY <1>0, <2>1 DEF Phase
  <2>3. a.ref = SENTINEL => a.heap = heap
    BY <2>1, <2>2, AllocEffect
  <2>4. CASE a.ref = SENTINEL
    BY <2>1, <2>3, <2>4 DEF AllocFirst, Seen
  <2>5. CASE a.ref # SENTINEL
    <3>1. Push(r, a)
      BY <2>1, <2>5 DEF AllocFirst
    <3> QED
      BY <2>1, <2>2, <2>5, <3>1, AllocSees
  <2> QED
    BY <2>4, <2>5
<1>2. ASSUME NEW id \in FreshIds, Retry(id) PROVE Seen'
  <2> DEFINE a == Alloc(req.length, req.ref, id)
  <2>1. /\ req.length \in Nat /\ req.ref \in BOOLEAN /\ id \in Ids \cup {NoId}
        /\ AllocRetry(a) /\ heap' = a.heap /\ pc = "retry"
    BY <1>0, <1>2, AskedTypes DEF Retry, AllocRetry, Types
  <2>2. Consistent(heap, roots, free_list) /\ NoMarks(heap)
    BY <1>0, <2>1 DEF Phase
  <2>3. a.ref = SENTINEL => a.heap = heap
    BY <2>1, <2>2, AllocEffect
  <2>4. CASE a.ref = SENTINEL
    BY <2>1, <2>3, <2>4 DEF AllocRetry, Seen
  <2>5. CASE a.ref # SENTINEL
    <3>1. Push(req.slot, a)
      BY <2>1, <2>5 DEF AllocRetry
    <3> QED
      BY <2>1, <2>2, <2>5, <3>1, AllocSees
  <2> QED
    BY <2>4, <2>5
<1>3. CASE ProgramStep \/ \E r, s \in RootSlots, k \in Elements : AIAStore(r, k, s)
  <2>1. pc = "run"
    BY <1>3 DEF ProgramStep, AIALoad, IAStore, Pop, AIAStore
  <2>2. WellFormed(heap, roots, Base, heap.watermark)
    BY <1>0, <2>1 DEF Phase, Consistent
  <2> QED
    BY <1>3, <2>2, ProgramSees
<1>4. CASE VisitRoot \/ VisitRef
  <2>1. pc = "mark" /\ UNCHANGED <<roots, view>>
    BY <1>4 DEF VisitRoot, VisitRef
  <2>2. MarkInv /\ Consistent(heap, roots, free_list)
    BY <1>0, <2>1 DEF Phase
  <2>3. MarkInv' /\ SameButMarks(heap, heap')
    BY <1>4, <2>2, VisitRootKeeps, VisitRefKeeps
  <2>4. WellFormed(heap, roots, Base, heap.watermark)
    BY <2>2 DEF MarkInv
  <2> QED
    BY <2>1, <2>3, <2>4, MarkSees
<1>5. CASE SweepMarked \/ SweepDead \/ SweepTail
  <2>1. pc = "sweep"
    BY <1>5 DEF SweepMarked, SweepDead, SweepTail
  <2> QED
    BY <1>0, <1>5, <2>1, SweepSees DEF Phase
<1>6. CASE UNCHANGED <<heap, roots, view>>
  BY <1>6 DEF Seen
<1> QED
  BY <1>1, <1>2, <1>3, <1>4, <1>5, <1>6
     DEF Next, Program, CollectorStep, Collect, SweepStart, MarkDone, SweepEnd, CollectReturn,
         GCInstruction, Stop, vars, mutatorVars

LEMMA NextWaiting == Waiting /\ [Next]_vars => Waiting'
<1> SUFFICES ASSUME Waiting, [Next]_vars PROVE Waiting'
  OBVIOUS
<1>1. \/ \E r \in RootSlots, length \in Lengths, ref \in Kinds : \E a : AllocFirst(r, length, ref, a)
      \/ \E a : AllocRetry(a)
      \/ GCInstruction \/ CollectReturn
      \/ ProgramStep \/ \E r, s \in RootSlots, k \in Elements : AIAStore(r, k, s)
      \/ UNCHANGED <<roots, req>> /\ (pc' = pc \/ pc' \notin {"run", "retry"})
  BY DEF Next, Program, CollectorStep, NewArray, Retry, Collect, SweepStart, MarkDone, VisitRoot,
         VisitRef, SweepMarked, SweepDead, SweepTail, SweepEnd, vars, mutatorVars
<1> QED
  BY <1>1, WaitingKept

\* Each step of the program is one of AbstractHeap, and no step of a collection is.
LEMMA NextIsAbstract ==
    IInv /\ Seen /\ Waiting /\ [Next]_vars => [Abstract!Next]_(Abstract!vars)
<1> SUFFICES ASSUME IInv, Seen, Waiting, [Next]_vars
             PROVE  Abstract!Next \/ UNCHANGED view
  BY DEF Abstract!vars
<1>0. Types /\ Phase
  BY DEF IInv
<1>1. ASSUME NEW r \in RootSlots, NEW length \in Lengths, NEW ref \in Kinds,
             NEW id \in FreshIds, NewArray(r, length, ref, id)
      PROVE  Abstract!Next \/ UNCHANGED view
  <2> DEFINE a == Alloc(length, ref, id)
  <2>1. /\ length \in Nat /\ ref \in BOOLEAN /\ AllocFirst(r, length, ref, a)
        /\ heap' = a.heap /\ roots[r] = GC_NULL /\ pc = "run"
    BY <1>1, AskedTypes DEF NewArray, AllocFirst
  <2>2. Consistent(heap, roots, free_list) /\ NoMarks(heap)
    BY <1>0, <2>1 DEF Phase
  <2> HIDE DEF a
  <2>3. CASE a.ref = SENTINEL
    BY <2>1, <2>3 DEF AllocFirst
  <2>4. CASE a.ref # SENTINEL
    <3>1. Push(r, a)
      BY <2>1, <2>4 DEF AllocFirst
    <3> QED
      BY <2>1, <2>2, <2>4, <3>1, AllocIsNew DEF a
  <2> QED
    BY <2>3, <2>4
<1>2. ASSUME NEW id \in FreshIds, Retry(id) PROVE Abstract!Next \/ UNCHANGED view
  <2> DEFINE a == Alloc(req.length, req.ref, id)
             r == req.slot
  <2>1. AllocRetry(a) /\ heap' = a.heap /\ pc = "retry"
    BY <1>2 DEF Retry, AllocRetry
  <2>2. /\ r \in RootSlots /\ roots[r] = GC_NULL
        /\ req.length \in Lengths /\ req.length \in Nat /\ req.ref \in BOOLEAN
    BY <2>1, WaitingMeans
  <2>3. Consistent(heap, roots, free_list) /\ NoMarks(heap)
    BY <1>0, <2>1 DEF Phase
  <2> HIDE DEF a, r
  <2>4. CASE a.ref = SENTINEL
    BY <2>1, <2>4 DEF AllocRetry
  <2>5. CASE a.ref # SENTINEL
    <3>1. Push(r, a)
      BY <2>1, <2>5 DEF AllocRetry, r
    <3> QED
      BY <2>1, <2>2, <2>3, <2>5, <3>1, AllocIsNew DEF a
  <2> QED
    BY <2>4, <2>5
<1>3. CASE ProgramStep \/ \E r, s \in RootSlots, k \in Elements : AIAStore(r, k, s)
  <2>1. pc = "run"
    BY <1>3 DEF ProgramStep, AIALoad, IAStore, Pop, AIAStore
  <2>2. WellFormed(heap, roots, Base, heap.watermark)
    BY <1>0, <2>1 DEF Phase, Consistent
  <2> QED
    BY <1>3, <2>2, ProgramIsAbstract
<1>4. CASE UNCHANGED view
  BY <1>4
<1> QED
  BY <1>1, <1>2, <1>3, <1>4
     DEF Next, Program, CollectorStep, Collect, SweepStart, MarkDone, SweepEnd, CollectReturn,
         VisitRoot, VisitRef, SweepMarked, SweepDead, SweepTail, GCInstruction, Stop, vars,
         mutatorVars

-----------------------------------------------------------------------------
(* What a collection reports, and what gc_stats adds up.                    *)

\* The words of the heap that the chunks of S cover.
WordsOf(h, S) == Cardinality(Covered(h, S))

\* Two sets of chunks that share none cover as many words as both together.
LEMMA WordsApart ==
    ASSUME NEW h \in Heap, NEW start \in Nat, NEW end \in Nat, start <= end, Tiled(h, start, end),
           NEW S, S \subseteq Headers(h, start, end), NEW T, T \subseteq Headers(h, start, end),
           S \cap T = {}
    PROVE  /\ WordsOf(h, S) \in Nat /\ WordsOf(h, T) \in Nat
           /\ WordsOf(h, S \cup T) = WordsOf(h, S) + WordsOf(h, T)
<1> DEFINE C == Covered(h, S)
           D == Covered(h, T)
<1>1. /\ IsFiniteSet(C) /\ Cardinality(C) \in Nat
      /\ IsFiniteSet(D) /\ Cardinality(D) \in Nat
  BY CoveredWithin
<1>2. C \cap D = {}
  <2> SUFFICES ASSUME NEW a \in S, NEW b \in T, NEW x \in a .. (a + ObjectWords(h, a) - 1),
                      x \in b .. (b + ObjectWords(h, b) - 1)
               PROVE  FALSE
    BY DEF Covered
  <2>1. a \in Headers(h, start, end) /\ b \in Headers(h, start, end) /\ a # b
    OBVIOUS
  <2>2. /\ a \in Nat /\ ObjectWords(h, a) \in Nat
        /\ b \in Nat /\ ObjectWords(h, b) \in Nat
    BY <2>1, TiledWithin
  <2>3. \/ a < b /\ a + ObjectWords(h, a) <= b
        \/ b < a /\ b + ObjectWords(h, b) <= a
    BY <2>1, ChunksApart
  <2> QED
    BY <2>2, <2>3
<1>3. Covered(h, S \cup T) = C \cup D
  BY DEF Covered
<1> HIDE DEF C, D
<1>4. Cardinality(C \cup D) = Cardinality(C) + Cardinality(D) - Cardinality(C \cap D)
  BY <1>1, FS_Union
<1>5. Cardinality(C \cap D) = 0
  BY <1>2, FS_EmptySet
<1>6. Cardinality(C \cup D) = Cardinality(C) + Cardinality(D)
  BY <1>1, <1>4, <1>5
<1> QED
  BY <1>1, <1>3, <1>6 DEF WordsOf, C, D

\* The allocated and the free chunks of a tiled heap cover all of it.
LEMMA WordsAll ==
    ASSUME NEW h \in Heap, h.watermark \in Nat, Base <= h.watermark,
           Tiled(h, Base, h.watermark)
    PROVE  /\ WordsOf(h, Allocated(h, Base, h.watermark)) \in Nat
           /\ WordsOf(h, FreeChunks(h, h.watermark)) \in Nat
           /\ WordsOf(h, Allocated(h, Base, h.watermark)) + WordsOf(h, FreeChunks(h, h.watermark))
                 = h.watermark - Base
<1> DEFINE w == h.watermark
           H == Headers(h, Base, w)
           A == Allocated(h, Base, w)
           F == FreeChunks(h, w)
<1>1. A \subseteq H /\ F \subseteq H /\ A \cap F = {} /\ A \cup F = H
  BY DEF Allocated, FreeChunks
<1>2. h \in Heap /\ Base \in Nat /\ w \in Nat /\ Base <= w /\ Tiled(h, Base, w)
  OBVIOUS
<1> HIDE DEF A, F, w
<1>3. WordsOf(h, A) \in Nat /\ WordsOf(h, F) \in Nat /\ WordsOf(h, A \cup F) = WordsOf(h, A) + WordsOf(h, F)
  BY <1>1, <1>2, WordsApart
<1>4. WordsOf(h, H) = w - Base
  BY <1>2, TiledCovers DEF WordsOf
<1> QED
  BY <1>1, <1>3, <1>4 DEF A, F, w

\* The words depend on the lengths only, and more chunks cover more words.
LEMMA WordsSame ==
    ASSUME NEW h, NEW g, NEW S, \A a \in S : g.word[a] = h.word[a]
    PROVE  WordsOf(g, S) = WordsOf(h, S)
  BY CoveredBy DEF WordsOf

LEMMA WordsMore ==
    ASSUME NEW h \in Heap, NEW start \in Nat, NEW end \in Nat, start <= end, Tiled(h, start, end),
           NEW T, T \subseteq Headers(h, start, end), NEW S, S \subseteq T
    PROVE  WordsOf(h, S) \in Nat /\ WordsOf(h, T) \in Nat /\ WordsOf(h, S) <= WordsOf(h, T)
<1>1. T = S \cup (T \ S) /\ S \cap (T \ S) = {}
  OBVIOUS
<1>2. /\ WordsOf(h, S) \in Nat /\ WordsOf(h, T \ S) \in Nat
      /\ WordsOf(h, T) = WordsOf(h, S) + WordsOf(h, T \ S)
  BY <1>1, WordsApart
<1> QED
  BY <1>2

\* The greatest size of the chunks of S, 0 if there is none.
Greatest(h, S, m) ==
    /\ m \in Nat
    /\ \A a \in S : ObjectWords(h, a) <= m
    /\ (m = 0 \/ \E a \in S : ObjectWords(h, a) = m)

LEMMA GreatestOnly ==
    ASSUME NEW h \in Heap, NEW S, S \subseteq Addr, NEW m, NEW n, Greatest(h, S, m), Greatest(h, S, n)
    PROVE  m = n
<1>1. \A a \in S : ObjectWords(h, a) \in Nat
  BY ChunkSize
<1>2. m \in Nat /\ n \in Nat
  BY DEF Greatest
<1>3. n <= m
  BY <1>1, <1>2 DEF Greatest
<1>4. m <= n
  BY <1>1, <1>2 DEF Greatest
<1> QED
  BY <1>2, <1>3, <1>4

LEMMA GreatestGrows ==
    ASSUME NEW h \in Heap, NEW S, S \subseteq Addr, NEW p \in Addr, NEW m, Greatest(h, S, m),
           NEW n, n = IF ObjectWords(h, p) > m THEN ObjectWords(h, p) ELSE m
    PROVE  Greatest(h, S \cup {p}, n)
<1>1. /\ \A a \in S : ObjectWords(h, a) \in Nat
      /\ ObjectWords(h, p) \in Nat
  BY ChunkSize
<1>2. /\ m \in Nat /\ \A a \in S : ObjectWords(h, a) <= m
      /\ (m = 0 \/ \E a \in S : ObjectWords(h, a) = m)
  BY DEF Greatest
<1>3. n \in Nat /\ m <= n /\ ObjectWords(h, p) <= n /\ (n = m \/ n = ObjectWords(h, p))
  BY <1>1, <1>2
<1>4. \A a \in S : ObjectWords(h, a) <= n
  BY <1>1, <1>2, <1>3
<1>5. n = 0 \/ \E a \in S \cup {p} : ObjectWords(h, a) = n
  BY <1>2, <1>3
<1> QED
  BY <1>3, <1>4, <1>5 DEF Greatest

LEMMA GreatestSame ==
    ASSUME NEW h, NEW g, NEW S, \A a \in S : g.word[a] = h.word[a], NEW m, Greatest(h, S, m)
    PROVE  Greatest(g, S, m)
  BY DEF Greatest, ObjectWords

\* A fold that keeps the greater of two sizes finds the greatest.
LEMMA FoldGreatest ==
    ASSUME NEW h \in Heap, NEW S, S \subseteq Addr, NEW m, Greatest(h, S, m)
    PROVE  FoldSet(LAMBDA a, n : IF ObjectWords(h, a) > n THEN ObjectWords(h, a) ELSE n, 0, S) = m
<1> DEFINE Pick(s) == CHOOSE x \in s : TRUE
           Larger(a, n) == IF ObjectWords(h, a) > n THEN ObjectWords(h, a) ELSE n
           Equation(f) == f = [s \in SUBSET S |->
                                 IF s = {} THEN 0 ELSE Larger(Pick(s), f[s \ {Pick(s)}])]
           G(s) == CHOOSE n : Greatest(h, s, n)
           f0 == [s \in SUBSET S |-> G(s)]
           iter == CHOOSE f : Equation(f)
<1>1. FoldSet(LAMBDA a, n : IF ObjectWords(h, a) > n THEN ObjectWords(h, a) ELSE n, 0, S) = iter[S]
  BY DEF FoldSet, MapThenFoldSet
<1>2. IsFiniteSet(S)
  <2>1. IsFiniteSet(Addr)
    BY FS_Interval, Numbers DEF Addr
  <2> QED
    BY <2>1, FS_Subset
<1>3. \A s \in SUBSET S : s # {} => Pick(s) \in s
  OBVIOUS
<1> HIDE DEF Pick
<1>4. Greatest(h, {}, 0)
  BY DEF Greatest
<1>5. ASSUME NEW s \in SUBSET S, s # {}, NEW n, Greatest(h, s \ {Pick(s)}, n)
      PROVE  Greatest(h, s, Larger(Pick(s), n))
  <2> DEFINE p == Pick(s)
             T == s \ {p}
             l == Larger(p, n)
  <2>1. p \in Addr /\ T \subseteq Addr /\ T \cup {p} = s /\ Greatest(h, T, n)
    BY <1>3, <1>5
  <2>2. l = IF ObjectWords(h, p) > n THEN ObjectWords(h, p) ELSE n
    OBVIOUS
  <2> HIDE DEF p, T, l
  <2>3. Greatest(h, T \cup {p}, l)
    BY <2>1, <2>2, GreatestGrows
  <2> QED
    BY <2>1, <2>3 DEF p, T, l
<1> HIDE DEF Larger
<1> DEFINE Bad == {s \in SUBSET S : ~\E n : Greatest(h, s, n)}
           Sizes == {Cardinality(s) : s \in Bad}
<1>6. \A s \in SUBSET S : IsFiniteSet(s) /\ Cardinality(s) \in Nat
  BY <1>2, FS_Subset, FS_CardinalityType
<1>7. ASSUME NEW B \in SUBSET (SUBSET S), B # {}
      PROVE  \E s \in B : \A t \in B : ~(Cardinality(t) < Cardinality(s))
  <2> DEFINE N == {Cardinality(s) : s \in B}
  <2>1. N \subseteq Nat /\ N # {}
    BY <1>6, <1>7
  <2> HIDE DEF N
  <2>2. Min(N) \in N /\ \A k \in N : Min(N) <= k
    BY <2>1, MinExists
  <2>3. PICK s \in B : Cardinality(s) = Min(N)
    BY <2>2 DEF N
  <2>4. \A t \in B : Cardinality(t) \in N /\ Cardinality(t) \in Nat /\ Cardinality(s) \in Nat
    BY <1>6 DEF N
  <2> QED
    BY <2>2, <2>3, <2>4
<1>8. \A s \in SUBSET S : s # {} => /\ s \ {Pick(s)} \in SUBSET S
                                    /\ Cardinality(s \ {Pick(s)}) < Cardinality(s)
  <2> SUFFICES ASSUME NEW s \in SUBSET S, s # {}
               PROVE  s \ {Pick(s)} \in SUBSET S /\ Cardinality(s \ {Pick(s)}) < Cardinality(s)
    OBVIOUS
  <2>1. Cardinality(s \ {Pick(s)}) = Cardinality(s) - 1
    BY <1>3, <1>6, FS_RemoveElement
  <2> QED
    BY <1>6, <2>1
<1>9. \A s \in SUBSET S : \E n : Greatest(h, s, n)
  <2> SUFFICES ASSUME Bad # {} PROVE FALSE
    OBVIOUS
  <2>1. PICK s \in Bad : \A t \in Bad : ~(Cardinality(t) < Cardinality(s))
    BY <1>7
  <2>2. s # {}
    BY <1>4
  <2>3. s \ {Pick(s)} \notin Bad
    BY <1>8, <2>1, <2>2
  <2>4. \E n : Greatest(h, s \ {Pick(s)}, n)
    BY <1>8, <2>2, <2>3
  <2> QED
    BY <1>5, <2>2, <2>4
<1>10. \A s \in SUBSET S : Greatest(h, s, G(s))
  BY <1>9
<1> HIDE DEF G
<1>11. \A s \in SUBSET S : s # {} => G(s) = Larger(Pick(s), G(s \ {Pick(s)}))
  <2> SUFFICES ASSUME NEW s \in SUBSET S, s # {} PROVE G(s) = Larger(Pick(s), G(s \ {Pick(s)}))
    OBVIOUS
  <2>1. Greatest(h, s, Larger(Pick(s), G(s \ {Pick(s)})))
    BY <1>5, <1>8, <1>10
  <2>2. Greatest(h, s, G(s)) /\ s \subseteq Addr
    BY <1>10
  <2> QED
    BY <2>1, <2>2, GreatestOnly
<1>12. G({}) = 0
  <2>1. Greatest(h, {}, G({})) /\ {} \subseteq Addr
    BY <1>10
  <2> QED
    BY <2>1, <1>4, GreatestOnly
<1>13. Equation(f0)
  <2>1. \A s \in SUBSET S : f0[s] = IF s = {} THEN 0 ELSE Larger(Pick(s), f0[s \ {Pick(s)}])
    BY <1>8, <1>11, <1>12
  <2>2. f0 = [s \in SUBSET S |-> f0[s]]
    OBVIOUS
  <2> HIDE DEF f0
  <2> QED
    BY <2>1, <2>2
<1>14. Equation(iter)
  BY <1>13
<1> HIDE DEF iter
<1>15. \A s \in SUBSET S : iter[s] = IF s = {} THEN 0 ELSE Larger(Pick(s), iter[s \ {Pick(s)}])
  <2>1. iter = [s \in SUBSET S |-> IF s = {} THEN 0 ELSE Larger(Pick(s), iter[s \ {Pick(s)}])]
    BY <1>14
  <2> QED
    BY <2>1, Zenon
<1> HIDE DEF Equation, f0, Bad
<1>16. \A s \in SUBSET S : iter[s] = G(s)
  <2> DEFINE B == {s \in SUBSET S : iter[s] # G(s)}
  <2> SUFFICES ASSUME B # {} PROVE FALSE
    OBVIOUS
  <2>1. PICK s \in B : \A t \in B : ~(Cardinality(t) < Cardinality(s))
    BY <1>7
  <2>2. s # {} /\ s \in SUBSET S /\ iter[s] # G(s)
    BY <1>12, <1>15
  <2>3. iter[s \ {Pick(s)}] = G(s \ {Pick(s)})
    BY <1>8, <2>1, <2>2
  <2> QED
    BY <1>11, <1>15, <2>2, <2>3
<1>17. Greatest(h, S, iter[S])
  BY <1>10, <1>16
<1>18. iter[S] = m
  BY <1>17, GreatestOnly
<1> QED
  BY <1>1, <1>18

\* free_list_words counts, one by one, the words that the blocks on the lists cover.
LEMMA CountWords ==
    ASSUME NEW h \in Heap, NEW start \in Nat, NEW end \in Nat, start <= end, end <= HeapEnd,
           Tiled(h, start, end), NEW S, S \subseteq Headers(h, start, end),
           NEW lists, ListsHold(lists, S, h)
    PROVE  CountFreeListWords(h, lists) = WordsOf(h, S)
<1> DEFINE Words(i) == {w \in (DOMAIN lists[i]) \X (1 .. HeapEnd) :
                           w[2] <= ObjectWords(h, lists[i][w[1]])}
           U == UNION {{i} \X Words(i) : i \in Buckets}
           C == Covered(h, S)
           pos(u) == lists[u[1]][u[2][1]] + u[2][2] - 1
           Bucket(a) == FindFreeListIndex(ObjectLength(h, a))
<1>1. \A i \in Buckets : \A k \in DOMAIN lists[i] : \A n \in 1 .. HeapEnd :
         n <= ObjectWords(h, lists[i][k]) => <<i, <<k, n>>>> \in U
  <2> SUFFICES ASSUME NEW i \in Buckets, NEW k \in DOMAIN lists[i], NEW n \in 1 .. HeapEnd,
                      n <= ObjectWords(h, lists[i][k])
               PROVE  <<i, <<k, n>>>> \in U
    OBVIOUS
  <2>1. <<k, n>> \in Words(i)
    OBVIOUS
  <2> HIDE DEF Words
  <2> QED
    BY <2>1
<1>2. ASSUME NEW u \in U
      PROVE  /\ u[1] \in Buckets /\ u[2][1] \in DOMAIN lists[u[1]] /\ u[2][2] \in 1 .. HeapEnd
             /\ u[2][2] <= ObjectWords(h, lists[u[1]][u[2][1]])
             /\ u = <<u[1], <<u[2][1], u[2][2]>>>>
  <2>1. PICK i \in Buckets : u \in {i} \X Words(i)
    OBVIOUS
  <2>2. u = <<u[1], u[2]>> /\ u[1] = i /\ u[2] \in Words(i)
    <3> HIDE DEF Words
    <3> QED
      BY <2>1
  <2>3. /\ u[2] \in (DOMAIN lists[i]) \X (1 .. HeapEnd)
        /\ u[2][2] <= ObjectWords(h, lists[i][u[2][1]])
    BY <2>2
  <2>4. /\ u[2] = <<u[2][1], u[2][2]>> /\ u[2][1] \in DOMAIN lists[i] /\ u[2][2] \in 1 .. HeapEnd
    BY <2>3
  <2> HIDE DEF Words, U
  <2> QED
    BY <2>1, <2>2, <2>3, <2>4
<1>3. /\ \A i \in Buckets : \A k \in DOMAIN lists[i] :
            lists[i][k] \in S /\ Bucket(lists[i][k]) = i
      /\ \A a \in S : \E k \in DOMAIN lists[Bucket(a)] : lists[Bucket(a)][k] = a
      /\ \A i \in Buckets : \A k, l \in DOMAIN lists[i] : lists[i][k] = lists[i][l] => k = l
  BY DEF ListsHold, IsInjective
<1>4. \A a \in S : /\ a \in Addr /\ a \in Nat /\ ObjectWords(h, a) \in Nat
                   /\ a + ObjectWords(h, a) <= HeapEnd /\ Bucket(a) \in Buckets
  <2> SUFFICES ASSUME NEW a \in S
               PROVE  /\ a \in Addr /\ a \in Nat /\ ObjectWords(h, a) \in Nat
                      /\ a + ObjectWords(h, a) <= HeapEnd /\ Bucket(a) \in Buckets
    OBVIOUS
  <2>1. /\ a \in Addr /\ a \in Nat /\ ObjectWords(h, a) \in Nat /\ a + ObjectWords(h, a) <= end
    BY TiledWithin
  <2>2. ObjectLength(h, a) \in Nat
    BY <2>1, WordTypes
  <2>3. a + ObjectWords(h, a) <= HeapEnd
    BY <2>1, Numbers
  <2> QED
    BY <2>1, <2>2, <2>3, BucketOrder
<1>5. IsFiniteSet(C)
  BY CoveredWithin
<1> HIDE DEF U, Bucket
<1>6. ASSUME NEW u \in U PROVE pos(u) \in C
  <2> DEFINE a == lists[u[1]][u[2][1]]
  <2>1. a \in S /\ u[2][2] \in 1 .. HeapEnd /\ u[2][2] <= ObjectWords(h, a)
    BY <1>2, <1>3
  <2> HIDE DEF a
  <2>2. a + u[2][2] - 1 \in a .. (a + ObjectWords(h, a) - 1)
    BY <2>1, <1>4, Numbers
  <2>3. a + u[2][2] - 1 \in C
    BY <2>1, <2>2 DEF Covered
  <2> QED
    BY <2>3 DEF a
<1>7. ASSUME NEW x \in C PROVE \E u \in U : pos(u) = x
  <2>1. PICK a \in S : x \in a .. (a + ObjectWords(h, a) - 1)
    BY DEF Covered
  <2>2. PICK k \in DOMAIN lists[Bucket(a)] : lists[Bucket(a)][k] = a
    BY <1>3
  <2> DEFINE n == x - a + 1
             u == <<Bucket(a), <<k, n>>>>
  <2>3. n \in 1 .. HeapEnd /\ n <= ObjectWords(h, a) /\ a + n - 1 = x
    BY <2>1, <1>4, Numbers
  <2>4. Bucket(a) \in Buckets
    BY <1>4
  <2> HIDE DEF n
  <2>5. u \in U
    BY <2>2, <2>3, <2>4, <1>1
  <2>6. pos(u) = x
    BY <2>2, <2>3
  <2> QED
    BY <2>5, <2>6
<1>8. ASSUME NEW u \in U, NEW v \in U, pos(u) = pos(v) PROVE u = v
  <2> DEFINE a == lists[u[1]][u[2][1]]
             b == lists[v[1]][v[2][1]]
  <2>1. /\ a \in S /\ u[2][2] \in 1 .. HeapEnd /\ u[2][2] <= ObjectWords(h, a)
        /\ b \in S /\ v[2][2] \in 1 .. HeapEnd /\ v[2][2] <= ObjectWords(h, b)
        /\ Bucket(a) = u[1] /\ Bucket(b) = v[1]
    BY <1>2, <1>3
  <2>2. a + u[2][2] - 1 = b + v[2][2] - 1
    BY <1>8
  <2> HIDE DEF a, b
  <2>3. a = b
    <3>1. a \in Nat /\ ObjectWords(h, a) \in Nat /\ b \in Nat /\ ObjectWords(h, b) \in Nat
      BY <2>1, <1>4
    <3>2. a # b => \/ a < b /\ a + ObjectWords(h, a) <= b
                   \/ b < a /\ b + ObjectWords(h, b) <= a
      BY <2>1, ChunksApart
    <3> QED
      BY <2>1, <2>2, <3>1, <3>2, Numbers
  <2>4. u[1] = v[1] /\ u[2][2] = v[2][2]
    BY <2>1, <2>2, <2>3, <1>4, Numbers
  <2>5. u[2][1] = v[2][1]
    BY <2>3, <2>4, <1>2, <1>3 DEF a, b
  <2> QED
    BY <2>4, <2>5, <1>2
<1> HIDE DEF pos, C
<1> DEFINE f == [x \in C |-> CHOOSE u \in U : pos(u) = x]
<1>9. \A x \in C : f[x] \in U /\ pos(f[x]) = x
  BY <1>7
<1>10. \A u \in U : f[pos(u)] = u
  BY <1>6, <1>8, <1>9
<1>11. f \in [C -> U]
  BY <1>9
<1> HIDE DEF f
<1>12. f \in Surjection(C, U)
  BY <1>6, <1>10, <1>11 DEF Surjection
<1>13. f \in Injection(C, U)
  <2>1. \A x, y \in C : f[x] = f[y] => x = y
    BY <1>9
  <2> QED
    BY <2>1, <1>11 DEF Injection, IsInjective
<1>14. Cardinality(U) = Cardinality(C)
  BY <1>5, <1>12, <1>13, FS_Surjection
<1> QED
  BY <1>14 DEF CountFreeListWords, U, WordsOf, C

\* The figures o of a sweep describe the heap below bound: the words of the free
\* chunks, the greatest of these, and the words of the live chunks as the rest.
Tallied(h, o, bound) ==
    /\ o.live \in Nat /\ o.free \in Nat
    /\ o.live + o.free = bound - Base
    /\ o.free = WordsOf(h, FreeChunks(h, bound))
    /\ Greatest(h, FreeChunks(h, bound), o.largest)

\* Nothing is kept but what the program reaches, and there is room for the words
\* that were free.
Exact(h, rs, bound, free) ==
    /\ Kept(h, bound) \subseteq Live(h, rs)
    /\ WordsOf(h, Kept(h, bound)) + free <= h.watermark - Base

\* The free chunks below the bound of a sweep are headers of the heap.
LEMMA SweptChunks ==
    ASSUME NEW h, NEW rs, NEW lists, NEW walked, NEW bound, Swept(h, rs, lists, walked, bound)
    PROVE  /\ h \in Heap /\ h.watermark \in Nat /\ h.watermark <= HeapEnd /\ Base <= h.watermark
           /\ Tiled(h, Base, h.watermark)
           /\ bound \in Nat /\ bound <= h.watermark /\ Base <= bound
           /\ FreeChunks(h, bound) \subseteq Headers(h, Base, h.watermark)
           /\ \A a \in FreeChunks(h, bound) : a \in Nat /\ a < bound
           /\ Kept(h, bound) \subseteq Headers(h, Base, h.watermark)
<1> DEFINE w == h.watermark
<1>1. /\ h \in Heap /\ w \in Nat /\ w <= HeapEnd /\ Base <= w /\ Tiled(h, Base, w)
      /\ bound \in Headers(h, Base, w) \cup {w}
  BY Numbers DEF Swept, Heap
<1>2. bound \in Nat /\ bound <= w /\ Base <= bound
  <2>1. CASE bound = w
    BY <1>1, <2>1
  <2>2. CASE bound \in Headers(h, Base, w)
    <3>1. bound \in Nat /\ Base <= bound /\ bound < w
      BY <2>2, HeadersWithin
    <3> QED
      BY <1>1, <3>1
  <2> QED
    BY <1>1, <2>1, <2>2
<1>3. ASSUME NEW a \in FreeChunks(h, bound) PROVE a \in Nat /\ a < bound /\ a \in Headers(h, Base, w)
  <2>1. a \in Headers(h, Base, bound)
    BY DEF FreeChunks
  <2>2. a \in Addr /\ a \in Nat /\ Base <= a /\ a < bound /\ h.tag[a].head
    BY <2>1, HeadersWithin
  <2> QED
    BY <1>1, <1>2, <2>2 DEF Headers
<1>4. Kept(h, bound) \subseteq Headers(h, Base, w)
  BY DEF Kept, Allocated
<1> QED
  BY <1>1, <1>2, <1>3, <1>4

\* A run is closed: its words are counted as free.
LEMMA TallyClose ==
    ASSUME NEW h, NEW rs, NEW lists, NEW next, NEW b, Swept(h, rs, lists, next, b),
           b < next, next = h.watermark \/ h.tag[next].marked,
           NEW g, g = MakeFreeBlock(h, b, next), NEW o, Tallied(h, o, b),
           NEW p, p.live = o.live, p.free = o.free + ObjectWords(g, b),
           p.largest = IF ObjectWords(g, b) > o.largest THEN ObjectWords(g, b) ELSE o.largest
    PROVE  Tallied(g, p, next)
<1> DEFINE F == FreeChunks(h, b)
           size == ObjectWords(g, b)
<1>1. RunClosed(h, g, rs, lists, b, next)
  BY CloseEffect
<1>2. /\ Swept(g, rs, FreeBlock(g, lists, b), next, next) /\ g.watermark = h.watermark
      /\ FreeChunks(g, next) = F \cup {b} /\ \A x \in F : g.word[x] = h.word[x]
      /\ b + size = next
  BY <1>1 DEF RunClosed, Settled
<1>3. /\ g \in Heap /\ Tiled(g, Base, g.watermark) /\ g.watermark \in Nat /\ Base <= g.watermark
      /\ next \in Nat /\ F \cup {b} \subseteq Headers(g, Base, g.watermark)
  BY <1>2, SweptChunks
<1>4. b \in Nat /\ b \notin F
  BY SweptChunks
<1>5. b \in Addr /\ F \subseteq Addr /\ size \in Nat
  <2>1. F \cup {b} \subseteq Addr
    BY <1>3 DEF Headers
  <2> QED
    BY <2>1, <1>3, ChunkSize
<1> HIDE DEF F, size
<1>6. WordsOf(g, F \cup {b}) = WordsOf(h, F) + size
  <2>1. WordsOf(g, F) = WordsOf(h, F)
    BY <1>2, WordsSame
  <2> DEFINE w == g.watermark
             B == {b}
  <2>2. /\ WordsOf(g, F) \in Nat /\ WordsOf(g, F \cup {b}) = WordsOf(g, F) + WordsOf(g, {b})
    <3>1. /\ g \in Heap /\ Base \in Nat /\ w \in Nat /\ Base <= w
          /\ Tiled(g, Base, w) /\ F \cap B = {}
          /\ F \subseteq Headers(g, Base, w) /\ B \subseteq Headers(g, Base, w)
      BY <1>3, <1>4
    <3> HIDE DEF w, B
    <3>2. WordsOf(g, F) \in Nat /\ WordsOf(g, F \cup B) = WordsOf(g, F) + WordsOf(g, B)
      BY ONLY <3>1, WordsApart
    <3> QED
      BY <3>2 DEF B
  <2>3. WordsOf(g, {b}) = size
    <3>1. Cardinality(Covered(g, {})) = 0
      BY CoveredBy
    <3>2. Cardinality(Covered(g, {} \cup {b})) = Cardinality(Covered(g, {})) + ObjectWords(g, b)
      BY <1>3, <1>5, CoveredApart
    <3>3. {} \cup {b} = {b}
      OBVIOUS
    <3> QED
      BY <3>1, <3>2, <3>3, <1>5 DEF WordsOf, size
  <2> QED
    BY <2>1, <2>2, <2>3
<1>7. Greatest(g, F \cup {b}, p.largest)
  <2>1. Greatest(h, F, o.largest)
    BY DEF Tallied, F
  <2>2. Greatest(g, F, o.largest)
    BY <1>2, <2>1, GreatestSame
  <2> QED
    BY <1>3, <1>5, <2>2, GreatestGrows DEF size
<1>8. /\ o.live \in Nat /\ o.free \in Nat /\ o.live + o.free = b - Base /\ o.free = WordsOf(h, F)
  BY DEF Tallied, F
<1>9. p.live \in Nat /\ p.free \in Nat /\ p.live + p.free = next - Base
  BY <1>2, <1>4, <1>5, <1>8 DEF size
<1> QED
  BY <1>2, <1>6, <1>7, <1>8, <1>9 DEF Tallied, size

\* A live chunk is passed: its words are counted as live.
LEMMA TallyPass ==
    ASSUME NEW h, NEW rs, NEW lists, NEW c, Swept(h, rs, lists, c, c),
           c \in Headers(h, Base, h.watermark), h.tag[c].marked,
           NEW g, g = ClearMarked(h, c), NEW n, n = c + ObjectWords(h, c),
           NEW o, Tallied(h, o, c),
           NEW p, p.live = o.live + ObjectWords(h, c), p.free = o.free, p.largest = o.largest
    PROVE  Tallied(g, p, n)
<1> DEFINE F == FreeChunks(h, c)
<1>1. Settled(h, g, c, n, {})
  BY PassMarkedEffect
<1>2. FreeChunks(g, n) = F /\ \A x \in F : g.word[x] = h.word[x]
  BY <1>1 DEF Settled
<1>3. ObjectWords(h, c) \in Nat /\ c \in Nat
  <2>1. h \in Heap
    BY DEF Swept
  <2>2. c \in Addr /\ c \in Nat
    BY HeadersWithin
  <2> QED
    BY <2>1, <2>2, ChunkSize
<1> HIDE DEF F
<1>4. WordsOf(g, F) = WordsOf(h, F)
  BY <1>2, WordsSame
<1>5. /\ o.live \in Nat /\ o.free \in Nat /\ o.live + o.free = c - Base /\ o.free = WordsOf(h, F)
      /\ Greatest(h, F, o.largest)
  BY DEF Tallied, F
<1>6. Greatest(g, F, o.largest)
  BY <1>2, <1>5, GreatestSame
<1>7. p.live \in Nat /\ p.free \in Nat /\ p.live + p.free = n - Base
  BY <1>3, <1>5
<1> QED
  BY <1>2, <1>4, <1>5, <1>6, <1>7 DEF Tallied

\* What is kept stays what is reached.
LEMMA ExactKept ==
    ASSUME NEW h, NEW g, NEW rs, NEW b, NEW n, NEW new, Settled(h, g, b, n, new),
           g.watermark = h.watermark, Live(g, rs) = Live(h, rs), NEW free, Exact(h, rs, b, free)
    PROVE  Exact(g, rs, n, free)
<1>1. Kept(g, n) = Kept(h, b) /\ \A x \in Kept(h, b) : g.word[x] = h.word[x]
  BY DEF Settled
<1>2. WordsOf(g, Kept(h, b)) = WordsOf(h, Kept(h, b))
  BY <1>1, WordsSame
<1> QED
  BY <1>1, <1>2 DEF Exact

\* One more chunk.
LEMMA WordsAdd ==
    ASSUME NEW h \in Heap, NEW start \in Nat, NEW end \in Nat, start <= end, Tiled(h, start, end),
           NEW S, S \subseteq Headers(h, start, end), NEW p \in Headers(h, start, end), p \notin S
    PROVE  /\ WordsOf(h, S) \in Nat /\ ObjectWords(h, p) \in Nat
           /\ WordsOf(h, S \cup {p}) = WordsOf(h, S) + ObjectWords(h, p)
<1>1. S \subseteq Addr /\ p \in Addr /\ ObjectWords(h, p) \in Nat
  BY ChunkSize DEF Headers
<1>2. \A a \in S : a + ObjectWords(h, a) <= p \/ p + ObjectWords(h, p) <= a
  BY ChunksApart
<1> QED
  BY <1>1, <1>2, CoveredApart DEF WordsOf

\* The words of the arrays.
Occupied(h) == WordsOf(h, Allocated(h, Base, h.watermark))

\* They are those outside the free chunks.
LEMMA OccupiedIs ==
    ASSUME NEW h, NEW rs, WellFormed(h, rs, Base, h.watermark)
    PROVE  /\ Occupied(h) \in Nat /\ WordsOf(h, FreeChunks(h, h.watermark)) \in Nat
           /\ h.watermark \in Nat
           /\ Occupied(h) = h.watermark - Base - WordsOf(h, FreeChunks(h, h.watermark))
<1>1. h \in Heap /\ h.watermark \in Nat /\ Base <= h.watermark /\ Tiled(h, Base, h.watermark)
  BY DEF WellFormed
<1>2. /\ WordsOf(h, Allocated(h, Base, h.watermark)) \in Nat
      /\ WordsOf(h, FreeChunks(h, h.watermark)) \in Nat
      /\ WordsOf(h, Allocated(h, Base, h.watermark)) + WordsOf(h, FreeChunks(h, h.watermark))
            = h.watermark - Base
  BY <1>1, WordsAll
<1> QED
  BY <1>1, <1>2 DEF Occupied

\* A bumped array occupies its words.
LEMMA BumpOccupies ==
    ASSUME NEW h, NEW rs, WellFormed(h, rs, Base, h.watermark),
           NEW length \in Nat, NEW is_ref \in BOOLEAN, NEW id \in Ids \cup {NoId},
           NEW a, a = RawAlloc(h, length, is_ref, id), a.ref # SENTINEL
    PROVE  Occupied(a.heap) = Occupied(h) + ObjectWords(a.heap, a.ref)
<1> DEFINE g == a.heap
           A == Allocated(h, Base, h.watermark)
           v == g.watermark
           new == a.ref
<1>1. /\ h \in Heap /\ h.watermark \in Nat /\ Base <= h.watermark
      /\ h.watermark \in Base .. HeapEnd
  BY Numbers DEF WellFormed, Heap
<1>2. /\ WellFormed(g, rs, Base, v) /\ new \in Allocated(g, Base, v)
      /\ OneMore(h, g, Base, new)
  BY <1>1, AppendKeeps
<1>3. /\ new = h.watermark /\ g.tag[new] = ArrayTag(is_ref, id)
      /\ \A x \in Addr : x < new => g.word[x] = h.word[x] /\ g.tag[x] = h.tag[x]
  <2>1. /\ h \in Heap /\ h.watermark \in Base .. HeapEnd /\ length \in Nat
        /\ is_ref \in BOOLEAN /\ id \in Ids \cup {NoId}
        /\ a = RawAlloc(h, length, is_ref, id) /\ a.ref # SENTINEL
    BY <1>1
  <2>2. /\ a.ref = h.watermark /\ a.heap.tag[a.ref] = ArrayTag(is_ref, id)
        /\ \A x \in Addr : x < a.ref \/ x >= a.heap.watermark =>
              a.heap.word[x] = h.word[x] /\ a.heap.tag[x] = h.tag[x]
    BY ONLY <2>1, BumpEffect
  <2> QED
    BY <2>2
<1>4. /\ g \in Heap /\ v \in Nat /\ Base <= v /\ Tiled(g, Base, v) /\ Base \in Nat
  BY <1>2 DEF WellFormed
<1>5. Headers(g, Base, v) = Headers(h, Base, h.watermark) \cup {new}
  BY <1>2 DEF OneMore
<1>6. \A x \in Headers(h, Base, h.watermark) : x \in Addr /\ x < new /\ x # new
  BY <1>1, <1>3, HeadersWithin
<1>7. new \in Headers(g, Base, v) /\ ~g.tag[new].free
  BY <1>2 DEF Allocated
<1> HIDE DEF g, v, new
<1>8. Allocated(g, Base, v) = A \cup {new}
  <2>1. Allocated(g, Base, v) = {x \in Headers(h, Base, h.watermark) \cup {new} : ~g.tag[x].free}
    BY <1>5 DEF Allocated
  <2> QED
    BY <2>1, <1>3, <1>6, <1>7 DEF Allocated
<1>9. A \subseteq Headers(g, Base, v) /\ new \notin A /\ \A x \in A : g.word[x] = h.word[x]
  BY <1>3, <1>5, <1>6 DEF Allocated
<1> HIDE DEF A
<1>10. WordsOf(g, A \cup {new}) = WordsOf(g, A) + ObjectWords(g, new)
  BY <1>4, <1>7, <1>9, WordsAdd
<1>11. WordsOf(g, A) = WordsOf(h, A)
  BY <1>9, WordsSame
<1> QED
  BY <1>8, <1>10, <1>11 DEF Occupied, A, g, v, new

\* So does one taken from a free block, whose rest stays free.
LEMMA SplitOccupies ==
    ASSUME NEW h, NEW rs, WellFormed(h, rs, Base, h.watermark),
           NEW g, WellFormed(g, rs, Base, h.watermark),
           NEW b \in FreeChunks(h, h.watermark), NEW rem, BlockTaken(h, g, b, rem)
    PROVE  Occupied(g) = Occupied(h) + ObjectWords(g, b)
<1> DEFINE w == h.watermark
           F == FreeChunks(h, w)
           G == FreeChunks(g, w)
           R == F \ {b}
           e == b + ObjectWords(h, b)
<1>1. /\ g.watermark = w /\ b \in Allocated(g, Base, w)
      /\ \A x \in Addr : x < b \/ x >= e => g.word[x] = h.word[x]
      /\ \/ G = R /\ b + ObjectWords(g, b) = e
         \/ /\ rem \in Addr \ F /\ G = R \cup {rem}
            /\ b + ObjectWords(g, b) = rem /\ rem + ObjectWords(g, rem) = e
  BY DEF BlockTaken
<1>2. /\ h \in Heap /\ g \in Heap /\ Base \in Nat /\ w \in Nat /\ Base <= w
      /\ Tiled(h, Base, w) /\ Tiled(g, Base, w)
  BY DEF WellFormed
<1>3. /\ Occupied(h) = w - Base - WordsOf(h, F) /\ WordsOf(h, F) \in Nat
      /\ Occupied(g) = w - Base - WordsOf(g, G) /\ WordsOf(g, G) \in Nat
  BY <1>1, OccupiedIs
<1>4. /\ F \subseteq Headers(h, Base, w) /\ G \subseteq Headers(g, Base, w)
      /\ b \in Headers(h, Base, w) /\ b \in Headers(g, Base, w)
  BY <1>1 DEF FreeChunks, Allocated
<1>5. /\ b \in Nat /\ ObjectWords(h, b) \in Nat /\ ObjectWords(g, b) \in Nat
  BY <1>2, <1>4, HeadersWithin, TiledWithin
<1>6. ASSUME NEW x \in R PROVE x \in Addr /\ (x < b \/ x >= e)
  <2>1. x \in Headers(h, Base, w) /\ x # b /\ x \in Addr /\ x \in Nat
    BY <1>4, HeadersWithin
  <2>2. \/ x < b /\ x + ObjectWords(h, x) <= b
        \/ b < x /\ b + ObjectWords(h, b) <= x
    BY <1>2, <1>4, <2>1, ChunksApart
  <2> QED
    BY <2>1, <2>2, <1>5
<1> HIDE DEF F, G, w, e
<1>7. WordsOf(g, R) = WordsOf(h, R)
  BY <1>1, <1>6, WordsSame
<1>8. WordsOf(h, F) = WordsOf(h, R) + ObjectWords(h, b) /\ WordsOf(h, R) \in Nat
  <2>1. F = R \cup {b} /\ b \notin R /\ R \subseteq Headers(h, Base, w)
    BY <1>4 DEF F, w
  <2> HIDE DEF R
  <2>2. /\ WordsOf(h, R) \in Nat
        /\ WordsOf(h, R \cup {b}) = WordsOf(h, R) + ObjectWords(h, b)
    BY <1>2, <1>4, <2>1, WordsAdd
  <2> QED
    BY <2>1, <2>2
<1>9. CASE G = R /\ b + ObjectWords(g, b) = e
  <2>1. ObjectWords(g, b) = ObjectWords(h, b)
    BY <1>5, <1>9 DEF e
  <2> HIDE DEF R
  <2> QED
    BY <2>1, <1>2, <1>3, <1>5, <1>7, <1>8, <1>9
<1>10. CASE /\ rem \in Addr \ F /\ G = R \cup {rem}
            /\ b + ObjectWords(g, b) = rem /\ rem + ObjectWords(g, rem) = e
  <2>1. rem \notin R /\ R \subseteq Headers(g, Base, w) /\ rem \in Headers(g, Base, w)
    BY <1>4, <1>10
  <2> HIDE DEF R
  <2>2. /\ WordsOf(g, R) \in Nat /\ ObjectWords(g, rem) \in Nat
        /\ WordsOf(g, R \cup {rem}) = WordsOf(g, R) + ObjectWords(g, rem)
    <3>1. /\ g \in Heap /\ Base \in Nat /\ w \in Nat /\ Base <= w /\ Tiled(g, Base, w)
          /\ R \subseteq Headers(g, Base, w) /\ rem \in Headers(g, Base, w) /\ rem \notin R
      BY <1>2, <2>1
    <3> QED
      BY ONLY <3>1, WordsAdd
  <2>3. ObjectWords(h, b) = ObjectWords(g, b) + ObjectWords(g, rem)
    BY <1>5, <1>10, <2>2 DEF e
  <2> QED
    BY <1>2, <1>3, <1>5, <1>7, <1>8, <1>10, <2>2, <2>3
<1> QED
  BY <1>1, <1>9, <1>10 DEF e

\* Whichever way mark_sweep_alloc finds an array, it occupies its words.
LEMMA AllocOccupies ==
    ASSUME Consistent(heap, roots, free_list),
           NEW length \in Nat, NEW ref \in BOOLEAN, NEW id \in Ids \cup {NoId},
           NEW a, a = Alloc(length, ref, id), a.ref # SENTINEL
    PROVE  Occupied(a.heap) = Occupied(heap) + ObjectWords(a.heap, a.ref)
<1> DEFINE f == FindFreeBlock(heap, free_list, length)
           s == SplitBlock(heap, f.ref, length, ref, id)
           raw == RawAlloc(heap, length, ref, id)
           F == FreeChunks(heap, heap.watermark)
<1>1. /\ WellFormed(heap, roots, Base, heap.watermark) /\ ListsHold(free_list, F, heap)
      /\ heap \in Heap /\ F \subseteq Addr
  BY DEF Consistent, WellFormed, FreeChunks, Headers
<1>2. CASE f.ref = SENTINEL
  <2>1. a.ref = raw.ref /\ a.heap = raw.heap /\ raw.ref # SENTINEL
    BY <1>2 DEF Alloc
  <2> HIDE DEF f, s, raw
  <2>2. Occupied(raw.heap) = Occupied(heap) + ObjectWords(raw.heap, raw.ref)
    BY <1>1, <2>1, BumpOccupies DEF raw
  <2> QED
    BY <2>1, <2>2
<1>3. CASE f.ref # SENTINEL
  <2>1. a.ref = f.ref /\ a.heap = s.heap
    BY <1>3 DEF Alloc
  <2>2. \/ f.ref = SENTINEL /\ f.lists = free_list /\ \A b \in F : ObjectLength(heap, b) < length
        \/ /\ f.ref \in F /\ f.ref # SENTINEL /\ ObjectLength(heap, f.ref) >= length
           /\ ListsHold(f.lists, F \ {f.ref}, heap)
    BY <1>1, FindEffect
  <2>3. f.ref \in F /\ ObjectLength(heap, f.ref) >= length
    BY <2>2, <1>3
  <2> HIDE DEF f
  <2>4. WellFormed(s.heap, roots, Base, heap.watermark) /\ BlockTaken(heap, s.heap, f.ref, s.rem)
    BY <1>1, <2>3, SplitEffect
  <2> HIDE DEF s
  <2>5. Occupied(s.heap) = Occupied(heap) + ObjectWords(s.heap, f.ref)
    BY <1>1, <2>3, <2>4, SplitOccupies
  <2> QED
    BY <2>1, <2>5
<1> QED
  BY <1>2, <1>3

\* The program's other instructions, and the marks, change nothing of it.
LEMMA SameOccupied ==
    ASSUME NEW h, NEW g, g.watermark = h.watermark,
           Allocated(g, Base, h.watermark) = Allocated(h, Base, h.watermark),
           \A x \in Allocated(h, Base, h.watermark) : g.word[x] = h.word[x]
    PROVE  Occupied(g) = Occupied(h)
  BY WordsSame DEF Occupied

\* The figures in each phase. While the sweep runs, those of its collection
\* describe what lies below Bound, and gc_stats still counts what the lists held
\* when it began.
Sweeping ==
    /\ Tallied(heap, out, Bound)
    /\ Exact(heap, roots, Bound, free_before)
    /\ CountBytes => net = heap.watermark - Base - free_before

Returned ==
    /\ Tallied(heap, out, heap.watermark)
    /\ Allocated(heap, Base, heap.watermark) \subseteq Live(heap, roots)
    /\ CountBytes => net - out.freed = Occupied(heap)

Accounts ==
    /\ pc \notin {"sweep", "return"} => (CountBytes => net = Occupied(heap))
    /\ pc \in {"collect", "mark"} => out = ZeroOut
    /\ pc = "mark" => MarkPrecise
    /\ pc = "sweep" => Sweeping
    /\ pc = "return" => Returned

LEMMA SweepStartCounts ==
    ASSUME IInv, Accounts, SweepStart
    PROVE  Accounts'
<1> DEFINE w == heap.watermark
           F == FreeChunks(heap, w)
           A == Allocated(heap, Base, w)
           K == Kept(heap, Base)
<1>1. /\ MarkDone /\ pc = "mark" /\ MarkInv /\ Consistent(heap, roots, free_list)
      /\ MarkPrecise /\ out = ZeroOut /\ (CountBytes => net = Occupied(heap))
  BY DEF IInv, Phase, SweepStart, MarkDone, Accounts
<1>2. /\ pc' = "sweep" /\ current' = HeapFirst(heap) /\ run_start' = SENTINEL
      /\ free_before' = CountFreeListWords(heap, free_list)
      /\ UNCHANGED <<heap, roots, out, net>>
  BY DEF SweepStart
<1>3. Bound' = Base
  BY <1>1, <1>2, SweepBegin DEF Bound
<1>4. /\ WellFormed(heap, roots, Base, w) /\ ListsHold(free_list, F, heap)
      /\ heap \in Heap /\ w \in Nat /\ Base <= w /\ w <= HeapEnd /\ Tiled(heap, Base, w)
  BY <1>1 DEF Consistent, WellFormed
<1>5. FreeChunks(heap, Base) = {}
  BY TiledEmpty DEF FreeChunks
<1>6. Tallied(heap, ZeroOut, Base)
  <2>1. WordsOf(heap, {}) = 0
    BY CoveredBy DEF WordsOf
  <2>2. Greatest(heap, {}, 0)
    BY DEF Greatest
  <2> QED
    BY <1>5, <2>1, <2>2 DEF Tallied, ZeroOut
<1>7. K \subseteq Marked /\ K \subseteq A
  <2> SUFFICES ASSUME NEW a \in K PROVE a \in Marked /\ a \in A
    OBVIOUS
  <2>1. a \in A /\ a \in Headers(heap, Base, w) /\ (heap.tag[a].marked \/ a < Base)
    BY DEF Kept, Allocated
  <2>2. a \in Nat /\ Base <= a
    BY <2>1, HeadersWithin
  <2> QED
    BY <2>1, <2>2 DEF Marked, IsMarked
<1>8. K \subseteq Live(heap, roots)
  BY <1>1, <1>7, MarkDoneExact
<1>9. CountFreeListWords(heap, free_list) = WordsOf(heap, F)
  <2>1. F \subseteq Headers(heap, Base, w)
    BY DEF FreeChunks
  <2> QED
    BY <1>4, <2>1, CountWords
<1>10. /\ Occupied(heap) = w - Base - WordsOf(heap, F)
       /\ Occupied(heap) \in Nat /\ WordsOf(heap, F) \in Nat
  BY <1>4, OccupiedIs
<1>11. WordsOf(heap, K) \in Nat /\ WordsOf(heap, K) <= Occupied(heap)
  <2>1. A \subseteq Headers(heap, Base, w)
    BY DEF Allocated
  <2> HIDE DEF K, A
  <2>2. WordsOf(heap, K) \in Nat /\ WordsOf(heap, K) <= WordsOf(heap, A)
    BY <1>4, <1>7, <2>1, WordsMore
  <2> QED
    BY <2>2 DEF Occupied, A
<1> HIDE DEF K, F, A, w
<1>12. Exact(heap, roots, Base, free_before')
  BY <1>2, <1>4, <1>8, <1>9, <1>10, <1>11 DEF Exact, K, w
<1>13. CountBytes => net' = heap.watermark - Base - free_before'
  BY <1>1, <1>2, <1>9, <1>10 DEF w
<1>14. Sweeping'
  BY <1>1, <1>2, <1>3, <1>6, <1>12, <1>13 DEF Sweeping
<1> QED
  BY <1>2, <1>14 DEF Accounts

\* A step of the sweep's walk.
LEMMA WalkCounts ==
    ASSUME Accounts, pc = "sweep", Tallied(heap', out', Bound'), heap'.watermark = heap.watermark,
           NEW new, Settled(heap, heap', Bound, Bound', new), UNCHANGED <<pc, roots, net, free_before>>,
           Live(heap', roots') = Live(heap, roots)
    PROVE  Accounts'
<1>1. Exact(heap, roots, Bound, free_before) /\ (CountBytes => net = heap.watermark - Base - free_before)
  BY DEF Accounts, Sweeping
<1>2. Live(heap', roots) = Live(heap, roots)
  OBVIOUS
<1> DEFINE g == heap'
           n == Bound'
           b == Bound
<1>3. Settled(heap, g, b, n, new) /\ g.watermark = heap.watermark /\ Live(g, roots) = Live(heap, roots)
  BY <1>2
<1> HIDE DEF g, n, b
<1>4. Exact(g, roots, n, free_before)
  <2>1. Exact(heap, roots, b, free_before)
    BY <1>1 DEF b
  <2> QED
    BY <1>3, <2>1, ExactKept
<1>5. Sweeping'
  BY <1>1, <1>4 DEF Sweeping, g, n
<1> QED
  BY <1>5 DEF Accounts

LEMMA SweepMarkedCounts ==
    ASSUME IInv, Seen, Accounts, SweepMarked
    PROVE  Accounts'
<1> DEFINE c == current
           b == run_start
           w == heap.watermark
           size == ObjectWords(heap, c)
           n == c + size
<1>1. /\ SweepInv /\ pc = "sweep" /\ Tallied(heap, out, Bound) /\ out \in Outs
  BY DEF IInv, Phase, Types, SweepMarked, Accounts, Sweeping
<1>2. /\ c # SENTINEL /\ c \in Headers(heap, Base, w) /\ heap.tag[c].marked
      /\ run_start' = SENTINEL /\ current' = HeapNext(heap, c)
      /\ UNCHANGED <<pc, roots, net, free_before>>
  BY <1>1 DEF SweepInv, SweepMarked, IsMarked
<1>3. Live(heap', roots') = Live(heap, roots)
  BY <1>1, SweepSees
<1>4. /\ heap \in Heap /\ w \in Nat /\ Base <= w /\ Tiled(heap, Base, w) /\ c \in Addr
  BY <1>1, <1>2, HeadersWithin, Numbers DEF SweepInv, Swept, Heap
<1>5. At(heap, current') = n
  BY <1>2, <1>4, NextEffect
<1>6. heap'.watermark = w => Bound' = n
  BY <1>2, <1>5 DEF Bound, At
<1>7. CASE b = SENTINEL
  <2>1. /\ heap' = ClearMarked(heap, c) /\ out' = [out EXCEPT !.live = @ + size]
    BY <1>7 DEF SweepMarked, Unmarked
  <2>2. Bound = c /\ Swept(heap, roots, free_list, c, c)
    BY <1>1, <1>2, <1>7 DEF SweepInv, Bound, At
  <2> DEFINE g == ClearMarked(heap, c)
  <2>3. g.watermark = w
    BY <1>4, MarkEffect DEF SameButMarks
  <2>4. out'.live = out.live + size /\ out'.free = out.free /\ out'.largest = out.largest
    BY <1>1, <2>1 DEF Outs
  <2> HIDE DEF g
  <2>5. Tallied(g, out', n)
    BY <1>1, <1>2, <2>2, <2>4, TallyPass DEF g
  <2>6. Settled(heap, g, c, n, {})
    BY <1>2, <2>2, PassMarkedEffect DEF g
  <2>7. heap' = g /\ Bound' = n
    BY <1>6, <2>1, <2>3 DEF g
  <2> HIDE DEF n, size
  <2> QED
    BY <1>1, <1>2, <1>3, <2>2, <2>3, <2>5, <2>6, <2>7, WalkCounts
<1>8. CASE b # SENTINEL
  <2> DEFINE m == MakeFreeBlock(heap, b, c)
             g == ClearMarked(m, c)
             s == ObjectWords(m, b)
             mid == [out EXCEPT !.free = @ + s, !.largest = IF s > @ THEN s ELSE @]
  <2>1. ClosesAt(m)
    BY <1>1, <1>8, MarkedCloses
  <2>2. Bound = b /\ Swept(heap, roots, free_list, c, b) /\ b < c
    BY <1>1, <1>2, <1>8 DEF SweepInv, Bound, At
  <2> HIDE DEF m
  <2>3. /\ RunClosed(heap, m, roots, free_list, b, c)
        /\ c \in Headers(m, Base, m.watermark) /\ m.tag[c].marked /\ ObjectWords(m, c) = size
        /\ heap' = g /\ heap'.word = m.word
    BY <2>1 DEF ClosesAt
  <2>4. /\ Swept(m, roots, FreeBlock(m, free_list, b), c, c) /\ m.watermark = w
        /\ Settled(heap, m, b, c, {b})
    BY <2>3 DEF RunClosed
  <2>5. g.watermark = w
    <3>1. m \in Heap
      BY <2>4 DEF Swept
    <3> QED
      BY <1>4, <2>4, <3>1, MarkEffect DEF SameButMarks
  <2>6. out' = [out EXCEPT !.live = @ + size, !.free = @ + s, !.largest = IF s > @ THEN s ELSE @]
    <3>1. ObjectWords(heap', b) = s
      BY <2>3 DEF ObjectWords
    <3>2. CloseRun(ClearMarked(heap, c), c, size)
      BY <1>8 DEF SweepMarked, Unmarked
    <3>3. /\ heap' = MakeFreeBlock(ClearMarked(heap, c), b, c)
          /\ out' = [out EXCEPT !.live = @ + size, !.free = @ + ObjectWords(heap', b),
                                !.largest = IF ObjectWords(heap', b) > @ THEN ObjectWords(heap', b)
                                            ELSE @]
      BY <3>2 DEF CloseRun
    <3> QED
      BY <3>1, <3>3
  <2> HIDE DEF g, s, size
  <2>7. /\ mid.live = out.live /\ mid.free = out.free + s
        /\ mid.largest = IF s > out.largest THEN s ELSE out.largest
    BY <1>1 DEF Outs
  <2>8. out'.live = mid.live + size /\ out'.free = mid.free /\ out'.largest = mid.largest
    BY <1>1, <2>6 DEF Outs
  <2> HIDE DEF mid
  <2>9. Tallied(m, mid, c)
    BY <1>1, <1>2, <2>2, <2>7, TallyClose DEF m, s
  <2>10. Tallied(g, out', n) /\ Settled(m, g, c, n, {})
    <3>1. n = c + ObjectWords(m, c)
      BY <2>3
    <3> HIDE DEF n
    <3>2. Settled(m, g, c, n, {})
      BY <2>3, <2>4, <3>1, PassMarkedEffect DEF g
    <3>3. Tallied(g, out', n)
      BY <2>3, <2>4, <2>8, <2>9, <3>1, TallyPass DEF g
    <3> QED
      BY <3>2, <3>3
  <2> HIDE DEF n
  <2>11. Settled(heap, g, b, n, {b})
    BY <2>4, <2>10 DEF Settled
  <2>12. Bound' = n
    BY <1>6, <2>3, <2>5
  <2> QED
    BY <1>1, <1>2, <1>3, <2>2, <2>3, <2>5, <2>10, <2>11, <2>12, WalkCounts
<1> QED
  BY <1>7, <1>8

LEMMA SweepDeadCounts ==
    ASSUME SweepInv, Accounts, SweepDead
    PROVE  Accounts'
<1>1. /\ pc = "sweep" /\ Sweeping
      /\ run_start' = (IF run_start = SENTINEL THEN current ELSE run_start)
      /\ UNCHANGED <<heap, roots, pc, out, net, free_before>> /\ current # SENTINEL
  BY DEF SweepDead, ExtendRun, Accounts
<1>2. Bound' = Bound
  BY <1>1 DEF Bound, At
<1>3. Sweeping'
  BY <1>1, <1>2 DEF Sweeping
<1> QED
  BY <1>1, <1>3 DEF Accounts

LEMMA SweepTailCounts ==
    ASSUME IInv, Seen, Accounts, SweepTail
    PROVE  Accounts'
<1> DEFINE b == run_start
           w == heap.watermark
           m == MakeFreeBlock(heap, b, w)
           s == ObjectWords(m, b)
<1>1. /\ SweepInv /\ pc = "sweep" /\ Tallied(heap, out, Bound) /\ out \in Outs
  BY DEF IInv, Phase, Types, SweepTail, Accounts, Sweeping
<1>2. /\ current = SENTINEL /\ b # SENTINEL /\ run_start' = SENTINEL /\ current' = current
      /\ UNCHANGED <<pc, roots, net, free_before>> /\ CloseRun(heap, w, 0)
  BY DEF SweepTail, CloseTail
<1>3. Live(heap', roots') = Live(heap, roots)
  BY <1>1, SweepSees
<1>4. Bound = b /\ Swept(heap, roots, free_list, w, b) /\ b < w
  BY <1>1, <1>2 DEF SweepInv, Bound, At
<1>5. /\ heap' = m /\ out' = [out EXCEPT !.live = @ + 0, !.free = @ + s,
                                         !.largest = IF s > @ THEN s ELSE @]
  BY <1>2 DEF CloseRun
<1>6. RunClosed(heap, m, roots, free_list, b, w)
  BY <1>4, CloseEffect
<1>7. m.watermark = w /\ Settled(heap, m, b, w, {b})
  BY <1>6 DEF RunClosed
<1> HIDE DEF m
<1>8. Bound' = w
  BY <1>2, <1>5, <1>7 DEF Bound, At
<1> HIDE DEF s
<1>9. /\ out'.live = out.live /\ out'.free = out.free + s
      /\ out'.largest = IF s > out.largest THEN s ELSE out.largest
  <2>1. out.live + 0 = out.live
    BY <1>1 DEF Outs
  <2> QED
    BY <1>1, <1>5, <2>1 DEF Outs
<1>10. Tallied(m, out', w)
  BY <1>1, <1>4, <1>9, TallyClose DEF m, s
<1> QED
  BY <1>1, <1>2, <1>3, <1>4, <1>5, <1>7, <1>8, <1>10, WalkCounts

LEMMA SweepEndCounts ==
    ASSUME IInv, Accounts, SweepEnd
    PROVE  Accounts'
<1> DEFINE w == heap.watermark
           A == Allocated(heap, Base, w)
<1>1. /\ pc = "sweep" /\ SweepInv /\ current = SENTINEL /\ run_start = SENTINEL /\ Sweeping
      /\ out \in Outs /\ net \in Int /\ free_before \in Nat
  BY DEF IInv, Phase, Types, SweepEnd, Accounts
<1>2. /\ pc' = "return" /\ out' = [out EXCEPT !.freed = Freed]
      /\ UNCHANGED <<heap, roots, net>>
  BY DEF SweepEnd
<1>3. Bound = w /\ Swept(heap, roots, free_list, w, w)
  BY <1>1 DEF SweepInv, Bound, At
<1>4. WellFormed(heap, roots, Base, w)
  BY <1>3, SweepFinish DEF Consistent
<1>5. Kept(heap, w) = A
  <2>1. \A a \in A : a < w
    BY HeadersWithin DEF Allocated
  <2> QED
    BY <2>1 DEF Kept
<1>6. /\ Tallied(heap, out, w) /\ A \subseteq Live(heap, roots)
      /\ WordsOf(heap, A) + free_before <= w - Base
      /\ CountBytes => net = w - Base - free_before
  BY <1>1, <1>3, <1>5 DEF Sweeping, Exact
<1>7. /\ Occupied(heap) = w - Base - out.free /\ Occupied(heap) = WordsOf(heap, A)
      /\ out.free \in Nat /\ w \in Nat /\ Occupied(heap) \in Nat
  BY <1>4, <1>6, OccupiedIs DEF Tallied, Occupied
<1>8. Freed = out.free - free_before
  BY <1>1, <1>6, <1>7 DEF Freed
<1>9. /\ out'.live = out.live /\ out'.free = out.free /\ out'.largest = out.largest
      /\ out'.freed = out.free - free_before
  BY <1>1, <1>2, <1>8 DEF Outs
<1> HIDE DEF A, w
<1>10. Tallied(heap, out', w)
  BY <1>6, <1>9 DEF Tallied
<1>11. CountBytes => net' - out'.freed = Occupied(heap)
  BY <1>1, <1>2, <1>6, <1>7, <1>9
<1>12. Returned'
  BY <1>2, <1>6, <1>10, <1>11 DEF Returned, A, w
<1> QED
  BY <1>2, <1>12 DEF Accounts

\* An array is pushed and counted.
LEMMA PushOccupies ==
    ASSUME Consistent(heap, roots, free_list), CountBytes => net = Occupied(heap),
           NEW length \in Nat, NEW ref \in BOOLEAN, NEW id \in Ids \cup {NoId},
           NEW a, a = Alloc(length, ref, id), a.ref # SENTINEL, NEW r, Push(r, a), heap' = a.heap
    PROVE  CountBytes => net' = Occupied(heap')
<1>1. Occupied(a.heap) = Occupied(heap) + ObjectWords(a.heap, a.ref)
  BY AllocOccupies
<1>2. CountBytes => net' = net + ObjectWords(a.heap, a.ref)
  BY DEF Push
<1> QED
  BY <1>1, <1>2

LEMMA InitAccounts == Init => Accounts
<1> SUFFICES ASSUME Init PROVE Accounts
  OBVIOUS
<1>1. pc = "run" /\ net = 0 /\ heap = EmptyHeap
  BY DEF Init, MutatorInit
<1>2. Allocated(heap, Base, heap.watermark) = {}
  BY <1>1, TiledEmpty DEF EmptyHeap, Allocated
<1>3. Occupied(heap) = 0
  BY <1>2, CoveredBy DEF Occupied, WordsOf
<1> QED
  BY <1>1, <1>3 DEF Accounts

LEMMA NextAccounts == IInv /\ Seen /\ Accounts /\ [Next]_vars => Accounts'
<1> SUFFICES ASSUME IInv, Seen, Accounts, [Next]_vars PROVE Accounts'
  OBVIOUS
<1>0. Types /\ Phase
  BY DEF IInv
<1>1. ASSUME NEW r \in RootSlots, NEW length \in Lengths, NEW ref \in Kinds,
             NEW id \in FreshIds, NewArray(r, length, ref, id)
      PROVE  Accounts'
  <2> DEFINE a == Alloc(length, ref, id)
  <2>1. /\ length \in Nat /\ ref \in BOOLEAN /\ id \in Ids \cup {NoId}
        /\ AllocFirst(r, length, ref, a) /\ heap' = a.heap /\ pc = "run"
    BY <1>1, AskedTypes DEF NewArray, AllocFirst
  <2>2. /\ Consistent(heap, roots, free_list) /\ NoMarks(heap)
        /\ CountBytes => net = Occupied(heap)
    BY <1>0, <2>1 DEF Phase, Accounts
  <2>3. a.ref = SENTINEL => a.heap = heap
    BY <2>1, <2>2, AllocEffect
  <2>4. CASE a.ref = SENTINEL
    <3>1. pc' = "collect" /\ out' = ZeroOut /\ UNCHANGED <<heap, net>>
      BY <2>1, <2>3, <2>4 DEF AllocFirst, Stop
    <3> QED
      BY <2>2, <3>1 DEF Accounts
  <2>5. CASE a.ref # SENTINEL
    <3>1. Push(r, a) /\ pc' = "run"
      BY <2>1, <2>5 DEF AllocFirst
    <3>2. CountBytes => net' = Occupied(heap')
      BY <2>1, <2>2, <2>5, <3>1, PushOccupies
    <3> QED
      BY <3>1, <3>2 DEF Accounts
  <2> QED
    BY <2>4, <2>5
<1>2. ASSUME NEW id \in FreshIds, Retry(id) PROVE Accounts'
  <2> DEFINE a == Alloc(req.length, req.ref, id)
  <2>1. /\ req.length \in Nat /\ req.ref \in BOOLEAN /\ id \in Ids \cup {NoId}
        /\ AllocRetry(a) /\ heap' = a.heap /\ pc = "retry" /\ pc' \in {"run", "oom"}
    BY <1>0, <1>2, AskedTypes DEF Retry, AllocRetry, Types
  <2>2. /\ Consistent(heap, roots, free_list) /\ NoMarks(heap)
        /\ CountBytes => net = Occupied(heap)
    BY <1>0, <2>1 DEF Phase, Accounts
  <2>3. a.ref = SENTINEL => a.heap = heap
    BY <2>1, <2>2, AllocEffect
  <2>4. CASE a.ref = SENTINEL
    <3>1. UNCHANGED <<heap, net>>
      BY <2>1, <2>3, <2>4 DEF AllocRetry
    <3> QED
      BY <2>1, <2>2, <3>1 DEF Accounts
  <2>5. CASE a.ref # SENTINEL
    <3>1. Push(req.slot, a)
      BY <2>1, <2>5 DEF AllocRetry
    <3>2. CountBytes => net' = Occupied(heap')
      BY <2>1, <2>2, <2>5, <3>1, PushOccupies
    <3> QED
      BY <2>1, <3>2 DEF Accounts
  <2> QED
    BY <2>4, <2>5
<1>3. CASE ProgramStep \/ \E r, s \in RootSlots, k \in Elements : AIAStore(r, k, s)
  <2>1. pc = "run"
    BY <1>3 DEF ProgramStep, AIALoad, IAStore, Pop, AIAStore
  <2>2. WellFormed(heap, roots, Base, heap.watermark) /\ (CountBytes => net = Occupied(heap))
    BY <1>0, <2>1 DEF Phase, Consistent, Accounts
  <2>3. /\ heap'.watermark = heap.watermark /\ UNCHANGED <<pc, net>>
        /\ SameChunks(heap, heap', Base, heap.watermark)
    BY <1>3, <2>2, ProgramKeeps
  <2>4. Occupied(heap') = Occupied(heap)
    <3>1. /\ Allocated(heap', Base, heap.watermark) = Allocated(heap, Base, heap.watermark)
          /\ \A x \in Allocated(heap, Base, heap.watermark) : heap'.word[x] = heap.word[x]
      BY <2>3 DEF SameChunks, Allocated, Headers
    <3> QED
      BY <2>3, <3>1, SameOccupied
  <2> QED
    BY <2>1, <2>2, <2>3, <2>4 DEF Accounts
<1>4. CASE GCInstruction
  <2>1. pc = "run" /\ pc' = "collect" /\ out' = ZeroOut /\ UNCHANGED <<heap, net>>
    BY <1>4 DEF GCInstruction, Stop
  <2> QED
    BY <2>1 DEF Accounts
<1>5. CASE Collect
  <2>1. /\ pc = "collect" /\ pc' = "mark"
        /\ UNCHANGED <<heap, roots, out, net, frames>>
    BY <1>5 DEF Collect, markVars
  <2>2. NoMarks(heap) /\ frames = <<>>
    BY <1>0, <2>1 DEF Phase
  <2>3. MarkPrecise'
    BY <2>1, <2>2 DEF MarkPrecise, NoMarks, Marked, IsMarked
  <2> QED
    BY <2>1, <2>3 DEF Accounts
<1>6. CASE VisitRoot \/ VisitRef
  <2>1. pc = "mark" /\ UNCHANGED <<pc, out, net, roots, view>>
    BY <1>6 DEF VisitRoot, VisitRef
  <2>2. MarkInv /\ MarkPrecise /\ out = ZeroOut /\ (CountBytes => net = Occupied(heap))
    BY <1>0, <2>1 DEF Phase, Accounts
  <2>3. SameButMarks(heap, heap')
    BY <1>6, <2>2, VisitRootKeeps, VisitRefKeeps
  <2>4. MarkPrecise'
    BY <1>6, <2>2, VisitPrecise
  <2>5. Occupied(heap') = Occupied(heap)
    <3>1. heap \in Heap /\ Base \in Nat /\ heap.watermark \in Nat
      BY <2>2 DEF MarkInv, WellFormed
    <3>2. Allocated(heap', Base, heap.watermark) = Allocated(heap, Base, heap.watermark)
      BY <2>3, <3>1, MarksOnly
    <3> QED
      BY <2>3, <3>2, SameOccupied DEF SameButMarks
  <2> QED
    BY <2>1, <2>2, <2>4, <2>5 DEF Accounts
<1>7. CASE CollectReturn
  <2>1. /\ pc = "return" /\ pc' \in {"run", "retry"} /\ heap' = heap
        /\ CountBytes => net' = net - out.freed
    BY <1>7 DEF CollectReturn
  <2> QED
    BY <2>1 DEF Accounts, Returned
<1>8. CASE UNCHANGED vars
  <2>1. UNCHANGED <<heap, roots, pc, out, net, frames, current, run_start, free_before>>
    BY <1>8 DEF vars, mutatorVars, markVars, sweepVars
  <2>2. MarkPrecise => MarkPrecise'
    BY <2>1 DEF MarkPrecise, Marked
  <2>3. Bound' = Bound
    BY <2>1 DEF Bound
  <2> QED
    BY <2>1, <2>2, <2>3 DEF Accounts, Sweeping, Returned
<1>9. CASE SweepStart
  BY <1>9, SweepStartCounts
<1>10. CASE SweepMarked
  BY <1>10, SweepMarkedCounts
<1>11. CASE SweepDead
  <2>1. SweepInv
    BY <1>0, <1>11 DEF SweepDead, Phase
  <2> QED
    BY <1>11, <2>1, SweepDeadCounts
<1>12. CASE SweepTail
  BY <1>12, SweepTailCounts
<1>13. CASE SweepEnd
  BY <1>13, SweepEndCounts
<1> QED
  BY <1>1, <1>2, <1>3, <1>4, <1>5, <1>6, <1>7, <1>8, <1>9, <1>10, <1>11, <1>12, <1>13
     DEF Next, Program, CollectorStep

LEMMA AlwaysAccounts == Spec => [](IInv /\ Accounts)
<1>1. Init => Seen
  BY InitSeen DEF Init
<1> QED
  BY <1>1, InitIInv, NextIInv, NextSeen, InitAccounts, NextAccounts, PTL DEF Spec

-----------------------------------------------------------------------------
(* What the runs check, for every value of the constants.                   *)

\* For every heap size, number of roots, set of size classes and program, the
\* variables of mark_sweep.c keep their types.
THEOREM MarkSweepTypeOK == Spec => []TypeOK
<1>1. IInv => TypeOK
  <2> SUFFICES ASSUME IInv PROVE TypeOK
    OBVIOUS
  <2>1. Types /\ Phase
    BY DEF IInv
  <2>2. /\ heap \in Heap /\ roots \in [RootSlots -> Addr]
        /\ free_list \in [Buckets -> Seq(Addr)]
    <3>1. CASE pc = "sweep"
      <4>1. /\ heap \in Heap /\ free_list \in [Buckets -> Seq(Addr)]
            /\ roots \in [RootSlots -> Kept(heap, Bound) \cup {GC_NULL}]
        BY <2>1, <3>1 DEF Phase, SweepInv, Swept, ListsHold
      <4>2. Kept(heap, Bound) \cup {GC_NULL} \subseteq Addr
        BY Numbers DEF Kept, Allocated, Headers, Addr
      <4> QED
        BY <4>1, <4>2
    <3>2. CASE pc # "sweep"
      <4>1. Consistent(heap, roots, free_list)
        BY <2>1, <3>2 DEF Phase
      <4>2. WellFormed(heap, roots, Base, heap.watermark)
        BY <4>1 DEF Consistent
      <4> QED
        BY <4>1, <4>2, WellFormedTypes DEF Consistent, ListsHold
    <3> QED
      BY <3>1, <3>2
  <2>3. DOMAIN out = DOMAIN ZeroOut /\ \A f \in DOMAIN out : out[f] \in Nat
    BY <2>1 DEF Types, Outs, ZeroOut
  <2> QED
    BY <2>1, <2>2, <2>3 DEF TypeOK, MutatorTypeOK, MarkTypeOK, Types
<1> QED
  BY <1>1, AlwaysIInv, PTL

\* Between collections the heap is walkable, carries no mark, and no root and
\* no element of an allocated array dangles: mark_sweep_collect frees nothing
\* the program can reach, and mark_sweep_alloc cuts no block another owns.
THEOREM MarkSweepHeapIntact == Spec => []HeapIntact
<1>1. IInv => HeapIntact
  <2> SUFFICES ASSUME IInv, Quiet
               PROVE  /\ Tiled(heap, Base, heap.watermark) /\ Marked = {}
                      /\ ReferencesValid(Allocated(heap, Base, heap.watermark))
    BY DEF HeapIntact
  <2>1. Consistent(heap, roots, free_list) /\ NoMarks(heap)
    BY DEF IInv, Phase, Quiet
  <2>2. WellFormed(heap, roots, Base, heap.watermark)
    BY <2>1 DEF Consistent
  <2>3. Marked = {}
    BY <2>1 DEF NoMarks, Marked, IsMarked
  <2> QED
    BY <2>2, <2>3, WellFormedMeans
<1> QED
  BY <1>1, AlwaysIInv, PTL

\* For every heap and program, a collection is invisible: neither the marks, nor
\* the sweep, nor a reused block changes what the program sees.
THEOREM MarkSweepViewPreserved == Spec => []ViewPreserved
<1>1. Init => Seen
  BY InitSeen DEF Init
<1>2. Seen => ViewPreserved
  BY SeenMeans DEF ViewPreserved
<1> QED
  BY <1>1, <1>2, NextSeen, AlwaysIInv, PTL DEF Spec

\* Mark-sweep implements AbstractHeap: seen through the arrays it can reach, every
\* instruction of the program does there what it does on an unbounded memory, and
\* mark_sweep_collect, step by step, does nothing.
THEOREM MarkSweepRefinesAbstract == Spec => RefinesAbstract
<1>1. Init => Seen /\ Waiting /\ Abstract!Init
  BY InitSeen, InitWaiting, InitIsAbstract DEF Init
<1> QED
  BY <1>1, NextSeen, NextWaiting, NextIsAbstract, AlwaysIInv, PTL
     DEF Spec, RefinesAbstract, Abstract!Spec

\* While marking, what is not marked yet is still found from the frames of the
\* recursion and the roots to come.
THEOREM MarkSweepTriColour == Spec => []TriColour
<1>1. IInv => TriColour
  BY MarkInvMeans DEF IInv, Phase
<1> QED
  BY <1>1, AlwaysIInv, PTL

\* Between collections the free lists hold every free chunk exactly once, in the
\* bucket of its length, and no two free chunks are neighbours.
THEOREM MarkSweepFreeListsExact == Spec => []FreeListsExact
<1>1. IInv => FreeListsExact
  <2> SUFFICES ASSUME IInv, Quiet PROVE FreeListsExact
    BY DEF FreeListsExact
  <2>1. Consistent(heap, roots, free_list)
    BY DEF IInv, Phase, Quiet
  <2>2. ListsHold(free_list, FreeChunks(heap, heap.watermark), heap)
    BY <2>1 DEF Consistent
  <2> QED
    BY <2>1, <2>2 DEF FreeListsExact, ListsHold, Consistent
<1> QED
  BY <1>1, AlwaysIInv, PTL

\* gc_alloc gives up after a collection only when the bump room is too small and
\* no free block is long enough: the first-fit search misses none.
THEOREM MarkSweepOomMeansFull == Spec => OomMeansFull
<1>1. IInv /\ [Next]_vars =>
        [(pc = "retry" /\ pc' = "oom") =>
            /\ heap.watermark + Header + req.length > HeapEnd
            /\ \A a \in FreeChunks(heap, heap.watermark) :
                  ObjectLength(heap, a) < req.length]_vars
  <2> SUFFICES ASSUME IInv, Next, pc = "retry", pc' = "oom"
               PROVE  /\ heap.watermark + Header + req.length > HeapEnd
                      /\ \A a \in FreeChunks(heap, heap.watermark) :
                            ObjectLength(heap, a) < req.length
    OBVIOUS
  <2>1. Consistent(heap, roots, free_list) /\ NoMarks(heap) /\ req \in Request
    BY DEF IInv, Phase, Types
  <2>2. PICK id \in FreshIds : Retry(id)
    BY DEF Next, Program, CollectorStep, NewArray, AllocFirst, AIAStore, ProgramStep, AIALoad,
           IAStore, Pop, GCInstruction, Collect, CollectReturn, VisitRoot, VisitRef, SweepStart,
           MarkDone, SweepMarked, SweepDead, SweepTail, SweepEnd
  <2>3. req.length \in Nat /\ req.ref \in BOOLEAN /\ id \in Ids \cup {NoId}
    <3>1. CASE req = NoReq
      BY <3>1 DEF NoReq, FreshIds
    <3>2. CASE req \in [slot : RootSlots, length : Lengths, ref : BOOLEAN]
      <4>1. req.length \in Lengths /\ req.ref \in BOOLEAN
        BY <3>2
      <4> QED
        BY <4>1, MutatorAssumption DEF MutatorAssumption, FreshIds
    <3> QED
      BY <2>1, <3>1, <3>2 DEF Request
  <2>4. Alloc(req.length, req.ref, id).ref = SENTINEL
    BY <2>2 DEF Retry, AllocRetry
  <2>5. /\ ~Fits(heap, req.length)
        /\ \A a \in FreeChunks(heap, heap.watermark) : ObjectLength(heap, a) < req.length
    BY <2>1, <2>3, <2>4, AllocEffect
  <2>6. heap.watermark \in Nat
    BY <2>1, Numbers DEF Consistent, WellFormed, Heap
  <2> QED
    BY <2>3, <2>5, <2>6, Numbers DEF Fits
<1> QED
  BY <1>1, AlwaysIInv, PTL DEF Spec, OomMeansFull

\* Marking and the sweep are exact, and so are the figures: what a collection
\* reports live is what the program reaches, that and the free words make up the
\* heap, and no free chunk is longer than the one it reports.
THEOREM MarkSweepSweepAccounts == Spec => []SweepAccounts
<1>1. IInv /\ Accounts => SweepAccounts
  <2> SUFFICES ASSUME IInv, Accounts, pc = "return"
               PROVE  /\ out.live + out.free = heap.watermark - Base
                      /\ out.live = MapThenSumSet(LAMBDA a : ObjectWords(heap, a), LiveRefs)
                      /\ out.largest = FoldSet(LAMBDA a, m : IF ObjectWords(heap, a) > m
                                                THEN ObjectWords(heap, a) ELSE m,
                                               0, FreeChunks(heap, heap.watermark))
    BY DEF SweepAccounts
  <2> DEFINE w == heap.watermark
             F == FreeChunks(heap, w)
             A == Allocated(heap, Base, w)
  <2>1. Tallied(heap, out, w) /\ A \subseteq Live(heap, roots)
    BY DEF Accounts, Returned
  <2>2. WellFormed(heap, roots, Base, w)
    BY DEF IInv, Phase, Consistent
  <2>3. /\ heap \in Heap /\ Base \in Nat /\ w \in Nat /\ Tiled(heap, Base, w)
        /\ A \subseteq Headers(heap, Base, w) /\ F \subseteq Addr
    BY <2>2 DEF WellFormed, Allocated, FreeChunks, Headers
  <2>4. Live(heap, roots) = A
    BY <2>1, <2>2, WellFormedLive
  <2>5. LiveRefs = A
    BY <2>4 DEF LiveRefs, RootSet, Live
  <2>6. out.live + out.free = w - Base /\ out.live \in Nat /\ out.free \in Nat
    BY <2>1 DEF Tallied
  <2>7. out.live = WordsOf(heap, A)
    <3>1. Occupied(heap) = w - Base - WordsOf(heap, F) /\ Occupied(heap) \in Nat
      BY <2>2, OccupiedIs
    <3>2. out.free = WordsOf(heap, F)
      BY <2>1 DEF Tallied
    <3> HIDE DEF F
    <3> QED
      BY <2>3, <2>6, <3>1, <3>2 DEF Occupied
  <2>8. Greatest(heap, F, out.largest)
    BY <2>1 DEF Tallied
  <2> HIDE DEF A, F, w
  <2>9. MapThenSumSet(LAMBDA a : ObjectWords(heap, a), A) = WordsOf(heap, A)
    BY <2>3, SumCovered DEF WordsOf
  <2>10. FoldSet(LAMBDA a, m : IF ObjectWords(heap, a) > m THEN ObjectWords(heap, a) ELSE m, 0, F)
            = out.largest
    BY <2>3, <2>8, FoldGreatest
  <2> QED
    BY <2>5, <2>6, <2>7, <2>9, <2>10 DEF F, w
<1> QED
  BY <1>1, AlwaysAccounts, PTL

\* The bytes gc_stats counts as allocated and not freed are, in words, those of
\* the heap outside the free lists, for every heap and program.
THEOREM MarkSweepNetIsOccupied == Spec => []NetIsOccupied
<1>1. IInv /\ Accounts => NetIsOccupied
  <2> SUFFICES ASSUME IInv, Accounts, CountBytes, Quiet
               PROVE  net = heap.watermark - Base - CountFreeListWords(heap, free_list)
    BY DEF NetIsOccupied
  <2> DEFINE w == heap.watermark
             F == FreeChunks(heap, w)
  <2>1. Consistent(heap, roots, free_list) /\ net = Occupied(heap)
    BY DEF IInv, Phase, Accounts, Quiet
  <2>2. WellFormed(heap, roots, Base, w) /\ ListsHold(free_list, F, heap)
    BY <2>1 DEF Consistent
  <2>3. /\ heap \in Heap /\ w \in Nat /\ Base <= w /\ w <= HeapEnd /\ Base \in Nat
        /\ Tiled(heap, Base, w) /\ F \subseteq Headers(heap, Base, w)
    BY <2>2 DEF WellFormed, FreeChunks
  <2>4. Occupied(heap) = w - Base - WordsOf(heap, F)
    BY <2>2, OccupiedIs
  <2> HIDE DEF F, w
  <2>5. CountFreeListWords(heap, free_list) = WordsOf(heap, F)
    BY <2>2, <2>3, CountWords
  <2> QED
    BY <2>1, <2>4, <2>5 DEF w
<1> QED
  BY <1>1, AlwaysAccounts, PTL
=============================================================================
