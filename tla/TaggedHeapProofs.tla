--------------------------- MODULE TaggedHeapProofs ---------------------------
(***************************************************************************)
(* Proofs about tagged_heap, for any set of keys, any finite set of blocks *)
(* and any limits: every block is held once and none is lost, and the heap *)
(* implements BlockStore.                                                  *)
(***************************************************************************)
EXTENDS TaggedHeap, SequenceTheorems, FiniteSetTheorems, TLAPS

\* A sequence without duplicates.
Distinct(s) == \A i, j \in 1 .. Len(s) : s[i] = s[j] => i = j

\* BlockHeldOnce, vector by vector.
VectorsDistinct == \A k \in Keys : Distinct(allocated_blocks[k])
VectorsDisjoint ==
  \A k, l \in Keys : k # l => Elements(allocated_blocks[k]) \cap Elements(allocated_blocks[l]) = {}
FreeApart ==
  /\ Distinct(free_blocks)
  /\ \A k \in Keys : Elements(allocated_blocks[k]) \cap Elements(free_blocks) = {}

HInv == TypeOK /\ VectorsDistinct /\ VectorsDisjoint /\ FreeApart /\ NoBlockLost

-----------------------------------------------------------------------------
(* Sequences as sets *)

LEMMA AppendElements ==
  ASSUME NEW S, NEW s \in Seq(S), NEW b \in S
  PROVE  /\ Append(s, b) \in Seq(S)
         /\ Elements(Append(s, b)) = Elements(s) \cup {b}
         /\ Distinct(s) /\ b \notin Elements(s) => Distinct(Append(s, b))
<1>1. /\ Append(s, b) \in Seq(S)
      /\ Len(Append(s, b)) = Len(s) + 1
      /\ \A i \in 1 .. Len(s) : Append(s, b)[i] = s[i]
      /\ Append(s, b)[Len(s) + 1] = b
      /\ Len(s) \in Nat
  OBVIOUS
<1>2. Elements(Append(s, b)) = Elements(s) \cup {b}
  BY <1>1 DEF Elements
<1>3. ASSUME Distinct(s), b \notin Elements(s) PROVE Distinct(Append(s, b))
  BY <1>1, <1>3 DEF Distinct, Elements
<1> QED BY <1>1, <1>2, <1>3

LEMMA TailElements ==
  ASSUME NEW S, NEW s \in Seq(S), s # <<>>
  PROVE  /\ Head(s) \in S /\ Tail(s) \in Seq(S)
         /\ Elements(s) = {Head(s)} \cup Elements(Tail(s))
         /\ Distinct(s) => Distinct(Tail(s)) /\ Head(s) \notin Elements(Tail(s))
<1>1. /\ Head(s) \in S /\ Tail(s) \in Seq(S)
      /\ Len(s) \in Nat \ {0}
      /\ Len(Tail(s)) = Len(s) - 1
      /\ \A i \in 1 .. Len(Tail(s)) : Tail(s)[i] = s[i + 1]
      /\ Head(s) = s[1]
  BY HeadTailProperties, EmptySeq
<1>2. \A i \in 2 .. Len(s) : i - 1 \in 1 .. Len(Tail(s)) /\ s[i] = Tail(s)[i - 1]
  BY <1>1
<1>3. Elements(s) = {Head(s)} \cup Elements(Tail(s))
  <2>1. Elements(s) \subseteq {Head(s)} \cup Elements(Tail(s))
    <3> SUFFICES ASSUME NEW i \in 1 .. Len(s) PROVE s[i] \in {Head(s)} \cup Elements(Tail(s))
      BY DEF Elements
    <3>1. CASE i = 1
      BY <1>1, <3>1
    <3>2. CASE i # 1
      BY <1>1, <1>2, <3>2 DEF Elements
    <3> QED BY <3>1, <3>2
  <2>2. {Head(s)} \cup Elements(Tail(s)) \subseteq Elements(s)
    BY <1>1 DEF Elements
  <2> QED BY <2>1, <2>2
<1>4. ASSUME Distinct(s) PROVE Distinct(Tail(s)) /\ Head(s) \notin Elements(Tail(s))
  BY <1>1, <1>4 DEF Distinct, Elements
<1> QED BY <1>1, <1>3, <1>4

\* A sequence cut in two.
LEMMA CutElements ==
  ASSUME NEW S, NEW s \in Seq(S), NEW n \in 0 .. Len(s)
  PROVE  /\ SubSeq(s, 1, n) \in Seq(S) /\ SubSeq(s, n + 1, Len(s)) \in Seq(S)
         /\ Elements(s) = Elements(SubSeq(s, 1, n)) \cup Elements(SubSeq(s, n + 1, Len(s)))
         /\ Distinct(s) =>
              /\ Distinct(SubSeq(s, 1, n))
              /\ Elements(SubSeq(s, 1, n)) \cap Elements(SubSeq(s, n + 1, Len(s))) = {}
<1> DEFINE p == SubSeq(s, 1, n)
           q == SubSeq(s, n + 1, Len(s))
<1>0. Len(s) \in Nat /\ \A i \in 1 .. Len(s) : s[i] \in S
  BY LenProperties, ElementOfSeq
<1>1. p \in Seq(S) /\ Len(p) = n /\ \A i \in 1 .. n : p[i] = s[i]
  BY <1>0, SubSeqProperties
<1>2. q \in Seq(S) /\ Len(q) = Len(s) - n /\ \A i \in 1 .. Len(s) - n : q[i] = s[n + i]
  <2>1. \A i \in n + 1 .. Len(s) : s[i] \in S
    BY <1>0
  <2>2. /\ q \in Seq(S)
        /\ Len(q) = IF n + 1 <= Len(s) THEN Len(s) - (n + 1) + 1 ELSE 0
        /\ \A i \in 1 .. Len(s) - (n + 1) + 1 : q[i] = s[(n + 1) + i - 1]
    BY <1>0, <2>1, SubSeqProperties
  <2> QED BY <1>0, <2>2
<1>3. Elements(s) \subseteq Elements(p) \cup Elements(q)
  <2> SUFFICES ASSUME NEW i \in 1 .. Len(s) PROVE s[i] \in Elements(p) \cup Elements(q)
    BY DEF Elements
  <2>1. CASE i <= n
    BY <1>1, <2>1 DEF Elements
  <2>2. CASE i > n
    <3>1. i - n \in 1 .. Len(q) /\ q[i - n] = s[i]
      BY <1>0, <1>2, <2>2
    <3> HIDE DEF q
    <3> QED BY <3>1 DEF Elements
  <2> QED BY <1>0, <2>1, <2>2
<1>4. Elements(p) \cup Elements(q) \subseteq Elements(s)
  <2> HIDE DEF p, q
  <2> QED BY <1>0, <1>1, <1>2 DEF Elements
<1>5. ASSUME Distinct(s) PROVE Distinct(p) /\ Elements(p) \cap Elements(q) = {}
  <2> HIDE DEF p, q
  <2>1. Distinct(p)
    BY <1>0, <1>1, <1>5 DEF Distinct
  <2>2. ASSUME NEW i \in 1 .. Len(p), NEW j \in 1 .. Len(q), p[i] = q[j] PROVE FALSE
    <3>1. i \in 1 .. Len(s) /\ n + j \in 1 .. Len(s) /\ s[i] = s[n + j] /\ i # n + j
      BY <1>0, <1>1, <1>2, <2>2
    <3> QED BY <1>5, <3>1 DEF Distinct
  <2> QED BY <2>1, <2>2 DEF Elements
<1> QED BY <1>1, <1>2, <1>3, <1>4, <1>5

LEMMA ConcatElements ==
  ASSUME NEW S, NEW s \in Seq(S), NEW r \in Seq(S)
  PROVE  /\ s \o r \in Seq(S)
         /\ Elements(s \o r) = Elements(s) \cup Elements(r)
         /\ Distinct(s) /\ Distinct(r) /\ Elements(s) \cap Elements(r) = {} => Distinct(s \o r)
<1> DEFINE c == s \o r
<1>1. /\ c \in Seq(S) /\ Len(s) \in Nat /\ Len(r) \in Nat
      /\ Len(c) = Len(s) + Len(r)
      /\ \A i \in 1 .. Len(s) : c[i] = s[i]
      /\ \A i \in Len(s) + 1 .. Len(s) + Len(r) : c[i] = r[i - Len(s)]
  BY ConcatProperties, LenProperties
<1>2. \A i \in 1 .. Len(r) : c[Len(s) + i] = r[i]
  BY <1>1
<1> HIDE DEF c
<1>3. Elements(c) \subseteq Elements(s) \cup Elements(r)
  <2> SUFFICES ASSUME NEW i \in 1 .. Len(c) PROVE c[i] \in Elements(s) \cup Elements(r)
    BY DEF Elements
  <2>1. CASE i <= Len(s)
    BY <1>1, <2>1 DEF Elements
  <2>2. CASE i > Len(s)
    <3>1. i - Len(s) \in 1 .. Len(r) /\ c[i] = r[i - Len(s)]
      BY <1>1, <2>2
    <3> QED BY <3>1 DEF Elements
  <2> QED BY <1>1, <2>1, <2>2
<1>4. Elements(s) \subseteq Elements(c)
  BY <1>1 DEF Elements
<1>5. Elements(r) \subseteq Elements(c)
  BY <1>1, <1>2 DEF Elements
<1>6. ASSUME Distinct(s), Distinct(r), Elements(s) \cap Elements(r) = {} PROVE Distinct(c)
  <2> SUFFICES ASSUME NEW i \in 1 .. Len(c), NEW j \in 1 .. Len(c), c[i] = c[j] PROVE i = j
    BY DEF Distinct
  <2>1. CASE i <= Len(s) /\ j <= Len(s)
    BY <1>1, <1>6, <2>1 DEF Distinct
  <2>2. CASE i > Len(s) /\ j > Len(s)
    <3>1. /\ i - Len(s) \in 1 .. Len(r) /\ j - Len(s) \in 1 .. Len(r)
          /\ r[i - Len(s)] = r[j - Len(s)]
      BY <1>1, <2>2
    <3>2. i - Len(s) = j - Len(s)
      BY <1>6, <3>1 DEF Distinct
    <3> QED BY <1>1, <3>2
  <2>3. CASE i <= Len(s) /\ j > Len(s)
    <3>1. i \in 1 .. Len(s) /\ j - Len(s) \in 1 .. Len(r) /\ s[i] = r[j - Len(s)]
      BY <1>1, <2>3
    <3> QED BY <1>6, <3>1 DEF Elements
  <2>4. CASE i > Len(s) /\ j <= Len(s)
    <3>1. j \in 1 .. Len(s) /\ i - Len(s) \in 1 .. Len(r) /\ s[j] = r[i - Len(s)]
      BY <1>1, <2>4
    <3> QED BY <1>6, <3>1 DEF Elements
  <2> QED BY <1>1, <2>1, <2>2, <2>3, <2>4
<1> QED BY <1>1, <1>3, <1>4, <1>5, <1>6 DEF c

LEMMA EmptyElements == Elements(<<>>) = {} /\ Distinct(<<>>)
BY DEF Elements, Distinct

-----------------------------------------------------------------------------
(* The invariant *)

LEMMA HInvImplies == HInv => TypeOK /\ BlockHeldOnce
<1> SUFFICES ASSUME HInv PROVE BlockOwnedOnce
  BY DEF HInv, BlockHeldOnce
<1>1. ASSUME NEW k \in Keys, NEW l \in Keys,
             NEW i \in 1 .. Len(allocated_blocks[k]), NEW j \in 1 .. Len(allocated_blocks[l]),
             allocated_blocks[k][i] = allocated_blocks[l][j]
      PROVE  k = l /\ i = j
  <2>1. k = l
    BY <1>1 DEF HInv, VectorsDisjoint, Elements
  <2> QED BY <1>1, <2>1 DEF HInv, VectorsDistinct, Distinct
<1>2. \A i, j \in 1 .. Len(free_blocks) : free_blocks[i] = free_blocks[j] => i = j
  BY DEF HInv, FreeApart, Distinct
<1>3. InUse \cap Elements(free_blocks) = {}
  BY DEF HInv, FreeApart, InUse
<1> QED BY <1>1, <1>2, <1>3 DEF BlockOwnedOnce

\* The constructor fills free_blocks with different blocks.
LEMMA HeapInitInv == Init => HInv
<1> SUFFICES ASSUME Init PROVE HInv
  OBVIOUS
<1>1. NumFree \in Nat
  BY HeapAssumption, FS_CardinalityType
<1>2. free_blocks \in Seq(Blocks) /\ Len(free_blocks) = NumFree /\ Distinct(free_blocks)
  BY <1>1 DEF Init, Distinct
<1>3. \A k \in Keys : Elements(allocated_blocks[k]) = {} /\ Distinct(allocated_blocks[k])
  BY EmptyElements DEF Init
<1>4. Elements(free_blocks) \subseteq Blocks
  BY <1>2 DEF Elements
<1>5. TypeOK
  <2>1. <<>> \in Seq(Blocks)
    BY EmptySeq
  <2>2. allocated_blocks \in [Keys -> Seq(Blocks)]
    BY <2>1 DEF Init
  <2>3. live \subseteq Blocks /\ peak \in Nat /\ destroyed \in BOOLEAN
    BY <1>4 DEF Init
  <2> QED BY <1>2, <2>2, <2>3 DEF TypeOK
<1>6. NoBlockLost
  BY <1>3 DEF Init, NoBlockLost, InUse
<1> QED BY <1>2, <1>3, <1>5, <1>6 DEF HInv, VectorsDistinct, VectorsDisjoint, FreeApart

\* alloc_block hands out a block that is nowhere in use and leaves free_blocks
\* without it.
LEMMA AllocPicks ==
  ASSUME HInv, NEW key \in Keys, AllocBlock(key)
  PROVE  \E b \in Blocks, rest \in Seq(Blocks) :
           /\ Grant(key, b, rest)
           /\ b \notin InUse
           /\ Distinct(rest) /\ b \notin Elements(rest)
           /\ {b} \cup Elements(rest) = {b} \cup Elements(free_blocks)
           /\ Elements(rest) \subseteq Elements(free_blocks)
<1>1. CASE free_blocks # <<>> /\ Grant(key, Head(free_blocks), Tail(free_blocks))
  <2>1. free_blocks \in Seq(Blocks)
    BY DEF HInv, TypeOK
  <2>2. /\ Head(free_blocks) \in Blocks /\ Tail(free_blocks) \in Seq(Blocks)
        /\ Elements(free_blocks) = {Head(free_blocks)} \cup Elements(Tail(free_blocks))
        /\ Distinct(Tail(free_blocks)) /\ Head(free_blocks) \notin Elements(Tail(free_blocks))
    BY <1>1, <2>1, TailElements DEF HInv, FreeApart
  <2>3. Head(free_blocks) \notin InUse
    BY <2>2 DEF HInv, FreeApart, InUse
  <2> QED BY <1>1, <2>2, <2>3
<1>2. CASE free_blocks = <<>> /\ \E b \in Blocks \ live : Grant(key, b, <<>>)
  <2>1. PICK b \in Blocks \ live : Grant(key, b, <<>>)
    BY <1>2
  <2>2. b \notin InUse
    BY DEF HInv, NoBlockLost
  <2>3. <<>> \in Seq(Blocks)
    BY EmptySeq
  <2> QED BY <1>2, <2>1, <2>2, <2>3, EmptyElements
<1> QED BY <1>1, <1>2 DEF AllocBlock

\* alloc_block keeps the invariant.
LEMMA AllocInv == ASSUME HInv, NEW key \in Keys, AllocBlock(key) PROVE HInv'
<1>1. PICK b \in Blocks, rest \in Seq(Blocks) :
        /\ Grant(key, b, rest)
        /\ b \notin InUse
        /\ Distinct(rest) /\ b \notin Elements(rest)
        /\ {b} \cup Elements(rest) = {b} \cup Elements(free_blocks)
        /\ Elements(rest) \subseteq Elements(free_blocks)
  BY AllocPicks
<1> DEFINE ab == allocated_blocks
<1>2. /\ ab \in [Keys -> Seq(Blocks)] /\ live \subseteq Blocks /\ peak \in Nat
      /\ destroyed \in BOOLEAN
  BY DEF HInv, TypeOK
<1>3. /\ ab' = [ab EXCEPT ![key] = Append(ab[key], b)]
      /\ free_blocks' = rest /\ live' = live \cup {b} /\ destroyed' = destroyed
      /\ peak' = Larger(peak, Cardinality(InUse \cup {b}))
  BY <1>1, <1>2 DEF Grant
<1>4. /\ Append(ab[key], b) \in Seq(Blocks)
      /\ Elements(Append(ab[key], b)) = Elements(ab[key]) \cup {b}
      /\ Distinct(Append(ab[key], b))
  <2>1. b \notin Elements(ab[key])
    BY <1>1 DEF InUse
  <2>2. ab[key] \in Seq(Blocks) /\ Distinct(ab[key])
    BY <1>2 DEF HInv, VectorsDistinct
  <2> QED BY <2>1, <2>2, AppendElements
<1>5. /\ ab'[key] = Append(ab[key], b)
      /\ \A k \in Keys : k # key => ab'[k] = ab[k]
      /\ ab' \in [Keys -> Seq(Blocks)]
  BY <1>2, <1>3, <1>4
<1>6. InUse' = InUse \cup {b}
  BY <1>4, <1>5 DEF InUse
<1>7. TypeOK'
  <2>1. InUse \cup {b} \subseteq Blocks
    BY <1>1, <1>2 DEF HInv, NoBlockLost
  <2>2. Cardinality(InUse \cup {b}) \in Nat
    BY <2>1, HeapAssumption, FS_Subset, FS_CardinalityType
  <2>3. peak' \in Nat
    BY <1>2, <1>3, <2>2 DEF Larger
  <2> QED BY <1>2, <1>3, <1>5, <2>3 DEF TypeOK
<1>8. VectorsDistinct'
  BY <1>4, <1>5 DEF HInv, VectorsDistinct
<1>9. \A k \in Keys : Elements(ab[k]) \subseteq InUse
  BY DEF InUse
<1>10. VectorsDisjoint'
  <2> SUFFICES ASSUME NEW k \in Keys, NEW l \in Keys, k # l
               PROVE  Elements(ab'[k]) \cap Elements(ab'[l]) = {}
    BY DEF VectorsDisjoint
  <2>1. Elements(ab[k]) \cap Elements(ab[l]) = {}
    BY DEF HInv, VectorsDisjoint
  <2>2. b \notin Elements(ab[k]) /\ b \notin Elements(ab[l])
    BY <1>1, <1>9
  <2> QED BY <1>4, <1>5, <2>1, <2>2
<1>11. FreeApart'
  <2> SUFFICES ASSUME NEW k \in Keys PROVE Elements(ab'[k]) \cap Elements(rest) = {}
    BY <1>1, <1>3 DEF FreeApart
  <2>1. Elements(ab[k]) \cap Elements(rest) = {}
    BY <1>1 DEF HInv, FreeApart
  <2> QED BY <1>1, <1>4, <1>5, <2>1
<1>12. NoBlockLost'
  BY <1>1, <1>3, <1>6 DEF HInv, NoBlockLost
<1> QED BY <1>7, <1>8, <1>10, <1>11, <1>12 DEF HInv

\* free takes as many blocks as it has room for, at most all of them.
LEMMA RoomIsPart ==
  ASSUME free_blocks \in Seq(Blocks), NEW n \in Nat
  PROVE  RoomFor(n) \in 0 .. n
<1>1. Len(free_blocks) \in Nat
  BY LenProperties
<1> QED BY <1>1, HeapAssumption DEF RoomFor

\* free keeps the invariant: the vector is cut in two, one part is free, the
\* other is deleted.
LEMMA FreeInv == ASSUME HInv, NEW key \in Keys, Free(key) PROVE HInv'
<1> DEFINE ab == allocated_blocks
           set == ab[key]
           n == RoomFor(Len(set))
           kept == SubSeq(set, 1, n)
           gone == SubSeq(set, n + 1, Len(set))
<1>1. /\ ab \in [Keys -> Seq(Blocks)] /\ set \in Seq(Blocks) /\ free_blocks \in Seq(Blocks)
      /\ live \subseteq Blocks /\ peak \in Nat /\ destroyed \in BOOLEAN
  BY DEF HInv, TypeOK
<1>2. n \in 0 .. Len(set)
  BY <1>1, RoomIsPart, LenProperties
<1>3. /\ free_blocks' = free_blocks \o kept
      /\ live' = live \ Elements(gone)
      /\ ab' = [ab EXCEPT ![key] = <<>>]
      /\ peak' = peak /\ destroyed' = destroyed
  BY DEF Free, Take
<1> HIDE DEF n
<1>4. /\ kept \in Seq(Blocks) /\ gone \in Seq(Blocks)
      /\ Elements(set) = Elements(kept) \cup Elements(gone)
      /\ Distinct(kept) /\ Elements(kept) \cap Elements(gone) = {}
  <2>1. Distinct(set)
    BY DEF HInv, VectorsDistinct
  <2> QED BY <1>1, <1>2, <2>1, CutElements
<1> HIDE DEF kept, gone
<1>5. /\ free_blocks' \in Seq(Blocks)
      /\ Elements(free_blocks') = Elements(free_blocks) \cup Elements(kept)
      /\ Distinct(free_blocks')
  <2>1. Distinct(free_blocks) /\ Elements(free_blocks) \cap Elements(kept) = {}
    BY <1>4 DEF HInv, FreeApart
  <2> QED BY <1>1, <1>3, <1>4, <2>1, ConcatElements
<1>6. /\ ab' \in [Keys -> Seq(Blocks)]
      /\ Elements(ab'[key]) = {} /\ Distinct(ab'[key])
      /\ \A k \in Keys : k # key => ab'[k] = ab[k]
  <2>1. <<>> \in Seq(Blocks)
    BY EmptySeq
  <2> QED BY <1>1, <1>3, <2>1, EmptyElements
<1>7. TypeOK'
  BY <1>1, <1>3, <1>5, <1>6 DEF TypeOK
<1>8. VectorsDistinct' /\ VectorsDisjoint'
  BY <1>6 DEF HInv, VectorsDistinct, VectorsDisjoint
<1>9. \A k \in Keys : k # key => Elements(ab[k]) \cap Elements(set) = {}
  BY DEF HInv, VectorsDisjoint
<1>10. FreeApart'
  <2> SUFFICES ASSUME NEW k \in Keys PROVE Elements(ab'[k]) \cap Elements(free_blocks') = {}
    BY <1>5 DEF FreeApart
  <2>1. CASE k = key
    BY <1>6, <2>1
  <2>2. CASE k # key
    <3>1. Elements(ab[k]) \cap Elements(free_blocks) = {}
      BY DEF HInv, FreeApart
    <3> QED BY <1>4, <1>5, <1>6, <1>9, <2>2, <3>1
  <2> QED BY <2>1, <2>2
<1>11. InUse = InUse' \cup Elements(set)
  BY <1>6 DEF InUse
<1>12. InUse' \cap Elements(gone) = {}
  <2> SUFFICES ASSUME NEW k \in Keys PROVE Elements(ab'[k]) \cap Elements(gone) = {}
    BY DEF InUse
  <2> QED BY <1>4, <1>6, <1>9
<1>13. Elements(free_blocks) \cap Elements(gone) = {}
  BY <1>4 DEF HInv, FreeApart
<1>14. NoBlockLost'
  <2>1. live = InUse \cup Elements(free_blocks)
    BY DEF HInv, NoBlockLost
  <2>2. live' = InUse' \cup Elements(free_blocks')
    BY <1>3, <1>4, <1>5, <1>11, <1>12, <1>13, <2>1
  <2> QED BY <2>2 DEF NoBlockLost
<1> QED BY <1>7, <1>8, <1>10, <1>14 DEF HInv

\* The destructor leaves nothing.
LEMMA DestroyInv == ASSUME HInv, Destroy PROVE HInv'
<1>1. <<>> \in Seq(Blocks)
  BY EmptySeq
<1>2. live' = {} /\ free_blocks' = <<>> /\ \A k \in Keys : allocated_blocks'[k] = <<>>
  BY DEF Destroy, HInv, NoBlockLost
<1>3. TypeOK'
  BY <1>1, <1>2 DEF Destroy, HInv, TypeOK
<1>4. VectorsDistinct' /\ VectorsDisjoint' /\ FreeApart'
  BY <1>2, EmptyElements DEF VectorsDistinct, VectorsDisjoint, FreeApart
<1>5. InUse' = {}
  BY <1>2, EmptyElements DEF InUse
<1> QED BY <1>2, <1>3, <1>4, <1>5, EmptyElements DEF HInv, NoBlockLost

LEMMA HNextInv == HInv /\ [Next]_vars => HInv'
<1> SUFFICES ASSUME HInv, [Next]_vars PROVE HInv'
  OBVIOUS
<1>1. CASE \E key \in Keys : AllocBlock(key)
  BY <1>1, AllocInv
<1>2. CASE \E key \in Keys : Free(key)
  BY <1>2, FreeInv
<1>3. CASE Destroy
  BY <1>3, DestroyInv
<1>4. CASE UNCHANGED vars
  BY <1>4 DEF vars, HInv, TypeOK, VectorsDistinct, VectorsDisjoint, FreeApart, NoBlockLost, InUse
<1> QED BY <1>1, <1>2, <1>3, <1>4 DEF Next

LEMMA HInvAlways == Spec => []HInv
<1>1. Init => HInv
  BY HeapInitInv
<1>2. HInv /\ [Next]_vars => HInv'
  BY HNextInv
<1> QED BY <1>1, <1>2, PTL DEF Spec

\* tagged_heap.cpp: every block that is not deleted is in one vector of
\* allocated_blocks or in free_blocks, and there once.
THEOREM BlocksHeldOnce == Spec => []BlockHeldOnce
<1>1. HInv => BlockHeldOnce
  BY HInvImplies
<1> QED BY <1>1, HInvAlways, PTL

-----------------------------------------------------------------------------
(* The footprint *)

\* `new' is called only when every block there is has been given out.
LEMMA AllocFootprint ==
  ASSUME HInv, FootprintWithinPeak, NEW key \in Keys, AllocBlock(key)
  PROVE  FootprintWithinPeak'
<1>1. /\ live \subseteq Blocks /\ peak \in Nat /\ live = InUse \cup Elements(free_blocks)
      /\ free_blocks \in Seq(Blocks)
  BY DEF HInv, TypeOK, NoBlockLost
<1>2. PICK b \in Blocks :
        /\ live' = live \cup {b} /\ peak' = Larger(peak, Cardinality(InUse \cup {b}))
        /\ b \in live \/ live = InUse
  <2>1. CASE free_blocks # <<>> /\ Grant(key, Head(free_blocks), Tail(free_blocks))
    <3>1. Head(free_blocks) \in Blocks /\ Head(free_blocks) \in Elements(free_blocks)
      BY <1>1, <2>1, TailElements
    <3> QED BY <1>1, <2>1, <3>1 DEF Grant
  <2>2. CASE free_blocks = <<>> /\ \E b \in Blocks \ live : Grant(key, b, <<>>)
    BY <1>1, <2>2, EmptyElements DEF Grant
  <2> QED BY <2>1, <2>2 DEF AllocBlock
<1>3. /\ Cardinality(InUse \cup {b}) \in Nat /\ Cardinality(live) \in Nat
  <2>1. InUse \cup {b} \in SUBSET Blocks /\ live \in SUBSET Blocks
    BY <1>1
  <2> QED BY <2>1, HeapAssumption, FS_Subset, FS_CardinalityType
<1>4. NumFree \in Nat
  BY HeapAssumption, FS_CardinalityType
<1>5. CASE b \in live
  <2>1. Cardinality(live') = Cardinality(live)
    BY <1>2, <1>5
  <2>2. peak' >= peak
    BY <1>1, <1>2, <1>3 DEF Larger
  <2>3. Cardinality(live) <= NumFree \/ Cardinality(live) <= peak
    BY DEF FootprintWithinPeak, Larger
  <2>4. peak' \in Nat
    BY <1>1, <1>2, <1>3 DEF Larger
  <2> QED BY <1>1, <1>3, <1>4, <2>1, <2>2, <2>3, <2>4 DEF FootprintWithinPeak, Larger
<1>6. CASE live = InUse
  <2>1. Cardinality(live') = Cardinality(InUse \cup {b})
    BY <1>2, <1>6
  <2> QED BY <1>1, <1>2, <1>3, <1>4, <2>1 DEF FootprintWithinPeak, Larger
<1> QED BY <1>2, <1>5, <1>6

\* The other operations only delete.
LEMMA ShrinkFootprint ==
  ASSUME HInv, FootprintWithinPeak, live' \subseteq live, peak' = peak
  PROVE  FootprintWithinPeak'
<1>1. IsFiniteSet(live)
  BY HeapAssumption, FS_Subset DEF HInv, TypeOK
<1>2. /\ Cardinality(live') <= Cardinality(live)
      /\ Cardinality(live') \in Nat /\ Cardinality(live) \in Nat
  <2>1. IsFiniteSet(live') /\ Cardinality(live') <= Cardinality(live)
    BY <1>1, FS_Subset
  <2> QED BY <1>1, <2>1, FS_CardinalityType
<1>3. NumFree \in Nat /\ peak \in Nat
  BY HeapAssumption, FS_CardinalityType DEF HInv, TypeOK
<1> QED BY <1>2, <1>3 DEF FootprintWithinPeak, Larger

LEMMA InitFootprint == Init => FootprintWithinPeak
<1> SUFFICES ASSUME Init PROVE FootprintWithinPeak
  OBVIOUS
<1>1. NumFree \in Nat
  BY HeapAssumption, FS_CardinalityType
<1>2. free_blocks \in Surjection(1 .. NumFree, live)
  BY <1>1 DEF Init, Elements, Surjection
<1>3. IsFiniteSet(1 .. NumFree) /\ Cardinality(1 .. NumFree) = NumFree
  BY <1>1, FS_Interval
<1>4. IsFiniteSet(live) /\ Cardinality(live) <= NumFree
  BY <1>2, <1>3, FS_Surjection
<1>5. Cardinality(live) \in Nat
  BY <1>4, FS_CardinalityType
<1> QED BY <1>1, <1>4, <1>5 DEF FootprintWithinPeak, Larger, Init

\* tagged_heap.cpp: the heap never holds more memory than was once in use, or
\* than the constructor asked for.
THEOREM FootprintBounded == Spec => []FootprintWithinPeak
<1>1. HInv /\ FootprintWithinPeak /\ [Next]_vars => FootprintWithinPeak'
  <2> SUFFICES ASSUME HInv, FootprintWithinPeak, [Next]_vars PROVE FootprintWithinPeak'
    OBVIOUS
  <2>1. ASSUME NEW key \in Keys, AllocBlock(key) PROVE FootprintWithinPeak'
    BY <2>1, AllocFootprint
  <2>2. ASSUME NEW key \in Keys, Free(key) PROVE FootprintWithinPeak'
    <3>1. live' \subseteq live /\ peak' = peak
      BY <2>2 DEF Free, Take
    <3> QED BY <3>1, ShrinkFootprint
  <2>3. CASE Destroy \/ UNCHANGED vars
    <3>1. live' \subseteq live /\ peak' = peak
      BY <2>3 DEF Destroy, vars
    <3> QED BY <3>1, ShrinkFootprint
  <2> QED BY <2>1, <2>2, <2>3 DEF Next
<1> QED BY <1>1, InitFootprint, HInvAlways, PTL DEF Spec

-----------------------------------------------------------------------------
(* Refinement *)

\* What Owner is, given the invariant.
OwnerFacts ==
  /\ \A k \in Keys : \A b \in Elements(allocated_blocks[k]) : b \in Blocks /\ Owner[b] = k
  /\ \A b \in Blocks : b \in InUse <=> Owner[b] # Nobody
  /\ Owner = [b \in Blocks |-> Owner[b]]

LEMMA OwnerIs == HInv => OwnerFacts
<1> SUFFICES ASSUME HInv PROVE OwnerFacts
  OBVIOUS
<1>1. ASSUME NEW k \in Keys, NEW b \in Elements(allocated_blocks[k])
      PROVE  b \in Blocks /\ Owner[b] = k
  <2>1. b \in Blocks
    BY DEF HInv, TypeOK, NoBlockLost, InUse
  <2>2. \A l \in Keys : b \in Elements(allocated_blocks[l]) <=> l = k
    BY DEF HInv, VectorsDisjoint
  <2>3. (CHOOSE l \in Keys : b \in Elements(allocated_blocks[l])) = k
    BY <2>2
  <2> QED BY <2>1, <2>2, <2>3 DEF Owner
<1>2. \A b \in Blocks : b \notin InUse => Owner[b] = Nobody
  BY DEF Owner, InUse
<1>3. \A b \in Blocks : b \in InUse => Owner[b] # Nobody
  BY <1>1, HeapAssumption DEF InUse
<1>4. Owner = [b \in Blocks |-> Owner[b]]
  BY DEF Owner
<1> QED BY <1>1, <1>2, <1>3, <1>4 DEF OwnerFacts

LEMMA OwnerIsNext == HInv' => OwnerFacts'
BY OwnerIs, PTL

LEMMA StoreInit == Init => Store!Init
<1> SUFFICES ASSUME Init PROVE Store!Init
  OBVIOUS
<1>1. InUse = {}
  BY EmptyElements DEF Init, InUse
<1>2. \A b \in Blocks : Owner[b] = Nobody
  BY <1>1, HeapInitInv, OwnerIs DEF OwnerFacts
<1> QED BY <1>2, HeapInitInv, OwnerIs DEF OwnerFacts, Store!Init

\* alloc_block obtains the block it returns.
LEMMA StoreAlloc ==
  ASSUME HInv, HInv', NEW key \in Keys, AllocBlock(key)
  PROVE  \E b \in Blocks : Store!Obtain(key, b)
<1> DEFINE ab == allocated_blocks
<1>1. PICK b \in Blocks, rest \in Seq(Blocks) : Grant(key, b, rest) /\ b \notin InUse
  BY AllocPicks
<1>2. ab \in [Keys -> Seq(Blocks)]
  BY DEF HInv, TypeOK
<1>3. /\ Elements(ab'[key]) = Elements(ab[key]) \cup {b}
      /\ \A k \in Keys : k # key => ab'[k] = ab[k]
  BY <1>1, <1>2, AppendElements DEF Grant
<1>4. OwnerFacts /\ OwnerFacts'
  BY OwnerIs, OwnerIsNext
<1>5. Owner'[b] = key
  BY <1>3, <1>4 DEF OwnerFacts
<1>6. ASSUME NEW c \in Blocks, c # b PROVE Owner'[c] = Owner[c]
  <2>1. CASE c \in InUse
    <3>1. PICK k \in Keys : c \in Elements(ab[k])
      BY <2>1 DEF InUse
    <3>2. c \in Elements(ab'[k])
      BY <1>3, <3>1
    <3> QED BY <1>4, <3>1, <3>2 DEF OwnerFacts
  <2>2. CASE c \notin InUse
    <3>1. c \notin InUse'
      BY <1>3, <1>6, <2>2 DEF InUse
    <3> QED BY <1>4, <2>2, <3>1 DEF OwnerFacts
  <2> QED BY <2>1, <2>2
<1>7. Owner[b] = Nobody
  BY <1>1, <1>4 DEF OwnerFacts
<1>8. Owner' = [Owner EXCEPT ![b] = key]
  <2> HIDE DEF ab
  <2>1. Owner = [c \in Blocks |-> Owner[c]] /\ Owner' = [c \in Blocks |-> Owner'[c]]
    BY <1>4 DEF OwnerFacts
  <2> QED BY <1>5, <1>6, <2>1
<1> QED BY <1>7, <1>8 DEF Store!Obtain

\* free releases the blocks of its key and no others.
LEMMA StoreFree ==
  ASSUME HInv, HInv', NEW key \in Keys, Free(key)
  PROVE  Store!Release(key)
<1> DEFINE ab == allocated_blocks
<1>1. /\ Elements(ab'[key]) = {}
      /\ \A k \in Keys : k # key => ab'[k] = ab[k]
  <2>1. ab \in [Keys -> Seq(Blocks)] /\ ab' = [ab EXCEPT ![key] = <<>>]
    BY DEF HInv, TypeOK, Free, Take
  <2> QED BY <2>1, EmptyElements
<1>2. OwnerFacts /\ OwnerFacts'
  BY OwnerIs, OwnerIsNext
<1>3. ASSUME NEW c \in Blocks
      PROVE  Owner'[c] = IF Owner[c] = key THEN Nobody ELSE Owner[c]
  <2>1. CASE c \notin InUse
    <3>1. c \notin InUse'
      BY <1>1, <2>1 DEF InUse
    <3>2. Owner[c] = Nobody /\ Owner'[c] = Nobody
      BY <1>2, <2>1, <3>1 DEF OwnerFacts
    <3> QED BY <3>2
  <2>2. CASE c \in InUse
    <3>1. PICK k \in Keys : c \in Elements(ab[k])
      BY <2>2 DEF InUse
    <3>2. Owner[c] = k
      BY <1>2, <3>1 DEF OwnerFacts
    <3>3. CASE k # key
      BY <1>1, <1>2, <3>1, <3>2, <3>3 DEF OwnerFacts
    <3>4. CASE k = key
      <4>1. \A l \in Keys : c \in Elements(ab[l]) => l = key
        BY <1>2, <3>2, <3>4 DEF OwnerFacts
      <4>2. c \notin InUse'
        BY <1>1, <4>1 DEF InUse
      <4> QED BY <1>2, <3>2, <3>4, <4>2 DEF OwnerFacts
    <3> QED BY <3>3, <3>4
  <2> QED BY <2>1, <2>2
<1>4. Owner' = [c \in Blocks |-> Owner'[c]]
  BY <1>2 DEF OwnerFacts
<1> QED BY <1>3, <1>4 DEF Store!Release

\* The destructor releases everything.
LEMMA StoreDestroy == ASSUME HInv, HInv', Destroy PROVE Store!ReleaseAll
<1>1. InUse' = {}
  BY EmptyElements DEF Destroy, InUse
<1>2. OwnerFacts'
  BY OwnerIsNext
<1> QED BY <1>1, <1>2 DEF OwnerFacts, Store!ReleaseAll

LEMMA StoreNext == HInv /\ HInv' /\ [Next]_vars => [Store!Next]_Owner
<1> SUFFICES ASSUME HInv, HInv', [Next]_vars PROVE [Store!Next]_Owner
  OBVIOUS
<1>1. ASSUME NEW key \in Keys, AllocBlock(key) PROVE Store!Next
  BY <1>1, StoreAlloc DEF Store!Next
<1>2. ASSUME NEW key \in Keys, Free(key) PROVE Store!Next
  BY <1>2, StoreFree DEF Store!Next
<1>3. ASSUME Destroy PROVE Store!Next
  BY <1>3, StoreDestroy DEF Store!Next
<1>4. CASE UNCHANGED vars
  BY <1>4 DEF vars, Owner
<1> QED BY <1>1, <1>2, <1>3, <1>4 DEF Next

\* tagged_heap.cpp implements BlockStore: a block belongs to the key it was
\* allocated under until that key is freed, whatever the free list does.
THEOREM HeapImplementsBlockStore == Spec => ImplementsBlockStore
<1>1. Init => Store!Init
  BY StoreInit
<1>2. HInv /\ HInv' /\ [Next]_vars => [Store!Next]_Owner
  BY StoreNext
<1> QED BY <1>1, <1>2, HInvAlways, PTL DEF Spec, ImplementsBlockStore, Store!Spec

=============================================================================
