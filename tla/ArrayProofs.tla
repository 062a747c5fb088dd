----------------------------- MODULE ArrayProofs -----------------------------
(***************************************************************************)
(* What holds of util/array.h, util/buffer.h and the allocator's count for *)
(* any number of arrays and buffers, any size of elements, words of any    *)
(* width and any limit of the heap.                                        *)
(***************************************************************************)
EXTENDS Array, TLAPS, SequenceTheorems, FiniteSetTheorems

-----------------------------------------------------------------------------
(* Sizes and rooms.                                                        *)

(* More elements take no less room.                                        *)
LEMMA TimesGrows ==
  ASSUME NEW k \in Nat, NEW m \in Nat, k <= m, NEW w \in Nat
  PROVE  k * w <= m * w
<1> DEFINE d == m - k
           x == k * w
           y == d * w
<1>1. d \in Nat /\ m = k + d
  OBVIOUS
<1> HIDE DEF d
<1>2. (k + d) * w = x + y
  BY <1>1
<1>3. x \in Nat /\ y \in Nat
  BY <1>1
<1> HIDE DEF x, y
<1>4. x <= x + y
  BY <1>3
<1>5. QED
  BY <1>1, <1>2, <1>4 DEF x

(* What fits into a block is what its size divided by that of an element   *)
(* says.                                                                   *)
LEMMA RoomFits ==
  ASSUME NEW bytes \in Nat, NEW w \in Nat \ {0}, NEW k \in Nat
  PROVE  /\ bytes \div w \in Nat
         /\ k <= bytes \div w <=> k * w <= bytes
         /\ k * w \in Nat /\ (k * w) \div w = k
         /\ k <= k * w /\ (k * w = 0 <=> k = 0)
         /\ 0 \div w = 0
<1> DEFINE q == bytes \div w
<1>1. q \in Nat /\ q * w <= bytes /\ bytes < q * w + w
  OBVIOUS
<1> HIDE DEF q
<1>2. k <= q <=> k * w <= bytes
  BY <1>1
<1>3. k * w \in Nat /\ (k * w) \div w = k
  OBVIOUS
<1>4. k <= k * w /\ (k * w = 0 <=> k = 0)
  OBVIOUS
<1>5. 0 \div w = 0
  OBVIOUS
<1>6. QED
  BY <1>1, <1>2, <1>3, <1>4, <1>5 DEF q

(* What is less than a word's limit is left alone by computing in words.   *)
LEMMA InWord ==
  ASSUME NEW x \in Nat, NEW limit \in Nat, x < limit
  PROVE  x % limit = x
  OBVIOUS

(* The size of an element, and what an array holds against its block.      *)
LEMMA Rooms ==
  ASSUME ArrayInv, NEW a \in Arr
  PROVE  /\ ElementSize(a) \in Nat \ {0}
         /\ n[a] \in Nat /\ size[a] \in 0 .. Heap /\ Heap \in Nat
         /\ n[a] * ElementSize(a) <= size[a]
         /\ n[a] <= Room(a) /\ Room(a) \in Nat
         /\ cells[a] \in Seq(Cell) /\ Len(cells[a]) = Room(a)
         /\ \A i \in 1 .. n[a] : cells[a][i] \in Cell \ {Junk}
         /\ (n[a] + 1) * ElementSize(a) <= Heap + ElementSize(a)
         /\ ElementSize(a) <= Width
         /\ Content(a) \in Seq(Cell) /\ Len(Content(a)) = n[a]
         /\ \A i \in 1 .. n[a] : Content(a)[i] = cells[a][i]
<1>1. ElementSize(a) \in Nat \ {0} /\ ElementSize(a) <= Width /\ Heap \in Nat /\ Word \in Nat
  BY ArrayAssumption DEF ElementSize
<1>2. /\ n[a] \in Nat /\ size[a] \in 0 .. Heap
      /\ cells[a] \in Seq(Cell) /\ Len(cells[a]) = Room(a)
      /\ n[a] <= Room(a)
  BY <1>1 DEF ArrayInv, TypeOK, InBounds, BlocksMatch
<1>3. n[a] * ElementSize(a) <= size[a] /\ Room(a) \in Nat
  BY <1>1, <1>2, RoomFits DEF Room
<1>4. ASSUME NEW i \in 1 .. n[a]
      PROVE  cells[a][i] \in Cell \ {Junk}
  <2>1. i \in 1 .. Len(cells[a]) /\ cells[a][i] \in Cell
    BY <1>2, <1>3, ElementOfSeq
  <2>2. /\ Content(a) \in Seq(Cell) /\ Len(Content(a)) = n[a]
        /\ Content(a)[i] = cells[a][i]
    BY <1>2, <1>3, SubSeqProperties DEF Content
  <2>3. Content(a)[i] \in ToSet(Content(a))
    BY <1>2, <2>2 DEF ToSet
  <2>4. QED
    BY <2>1, <2>2, <2>3 DEF ArrayInv, TypeOK
<1>5. (n[a] + 1) * ElementSize(a) <= Heap + ElementSize(a)
  <2> DEFINE e == ElementSize(a)
  <2> HIDE DEF e
  <2>1. e \in Nat /\ n[a] \in Nat /\ n[a] * e <= Heap /\ Heap \in Nat
    BY <1>1, <1>2, <1>3 DEF e
  <2>2. (n[a] + 1) * e = n[a] * e + e
    BY <2>1
  <2>3. QED
    BY <2>1, <2>2 DEF e
<1>6. /\ Content(a) \in Seq(Cell) /\ Len(Content(a)) = n[a]
      /\ \A i \in 1 .. n[a] : Content(a)[i] = cells[a][i]
  <2>1. \A i \in 1 .. n[a] : cells[a][i] \in Cell
    BY <1>4
  <2>2. QED
    BY <1>2, <2>1, SubSeqProperties DEF Content
<1>7. QED
  BY <1>1, <1>2, <1>3, <1>4, <1>5, <1>6

(* Elements that fit into a block are not outside of it.                   *)
LEMMA Inside ==
  ASSUME NEW a \in Arr, NEW k \in Nat, NEW bytes \in Nat,
         ElementSize(a) \in Nat, k * ElementSize(a) <= bytes
  PROVE  ~Outside(a, k, bytes)
<1> DEFINE x == k * ElementSize(a)
<1>1. x \in Nat /\ x <= bytes
  OBVIOUS
<1> HIDE DEF x
<1>2. ~(x > bytes)
  BY <1>1
<1>3. QED
  BY <1>2 DEF Outside, x

(* Elements moved within a block: M is what the block c becomes.           *)
Shifted(M, c, to, from, k) ==
  /\ M \in Seq(Cell)
  /\ Len(M) = Len(c)
  /\ \A i \in 1 .. Len(c) :
       M[i] = IF i \notin to + 1 .. to + k THEN c[i]
              ELSE IF i - to + from \in 1 .. Len(c) THEN c[i - to + from] ELSE Junk

LEMMA MovedCells ==
  ASSUME NEW c \in Seq(Cell), NEW to \in Nat, NEW from \in Nat, NEW k \in Nat
  PROVE  Shifted(Moved(c, to, from, k), c, to, from, k)
<1> DEFINE F(i) == IF i \notin to + 1 .. to + k THEN c[i]
                   ELSE IF i - to + from \in 1 .. Len(c) THEN c[i - to + from] ELSE Junk
<1>1. Len(c) \in Nat /\ DOMAIN c = 1 .. Len(c)
  OBVIOUS
<1>2. \A i \in 1 .. Len(c) : F(i) \in Cell
  BY ElementOfSeq DEF Cell
<1>3. Moved(c, to, from, k) = [i \in 1 .. Len(c) |-> F(i)]
  BY <1>1 DEF Moved
<1> HIDE DEF F
<1>4. [i \in 1 .. Len(c) |-> F(i)] \in Seq(Cell)
  BY <1>1, <1>2, IsASeq
<1>5. Len([i \in 1 .. Len(c) |-> F(i)]) = Len(c)
  BY <1>1
<1>6. QED
  BY <1>3, <1>4, <1>5 DEF F, Shifted

-----------------------------------------------------------------------------
(* resize().                                                               *)

(* What resize() returns and leaves behind: a length that its block has    *)
(* room for, the elements there were, zeros above them, and as many blocks *)
(* more or fewer as it says.                                               *)
LEMMA Resized ==
  ASSUME ArrayInv, NEW a \in Arr, NEW c \in Seq(Cell), Len(c) = Room(a),
         NEW k \in Nat, k * ElementSize(a) < Word,
         NEW granted \in BOOLEAN, May(k * ElementSize(a), granted),
         NEW r, r = Resize(a, c, k, granted)
  PROVE  /\ r.ok <=> (k <= n[a] \/ granted)
         /\ r.n = IF r.ok THEN k ELSE n[a]
         /\ r.n \in Nat /\ r.size \in 0 .. Heap /\ r.cells \in Seq(Cell)
         /\ r.n * ElementSize(a) <= r.size
         /\ Len(r.cells) = r.size \div ElementSize(a)
         /\ \A i \in 1 .. r.n : r.cells[i] = IF i <= n[a] THEN c[i] ELSE Zero
         /\ r.count = (IF r.size > 0 THEN 1 ELSE 0) - Blocks(a)
         /\ ~r.ok => r.cells = c
<1> DEFINE w == ElementSize(a)
           bytes == k * w
           block == IF bytes = 0 THEN 0 ELSE IF granted THEN bytes ELSE size[a]
           M(i) == IF i \in n[a] + 1 .. k /\ n[a] < k THEN Zero
                   ELSE IF i <= Len(c) THEN c[i] ELSE Junk
           moved == [i \in 1 .. (block \div w) |-> M(i)]
<1>1. /\ w \in Nat \ {0} /\ n[a] \in Nat /\ size[a] \in 0 .. Heap /\ Heap \in Nat
      /\ n[a] * w <= size[a] /\ n[a] <= Room(a) /\ Room(a) \in Nat
      /\ Word \in Nat
  BY Rooms, ArrayAssumption
<1>2. bytes \in Nat /\ bytes % Word = bytes /\ (bytes = 0 <=> k = 0)
  <2>1. bytes \in Nat /\ (bytes = 0 <=> k = 0) /\ bytes < Word
    BY <1>1, RoomFits
  <2>2. bytes % Word = bytes
    BY <1>1, <2>1, InWord
  <2>3. QED
    BY <2>1, <2>2
<1>3. granted => bytes <= Heap
  BY DEF May
<1> HIDE DEF bytes
<1>4. /\ block \in 0 .. Heap
      /\ bytes = 0 => block = 0
      /\ bytes # 0 /\ granted => block = bytes
      /\ bytes # 0 /\ ~granted => block = size[a]
  BY <1>1, <1>2, <1>3
<1>5. block \div w \in Nat
  <2> HIDE DEF block, w
  <2>1. block \in Nat
    BY <1>1, <1>4
  <2>2. QED
    BY <1>1, <2>1, RoomFits
<1>6. /\ moved \in Seq(Cell)
      /\ Len(moved) = block \div w
      /\ \A i \in 1 .. (block \div w) : moved[i] = M(i)
  <2> DEFINE m == block \div w
  <2>1. \A i \in 1 .. m : M(i) \in Cell
    BY <1>1, ElementOfSeq DEF Cell
  <2> HIDE DEF M, block
  <2>2. m \in Nat
    BY <1>5
  <2> HIDE DEF m
  <2>3. [i \in 1 .. m |-> M(i)] \in Seq(Cell)
    BY <2>1, <2>2, IsASeq
  <2>4. Len([i \in 1 .. m |-> M(i)]) = m
    BY <2>2
  <2>5. QED
    BY <2>3, <2>4 DEF m
<1>7. r = IF k = n[a] THEN [ok |-> TRUE, n |-> k, size |-> size[a], cells |-> c, count |-> 0]
          ELSE IF k > 0 /\ (bytes = 0 \/ ~granted) /\ n[a] < k
          THEN [ok |-> FALSE, n |-> n[a], size |-> block, cells |-> c,
                count |-> Counted(a, bytes, granted)]
          ELSE [ok |-> TRUE, n |-> k, size |-> block, cells |-> moved,
                count |-> Counted(a, bytes, granted)]
  BY <1>2 DEF Resize, ClearFrom, bytes
<1> HIDE DEF moved, block
<1>8. CASE k = n[a]
  <2>1. r.ok = TRUE /\ r.n = k /\ r.size = size[a] /\ r.cells = c /\ r.count = 0
    BY <1>7, <1>8
  <2>2. Len(c) = r.size \div w
    BY <2>1 DEF Room
  <2>3. r.count = (IF r.size > 0 THEN 1 ELSE 0) - Blocks(a)
    BY <1>1, <2>1 DEF Blocks
  <2>4. QED
    BY <1>1, <1>8, <2>1, <2>2, <2>3
<1>9. CASE k > n[a] /\ ~granted
  <2>1. /\ r.ok = FALSE /\ r.n = n[a] /\ r.size = block /\ r.cells = c
        /\ r.count = Counted(a, bytes, granted)
    BY <1>1, <1>7, <1>9
  <2>2. bytes # 0 /\ r.size = size[a] /\ r.count = 0
    BY <1>1, <1>2, <1>4, <1>9, <2>1 DEF Counted
  <2>3. Len(c) = r.size \div w
    BY <2>2 DEF Room
  <2>4. r.count = (IF r.size > 0 THEN 1 ELSE 0) - Blocks(a)
    BY <1>1, <2>2 DEF Blocks
  <2>5. \A i \in 1 .. r.n : r.cells[i] = IF i <= n[a] THEN c[i] ELSE Zero
    BY <1>1, <2>1
  <2>6. QED
    BY <1>1, <1>9, <2>1, <2>2, <2>3, <2>4, <2>5
<1>10. CASE k # n[a] /\ (k < n[a] \/ granted)
  <2>1. ~(k > 0 /\ (bytes = 0 \/ ~granted) /\ n[a] < k)
    BY <1>1, <1>2, <1>10
  <2>2. /\ r.ok = TRUE /\ r.n = k /\ r.size = block /\ r.cells = moved
        /\ r.count = Counted(a, bytes, granted)
    BY <1>7, <1>10, <2>1
  <2>3. k * w <= block
    <3>1. CASE bytes = 0
      BY <1>2, <1>4, <3>1 DEF bytes
    <3>2. CASE bytes # 0 /\ granted
      BY <1>2, <1>4, <3>2 DEF bytes
    <3>3. CASE bytes # 0 /\ ~granted
      <4>1. block = size[a] /\ k <= Room(a)
        BY <1>1, <1>4, <1>10, <3>3
      <4>2. QED
        BY <1>1, <4>1, RoomFits DEF Room
    <3>4. QED
      BY <3>1, <3>2, <3>3
  <2>4. k <= block \div w
    <3>1. block \in Nat
      BY <1>1, <1>4
    <3>2. QED
      BY <1>1, <2>3, <3>1, RoomFits
  <2>5. ASSUME NEW i \in 1 .. k
        PROVE  r.cells[i] = IF i <= n[a] THEN c[i] ELSE Zero
    <3>1. i \in 1 .. (block \div w)
      BY <1>5, <2>4
    <3>2. r.cells[i] = M(i)
      BY <1>6, <2>2, <3>1
    <3>3. CASE i <= n[a]
      <4>1. i <= Len(c) /\ ~(i \in n[a] + 1 .. k)
        BY <1>1, <3>3
      <4>2. QED
        BY <3>2, <3>3, <4>1
    <3>4. CASE i > n[a]
      <4>1. i \in n[a] + 1 .. k /\ n[a] < k
        BY <1>1, <3>4
      <4>2. QED
        BY <1>1, <3>2, <3>4, <4>1
    <3>5. QED
      BY <1>1, <3>3, <3>4
  <2>6. r.count = (IF r.size > 0 THEN 1 ELSE 0) - Blocks(a)
    <3>1. r.count = (IF block > 0 THEN 1 ELSE 0) - Blocks(a)
      BY <1>1, <1>2, <1>4, <2>2 DEF Counted, Blocks
    <3>2. QED
      BY <2>2, <3>1
  <2>7. r.ok <=> (k <= n[a] \/ granted)
    BY <1>1, <1>10, <2>2
  <2>8. /\ r.n * w <= r.size /\ r.size \in 0 .. Heap
        /\ r.cells \in Seq(Cell) /\ Len(r.cells) = r.size \div w
    BY <1>4, <1>6, <2>2, <2>3
  <2>9. QED
    BY <2>2, <2>5, <2>6, <2>7, <2>8
<1>11. QED
  BY <1>1, <1>8, <1>9, <1>10

-----------------------------------------------------------------------------
(* Counting blocks and structures.                                         *)

(* Arrays and buffers are finitely many.                                   *)
LEMMA Countable ==
  ASSUME NEW S \in SUBSET Arr
  PROVE  IsFiniteSet(S) /\ Cardinality(S) \in Nat
<1>1. IsFiniteSet(S)
  BY ArrayAssumption, FS_Subset
<1>2. QED
  BY <1>1, FS_CardinalityType

(* A set that one array may have left or joined.                           *)
LEMMA OneMore ==
  ASSUME NEW S \in SUBSET Arr, NEW T \in SUBSET Arr, NEW a \in Arr,
         \A x \in Arr \ {a} : x \in S <=> x \in T
  PROVE  Cardinality(T) =
           Cardinality(S) + (IF a \in T THEN 1 ELSE 0) - (IF a \in S THEN 1 ELSE 0)
<1>1. IsFiniteSet(S) /\ Cardinality(S) \in Nat /\ Cardinality(T) \in Nat
  BY Countable
<1>2. CASE a \in S /\ a \notin T
  <2>1. T = S \ {a}
    BY <1>2
  <2>2. Cardinality(S \ {a}) = Cardinality(S) - 1
    BY <1>1, <1>2, FS_RemoveElement
  <2>3. QED
    BY <1>1, <1>2, <2>1, <2>2
<1>3. CASE a \notin S /\ a \in T
  <2>1. T = S \cup {a}
    BY <1>3
  <2>2. Cardinality(S \cup {a}) = Cardinality(S) + 1
    BY <1>1, <1>3, FS_AddElement
  <2>3. QED
    BY <1>1, <1>3, <2>1, <2>2
<1>4. CASE a \in S <=> a \in T
  <2>1. S = T
    BY <1>4
  <2>2. QED
    BY <1>1, <1>4, <2>1
<1>5. QED
  BY <1>2, <1>3, <1>4

-----------------------------------------------------------------------------
(* The invariant.                                                          *)

(* An array that has become r, in whose block all it holds fits, and whose *)
(* block and structure the allocator has counted, leaves all in order.     *)
LEMMA Became ==
  ASSUME ArrayInv, NEW a \in Arr, NEW r,
         r.n \in Nat, r.size \in 0 .. Heap, r.cells \in Seq(Cell),
         r.n * ElementSize(a) <= r.size,
         Len(r.cells) = r.size \div ElementSize(a),
         \A i \in 1 .. r.n : r.cells[i] # Junk,
         Becomes(a, r, FALSE),
         NEW k \in 0 .. MaxRefs, refs' = [refs EXCEPT ![a] = k],
         k = 0 => r.size = 0,
         count' = count + (IF r.size > 0 THEN 1 ELSE 0) - Blocks(a)
                  + (IF a \in Buffers /\ k > 0 THEN 1 ELSE 0)
                  - (IF a \in Buffers /\ refs[a] > 0 THEN 1 ELSE 0)
  PROVE  /\ ArrayInv'
         /\ n'[a] = r.n /\ \A i \in 1 .. r.n : Content(a)'[i] = r.cells[i]
         /\ Content(a)' \in Seq(Cell) /\ Len(Content(a)') = r.n
<1>1. /\ ElementSize(a) \in Nat \ {0} /\ ElementSize(a)' = ElementSize(a)
      /\ Heap \in Nat /\ Word \in Nat /\ Heap < Word /\ MaxRefs \in Nat
      /\ Zero # Junk
  BY Rooms, ArrayAssumption DEF ElementSize
<1>2. /\ n \in [Arr -> 0 .. (Word - 1)] /\ size \in [Arr -> 0 .. Heap]
      /\ cells \in [Arr -> Seq(Cell)] /\ refs \in [Arr -> 0 .. MaxRefs]
      /\ count \in Nat /\ ~overrun
  BY DEF ArrayInv, TypeOK, InBounds
<1>3. /\ n' = [n EXCEPT ![a] = r.n] /\ size' = [size EXCEPT ![a] = r.size]
      /\ cells' = [cells EXCEPT ![a] = r.cells]
      /\ overrun' = (overrun \/ FALSE)
  BY Zenon DEF Becomes
<1>4. r.n <= r.size \div ElementSize(a) /\ r.n <= r.n * ElementSize(a) /\ r.n * ElementSize(a) \in Nat
  <2>1. r.size \in Nat
    BY <1>1
  <2>2. QED
    BY <1>1, <2>1, RoomFits
<1>5. r.n \in 0 .. (Word - 1)
  BY <1>1, <1>4
<1>6. overrun' = FALSE
  BY <1>2, <1>3, Zenon
<1>7. /\ n' \in [Arr -> 0 .. (Word - 1)] /\ size' \in [Arr -> 0 .. Heap]
      /\ cells' \in [Arr -> Seq(Cell)] /\ refs' \in [Arr -> 0 .. MaxRefs]
  BY <1>2, <1>3, <1>5
<1>8. ASSUME NEW x \in Arr
      PROVE  /\ Junk \notin ToSet(Content(x)') /\ n'[x] <= Room(x)'
             /\ Len(cells'[x]) = Room(x)' /\ (refs'[x] = 0 => size'[x] = 0)
  <2>1. CASE x = a
    <3>1. n'[x] = r.n /\ cells'[x] = r.cells /\ refs'[x] = k /\ size'[x] = r.size
      BY <1>2, <1>3, <2>1
    <3>2. Room(x)' = r.size \div ElementSize(a)
      BY <1>1, <2>1, <3>1 DEF Room
    <3>3. /\ DOMAIN SubSeq(r.cells, 1, r.n) = 1 .. r.n
          /\ \A i \in 1 .. r.n : SubSeq(r.cells, 1, r.n)[i] = r.cells[i]
      <4>1. \A i \in 1 .. r.n : r.cells[i] \in Cell
        BY <1>4, ElementOfSeq
      <4>2. SubSeq(r.cells, 1, r.n) \in Seq(Cell) /\ Len(SubSeq(r.cells, 1, r.n)) = r.n
        BY <4>1, SubSeqProperties
      <4>3. QED
        BY <4>1, <4>2, SubSeqProperties
    <3>4. Junk \notin ToSet(Content(x)')
      BY <3>1, <3>3 DEF Content, ToSet
    <3>5. QED
      BY <1>4, <3>1, <3>2, <3>4
  <2>2. CASE x # a
    <3>1. n'[x] = n[x] /\ cells'[x] = cells[x] /\ refs'[x] = refs[x] /\ size'[x] = size[x]
      BY <1>2, <1>3, <2>2
    <3>2. Room(x)' = Room(x) /\ Content(x)' = Content(x)
      BY <3>1 DEF Room, Content, ElementSize
    <3>3. QED
      BY <3>1, <3>2 DEF ArrayInv, TypeOK, InBounds, BlocksMatch
  <2>3. QED
    BY <2>1, <2>2
<1>9. CountExact'
  <2>1. \A x \in Arr : /\ x \in Allocated <=> size[x] > 0
                       /\ x \in Allocated' <=> size'[x] > 0
                       /\ x \in Living <=> (x \in Buffers /\ refs[x] > 0)
                       /\ x \in Living' <=> (x \in Buffers /\ refs'[x] > 0)
    BY DEF Allocated, Living, Arr
  <2>2. \A x \in Arr \ {a} : size'[x] = size[x] /\ refs'[x] = refs[x]
    BY <1>2, <1>3
  <2>3. /\ Allocated \in SUBSET Arr /\ Allocated' \in SUBSET Arr
        /\ Living \in SUBSET Arr /\ Living' \in SUBSET Arr
    BY DEF Allocated, Living, Arr
  <2>4. /\ Cardinality(Allocated) \in Nat /\ Cardinality(Living) \in Nat
        /\ Cardinality(Allocated') \in Nat /\ Cardinality(Living') \in Nat
    BY <2>3, Countable
  <2>5. size'[a] = r.size /\ refs'[a] = k
    BY <1>2, <1>3
  <2>6. Cardinality(Allocated') =
          Cardinality(Allocated) + (IF r.size > 0 THEN 1 ELSE 0) - Blocks(a)
    <3>1. Cardinality(Allocated') = Cardinality(Allocated)
            + (IF a \in Allocated' THEN 1 ELSE 0) - (IF a \in Allocated THEN 1 ELSE 0)
      BY <2>1, <2>2, <2>3, OneMore
    <3>2. QED
      BY SMTT(30), <2>1, <2>4, <2>5, <3>1 DEF Blocks
  <2>7. Cardinality(Living') = Cardinality(Living)
          + (IF a \in Buffers /\ k > 0 THEN 1 ELSE 0)
          - (IF a \in Buffers /\ refs[a] > 0 THEN 1 ELSE 0)
    <3>1. Cardinality(Living') = Cardinality(Living)
            + (IF a \in Living' THEN 1 ELSE 0) - (IF a \in Living THEN 1 ELSE 0)
      BY <2>1, <2>2, <2>3, OneMore
    <3>2. QED
      BY <2>1, <2>4, <2>5, <3>1
  <2>8. count = Cardinality(Allocated) + Cardinality(Living)
    BY DEF ArrayInv, CountExact
  <2>9. count' = Cardinality(Allocated') + Cardinality(Living')
    BY <2>4, <2>6, <2>7, <2>8 DEF Blocks
  <2>10. QED
    BY <2>9 DEF CountExact
<1>10. count' \in Nat
  <2>1. Allocated' \in SUBSET Arr /\ Living' \in SUBSET Arr
    BY DEF Allocated, Living, Arr
  <2>2. Cardinality(Allocated') \in Nat /\ Cardinality(Living') \in Nat
    BY <2>1, Countable
  <2>3. QED
    BY <1>9, <2>2 DEF CountExact
<1>11. TypeOK'
  BY <1>6, <1>7, <1>8, <1>10 DEF TypeOK
<1>12. InBounds' /\ BlocksMatch'
  BY <1>6, <1>8 DEF InBounds, BlocksMatch
<1>13. ArrayInv'
  BY <1>9, <1>11, <1>12 DEF ArrayInv
<1>14. n'[a] = r.n /\ cells'[a] = r.cells
  BY <1>2, <1>3
<1>15. \A i \in 1 .. r.n : r.cells[i] \in Cell
  BY <1>4, ElementOfSeq
<1>16. /\ \A i \in 1 .. r.n : Content(a)'[i] = r.cells[i]
       /\ Content(a)' \in Seq(Cell) /\ Len(Content(a)') = r.n
  BY <1>14, <1>15, SubSeqProperties DEF Content
<1>17. QED
  BY <1>13, <1>14, <1>16
(* Only the references to an array change.                                 *)
LEMMA OnlyReferences ==
  ASSUME ArrayInv, NEW a \in Arr, NEW k \in 0 .. MaxRefs,
         UNCHANGED <<n, size, cells, count, overrun>>,
         refs' = [refs EXCEPT ![a] = k], k = 0 => size[a] = 0,
         a \in Items \/ (k > 0 /\ refs[a] > 0)
  PROVE  ArrayInv'
<1> DEFINE r == [n |-> n[a], size |-> size[a], cells |-> cells[a]]
<1>1. r.n = n[a] /\ r.size = size[a] /\ r.cells = cells[a]
  OBVIOUS
<1>2. /\ n \in [Arr -> 0 .. (Word - 1)] /\ size \in [Arr -> 0 .. Heap]
      /\ cells \in [Arr -> Seq(Cell)] /\ refs \in [Arr -> 0 .. MaxRefs]
      /\ count \in Nat /\ ~overrun
  BY DEF ArrayInv, TypeOK, InBounds
<1>3. ElementSize(a) \in Nat \ {0} /\ size[a] \in 0 .. Heap /\ Heap \in Nat
  BY Rooms
<1> HIDE DEF r
<1>5. Becomes(a, r, FALSE)
  <2>1. /\ n' = [n EXCEPT ![a] = r.n] /\ size' = [size EXCEPT ![a] = r.size]
        /\ cells' = [cells EXCEPT ![a] = r.cells]
    BY <1>1, <1>2
  <2>2. overrun' = (overrun \/ FALSE)
    <3>1. overrun' = FALSE /\ overrun = FALSE
      BY Zenon DEF ArrayInv, TypeOK, InBounds
    <3>2. QED
      BY <3>1, Zenon
  <2>3. QED
    BY <2>1, <2>2 DEF Becomes
<1>6. Items \cap Buffers = {}
  BY ArrayAssumption
<1>7. count' = count + (IF r.size > 0 THEN 1 ELSE 0) - Blocks(a)
               + (IF a \in Buffers /\ k > 0 THEN 1 ELSE 0)
               - (IF a \in Buffers /\ refs[a] > 0 THEN 1 ELSE 0)
  BY <1>1, <1>2, <1>3, <1>6 DEF Blocks
<1>8. \A i \in 1 .. r.n : r.cells[i] # Junk
  BY <1>1, Rooms
<1>9. /\ r.n \in Nat /\ r.size \in 0 .. Heap /\ r.cells \in Seq(Cell)
      /\ r.n * ElementSize(a) <= r.size
      /\ Len(r.cells) = r.size \div ElementSize(a)
  BY <1>1, Rooms DEF Room
<1>10. k = 0 => r.size = 0
  BY <1>1
<1>11. QED
  BY ZenonT(60), <1>5, <1>7, <1>8, <1>9, <1>10, Became

(* An array of which nothing is left.                                      *)
LEMMA Freed ==
  ASSUME ArrayInv, NEW a \in Arr, Becomes(a, Emptied, FALSE),
         refs' = [refs EXCEPT ![a] = 0], refs[a] = 1,
         count' = count - Blocks(a) - (IF a \in Buffers THEN 1 ELSE 0)
  PROVE  ArrayInv'
<1> DEFINE r == Emptied
<1>1. r.n = 0 /\ r.size = 0 /\ r.cells = <<>>
  BY DEF Emptied
<1>2. ElementSize(a) \in Nat \ {0} /\ Heap \in Nat
  BY Rooms
<1>3. 0 * ElementSize(a) = 0 /\ 0 \div ElementSize(a) = 0
  BY <1>2, RoomFits
<1> HIDE DEF r
<1>4. /\ r.n \in Nat /\ r.size \in 0 .. Heap /\ r.cells \in Seq(Cell)
      /\ r.n * ElementSize(a) <= r.size
      /\ Len(r.cells) = r.size \div ElementSize(a)
      /\ \A i \in 1 .. r.n : r.cells[i] # Junk
  BY <1>1, <1>2, <1>3, EmptySeq
<1>5. count \in Nat /\ Blocks(a) \in Nat
  BY DEF ArrayInv, TypeOK, Blocks
<1>6. count' = count + (IF r.size > 0 THEN 1 ELSE 0) - Blocks(a)
               + (IF a \in Buffers /\ 0 > 0 THEN 1 ELSE 0)
               - (IF a \in Buffers /\ refs[a] > 0 THEN 1 ELSE 0)
  BY <1>1, <1>5
<1>7. Becomes(a, r, FALSE)
  BY Zenon DEF r
<1>8. 0 \in 0 .. MaxRefs
  BY ArrayAssumption
<1>9. QED
  BY ZenonT(60), <1>1, <1>4, <1>6, <1>7, <1>8, Became

(* An array that has one owner, before and after, and becomes r.           *)
LEMMA BecameKept ==
  ASSUME ArrayInv, NEW a \in Arr, NEW r,
         r.n \in Nat, r.size \in 0 .. Heap, r.cells \in Seq(Cell),
         r.n * ElementSize(a) <= r.size,
         Len(r.cells) = r.size \div ElementSize(a),
         \A i \in 1 .. r.n : r.cells[i] # Junk,
         Becomes(a, r, FALSE), refs[a] = 1, UNCHANGED refs,
         count' = count + (IF r.size > 0 THEN 1 ELSE 0) - Blocks(a)
  PROVE  /\ ArrayInv'
         /\ n'[a] = r.n /\ \A i \in 1 .. r.n : Content(a)'[i] = r.cells[i]
         /\ Content(a)' \in Seq(Cell) /\ Len(Content(a)') = r.n
<1>1. refs' = [refs EXCEPT ![a] = 1] /\ 1 \in 0 .. MaxRefs
  BY ArrayAssumption DEF ArrayInv, TypeOK
<1>2. 1 = 0 => r.size = 0
  OBVIOUS
<1>3. count \in Nat /\ Blocks(a) \in Nat
  BY DEF ArrayInv, TypeOK, Blocks
<1>4. count' = count + (IF r.size > 0 THEN 1 ELSE 0) - Blocks(a)
               + (IF a \in Buffers /\ 1 > 0 THEN 1 ELSE 0)
               - (IF a \in Buffers /\ refs[a] > 0 THEN 1 ELSE 0)
  BY <1>3
<1>5. QED
  BY ZenonT(60), <1>1, <1>2, <1>4, Became

-----------------------------------------------------------------------------
(* What the operations of lists return.                                    *)

(* The lesser of two numbers.                                              *)
LEMMA Lesser ==
  ASSUME NEW i \in Int, NEW k \in Int
  PROVE  Min({i, k}) = IF i <= k THEN i ELSE k
<1> DEFINE least == IF i <= k THEN i ELSE k
           Least(x) == \A y \in {i, k} : x <= y
<1>1. least \in {i, k} /\ Least(least)
  OBVIOUS
<1>2. \A x \in {i, k} : Least(x) => x = least
  OBVIOUS
<1>3. Min({i, k}) \in {i, k} /\ Least(Min({i, k}))
  BY <1>1 DEF Min
<1>4. QED
  BY <1>2, <1>3

(* A list without its i-th element.                                        *)
LEMMA WithoutElement ==
  ASSUME NEW S, NEW s \in Seq(S), NEW i \in 1 .. Len(s)
  PROVE  /\ RemoveAt(s, i) \in Seq(S) /\ Len(RemoveAt(s, i)) = Len(s) - 1
         /\ \A j \in 1 .. (Len(s) - 1) :
              RemoveAt(s, i)[j] = IF j < i THEN s[j] ELSE s[j + 1]
<1> DEFINE h == SubSeq(s, 1, i - 1)
           t == SubSeq(s, i + 1, Len(s))
<1>1. Len(s) \in Nat /\ \A j \in 1 .. Len(s) : s[j] \in S
  BY ElementOfSeq
<1>2. /\ h \in Seq(S) /\ Len(h) = i - 1
      /\ \A j \in 1 .. (i - 1) : h[j] = s[j]
  <2>1. \A j \in 1 .. (i - 1) : s[j] \in S
    BY <1>1
  <2>2. QED
    BY <1>1, <2>1, SubSeqProperties
<1>3. /\ t \in Seq(S) /\ Len(t) = Len(s) - i
      /\ \A j \in 1 .. (Len(s) - i) : t[j] = s[i + j]
  <2>1. \A j \in i + 1 .. Len(s) : s[j] \in S
    BY <1>1
  <2>2. /\ t \in Seq(S)
        /\ Len(t) = IF i + 1 <= Len(s) THEN Len(s) - (i + 1) + 1 ELSE 0
        /\ \A j \in 1 .. (Len(s) - (i + 1) + 1) : t[j] = s[i + 1 + j - 1]
    BY <1>1, <2>1, SubSeqProperties
  <2>3. Len(s) - (i + 1) + 1 = Len(s) - i
    BY <1>1
  <2>4. ASSUME NEW j \in 1 .. (Len(s) - i)
        PROVE  t[j] = s[i + j]
    <3>1. i + 1 + j - 1 = i + j
      BY <1>1
    <3>2. t[j] = s[i + 1 + j - 1]
      BY <2>2, <2>3
    <3>3. QED
      BY <3>1, <3>2
  <2>5. Len(t) = Len(s) - i
    BY <1>1, <2>2
  <2>6. QED
    BY <2>2, <2>4, <2>5
<1> HIDE DEF h, t
<1>4. /\ h \o t \in Seq(S) /\ Len(h \o t) = Len(h) + Len(t)
      /\ \A j \in 1 .. Len(h) + Len(t) :
           (h \o t)[j] = IF j <= Len(h) THEN h[j] ELSE t[j - Len(h)]
  BY <1>2, <1>3, ConcatProperties
<1>5. RemoveAt(s, i) = h \o t
  BY DEF RemoveAt, h, t
<1>6. Len(h) + Len(t) = Len(s) - 1
  BY <1>1, <1>2, <1>3
<1>7. ASSUME NEW j \in 1 .. (Len(s) - 1)
      PROVE  (h \o t)[j] = IF j < i THEN s[j] ELSE s[j + 1]
  <2>1. CASE j < i
    BY <1>1, <1>2, <1>4, <1>6, <2>1
  <2>2. CASE j >= i
    <3>1. j - Len(h) \in 1 .. (Len(s) - i) /\ i + (j - Len(h)) = j + 1 /\ ~(j <= Len(h))
      BY <1>1, <1>2, <2>2
    <3>2. (h \o t)[j] = t[j - Len(h)]
      BY <1>4, <1>6, <3>1
    <3>3. t[j - Len(h)] = s[i + (j - Len(h))] /\ ~(j < i)
      BY SMTT(30), <1>3, <2>2, <3>1
    <3>4. QED
      BY <3>1, <3>2, <3>3
  <2>3. j < i \/ j >= i
    BY <1>1
  <2>4. QED
    BY <2>1, <2>2, <2>3
<1>8. QED
  BY <1>4, <1>5, <1>6, <1>7

(* A list with e before its i-th element.                                  *)
LEMMA WithElement ==
  ASSUME NEW S, NEW s \in Seq(S), NEW i \in 1 .. (Len(s) + 1), NEW e \in S
  PROVE  /\ InsertAt(s, i, e) \in Seq(S) /\ Len(InsertAt(s, i, e)) = Len(s) + 1
         /\ \A j \in 1 .. (Len(s) + 1) :
              InsertAt(s, i, e)[j] = IF j < i THEN s[j] ELSE IF j = i THEN e ELSE s[j - 1]
<1> DEFINE h == SubSeq(s, 1, i - 1)
           g == h \o <<e>>
           t == SubSeq(s, i, Len(s))
<1>1. Len(s) \in Nat /\ \A j \in 1 .. Len(s) : s[j] \in S
  BY ElementOfSeq
<1>2. /\ h \in Seq(S) /\ Len(h) = i - 1
      /\ \A j \in 1 .. (i - 1) : h[j] = s[j]
  <2>1. \A j \in 1 .. (i - 1) : s[j] \in S
    BY <1>1
  <2>2. QED
    BY <1>1, <2>1, SubSeqProperties
<1>3. /\ t \in Seq(S) /\ Len(t) = Len(s) - i + 1
      /\ \A j \in 1 .. (Len(s) - i + 1) : t[j] = s[i + j - 1]
  <2>1. \A j \in i .. Len(s) : s[j] \in S
    BY <1>1
  <2>2. /\ t \in Seq(S)
        /\ Len(t) = IF i <= Len(s) THEN Len(s) - i + 1 ELSE 0
        /\ \A j \in 1 .. (Len(s) - i + 1) : t[j] = s[i + j - 1]
    BY <1>1, <2>1, SubSeqProperties
  <2>3. QED
    BY <1>1, <2>2
<1>4. /\ g \in Seq(S) /\ Len(g) = i
      /\ \A j \in 1 .. i : g[j] = IF j < i THEN s[j] ELSE e
  <2> HIDE DEF h
  <2>1. <<e>> \in Seq(S) /\ Len(<<e>>) = 1 /\ <<e>>[1] = e
    OBVIOUS
  <2>2. /\ g \in Seq(S) /\ Len(g) = Len(h) + 1
        /\ \A j \in 1 .. Len(h) + 1 : g[j] = IF j <= Len(h) THEN h[j] ELSE <<e>>[j - Len(h)]
    BY <1>2, <2>1, ConcatProperties
  <2>3. ASSUME NEW j \in 1 .. i
        PROVE  g[j] = IF j < i THEN s[j] ELSE e
    <3>1. j \in 1 .. Len(h) + 1 /\ Len(h) = i - 1
      BY <1>2
    <3>2. CASE j < i
      BY <1>2, <2>2, <3>1, <3>2
    <3>3. CASE j = i
      <4>1. j - Len(h) = 1 /\ ~(j <= Len(h))
        BY <3>1, <3>3
      <4>2. QED
        BY <2>1, <2>2, <3>1, <3>3, <4>1
    <3>4. j < i \/ j = i
      OBVIOUS
    <3>5. QED
      BY <3>2, <3>3, <3>4
  <2>4. Len(g) = i
    BY <1>2, <2>2
  <2>5. QED
    BY <2>2, <2>3, <2>4
<1> HIDE DEF g, t
<1>5. /\ g \o t \in Seq(S) /\ Len(g \o t) = Len(g) + Len(t)
      /\ \A j \in 1 .. Len(g) + Len(t) :
           (g \o t)[j] = IF j <= Len(g) THEN g[j] ELSE t[j - Len(g)]
  BY <1>3, <1>4, ConcatProperties
<1>6. InsertAt(s, i, e) = g \o t
  BY DEF InsertAt, g, h, t
<1>7. Len(g) + Len(t) = Len(s) + 1
  BY <1>1, <1>3, <1>4
<1>8. ASSUME NEW j \in 1 .. (Len(s) + 1)
      PROVE  (g \o t)[j] = IF j < i THEN s[j] ELSE IF j = i THEN e ELSE s[j - 1]
  <2>1. CASE j <= i
    BY <1>1, <1>4, <1>5, <1>7, <2>1
  <2>2. CASE j > i
    <3>1. j - Len(g) \in 1 .. (Len(s) - i + 1) /\ i + (j - Len(g)) - 1 = j - 1
          /\ ~(j <= Len(g))
      BY <1>1, <1>4, <2>2
    <3>2. (g \o t)[j] = t[j - Len(g)]
      BY <1>5, <1>7, <3>1
    <3>3. t[j - Len(g)] = s[i + (j - Len(g)) - 1] /\ ~(j < i) /\ j # i
      BY <1>3, <2>2, <3>1
    <3>4. QED
      BY <3>1, <3>2, <3>3
  <2>3. j <= i \/ j > i
    BY <1>1
  <2>4. QED
    BY <2>1, <2>2, <2>3
<1>9. QED
  BY <1>5, <1>6, <1>7, <1>8

(* The first of the elements that are e is the one that goes.              *)
LEMMA WithoutFirst ==
  ASSUME NEW S, NEW s \in Seq(S), NEW e, NEW i \in 1 .. Len(s), s[i] = e,
         \A j \in 1 .. (i - 1) : s[j] # e
  PROVE  RemoveFirst(s, e) = RemoveAt(s, i)
<1> DEFINE I == {j \in 1 .. Len(s) : s[j] = e}
<1>1. i \in I /\ I # {} /\ I \subseteq Int
  OBVIOUS
<1>2. \A j \in I : i <= j
  OBVIOUS
<1>3. RemoveFirst(s, e) = RemoveAt(s, IF I # {} THEN Min(I) ELSE 0)
  BY <1>1 DEF RemoveFirst, SelectInSeq
<1> HIDE DEF I
<1>4. Min(I) \in I /\ \A y \in I : Min(I) <= y
  BY <1>1, <1>2 DEF Min
<1>5. Min(I) <= i /\ i <= Min(I) /\ Min(I) \in Int
  BY <1>1, <1>2, <1>4
<1>6. Min(I) = i
  BY <1>5
<1>7. QED
  BY <1>1, <1>3, <1>6
-----------------------------------------------------------------------------
(* The operations.                                                         *)

(* An insertion puts the item where it is asked to, or does nothing.       *)
LEMMA Insertion ==
  ASSUME ArrayInv, NEW a \in Items, NEW i \in Lengths, NEW item \in Value,
         NEW granted \in BOOLEAN, ArrayInsert(a, i, item, granted)
  PROVE  /\ ArrayInv'
         /\ Content(a)' = IF granted
                          THEN InsertAt(Content(a), Min({i, n[a]}) + 1, item)
                          ELSE Content(a)
<1> DEFINE idx == AtMostEnd(a, i)
           r == Resize(a, cells[a], n[a] + 1, granted)
           tails == (r.n - idx - 1) % Word
           M == Moved(r.cells, idx + 1, idx, tails)
           c == [M EXCEPT ![idx + 1] = item]
           q == [n |-> r.n, size |-> r.size, cells |-> c]
<1>1. /\ refs[a] = 1 /\ May((n[a] + 1) * ElementSize(a), granted)
      /\ IF r.ok THEN Becomes(a, q, Outside(a, idx + 1 + tails, r.size))
                 ELSE Becomes(a, r, FALSE)
      /\ count' = count + r.count
      /\ UNCHANGED refs
  BY DEF ArrayInsert
<1>2. /\ a \in Arr /\ i \in Nat /\ Word \in Nat /\ Heap + Width < Word
      /\ Heap \in Nat /\ Width \in Nat
      /\ item \in Cell /\ item # Junk /\ Zero # Junk
  BY ArrayAssumption DEF Arr, Cell
<1>3. /\ ElementSize(a) \in Nat \ {0} /\ n[a] \in Nat
      /\ cells[a] \in Seq(Cell) /\ Len(cells[a]) = Room(a)
      /\ \A j \in 1 .. n[a] : cells[a][j] \in Cell \ {Junk}
      /\ Content(a) \in Seq(Cell) /\ Len(Content(a)) = n[a]
      /\ \A j \in 1 .. n[a] : Content(a)[j] = cells[a][j]
  BY <1>2, Rooms
<1>4. (n[a] + 1) * ElementSize(a) < Word
  <2> DEFINE b == (n[a] + 1) * ElementSize(a)
  <2>1. b <= Heap + ElementSize(a) /\ ElementSize(a) <= Width
    BY <1>2, Rooms
  <2>2. b \in Nat
    BY <1>3, RoomFits
  <2> HIDE DEF b
  <2>3. b < Word
    BY <1>2, <1>3, <2>1, <2>2
  <2>4. QED
    BY <2>3 DEF b
<1>5. n[a] < Word
  <2>1. n[a] + 1 <= (n[a] + 1) * ElementSize(a) /\ (n[a] + 1) * ElementSize(a) \in Nat
    BY <1>3, RoomFits
  <2>2. QED
    BY <1>2, <1>3, <1>4, <2>1
<1>6. idx \in 0 .. n[a] /\ idx = Min({i, n[a]})
  BY <1>2, <1>3, Lesser DEF AtMostEnd
<1> HIDE DEF r, idx
<1>7. idx \in Nat /\ idx <= n[a] /\ n[a] \in Nat /\ n[a] < Word /\ Word \in Nat
  BY <1>2, <1>3, <1>5, <1>6
<1>8. /\ r.ok <=> (n[a] + 1 <= n[a] \/ granted)
      /\ r.n = IF r.ok THEN n[a] + 1 ELSE n[a]
      /\ r.n \in Nat /\ r.size \in 0 .. Heap /\ r.cells \in Seq(Cell)
      /\ r.n * ElementSize(a) <= r.size
      /\ Len(r.cells) = r.size \div ElementSize(a)
      /\ \A j \in 1 .. r.n : r.cells[j] = IF j <= n[a] THEN cells[a][j] ELSE Zero
      /\ r.count = (IF r.size > 0 THEN 1 ELSE 0) - Blocks(a)
  <2> DEFINE k == n[a] + 1
             c0 == cells[a]
  <2>1. c0 \in Seq(Cell) /\ Len(c0) = Room(a)
    BY <1>3
  <2>2. k \in Nat /\ k * ElementSize(a) < Word /\ May(k * ElementSize(a), granted)
    BY <1>1, <1>3, <1>4
  <2>3. r = Resize(a, c0, k, granted) /\ a \in Arr
    BY <1>2 DEF r
  <2> HIDE DEF k, c0
  <2>4. /\ r.ok <=> (k <= n[a] \/ granted)
        /\ r.n = IF r.ok THEN k ELSE n[a]
        /\ r.n \in Nat /\ r.size \in 0 .. Heap /\ r.cells \in Seq(Cell)
        /\ r.n * ElementSize(a) <= r.size
        /\ Len(r.cells) = r.size \div ElementSize(a)
        /\ \A j \in 1 .. r.n : r.cells[j] = IF j <= n[a] THEN c0[j] ELSE Zero
        /\ r.count = (IF r.size > 0 THEN 1 ELSE 0) - Blocks(a)
    BY <2>1, <2>2, <2>3, Resized
  <2>5. QED
    BY <2>4 DEF k, c0
<1>9. count' = count + (IF r.size > 0 THEN 1 ELSE 0) - Blocks(a)
  BY <1>1, <1>2, <1>8 DEF ArrayInv, TypeOK, Blocks
<1>10. CASE ~granted
  <2>1. ~r.ok /\ r.n = n[a]
    BY <1>3, <1>8, <1>10
  <2>2. Becomes(a, r, FALSE)
    BY <1>1, <2>1, Zenon
  <2>3. \A j \in 1 .. r.n : r.cells[j] # Junk
    BY SMTT(30), <1>3, <1>8, <2>1
  <2>4. /\ ArrayInv'
        /\ Content(a)' \in Seq(Cell) /\ Len(Content(a)') = r.n
        /\ \A j \in 1 .. r.n : Content(a)'[j] = r.cells[j]
    BY ZenonT(60), <1>1, <1>2, <1>8, <1>9, <2>3, <2>2, BecameKept
  <2>5. \A j \in 1 .. n[a] : Content(a)'[j] = Content(a)[j]
    BY <1>3, <1>8, <2>1, <2>4
  <2>6. Content(a)' = Content(a)
    BY <1>3, <2>1, <2>4, <2>5, SeqEqual
  <2>7. QED
    BY <1>10, <2>4, <2>6
<1>11. CASE granted
  <2>1. /\ r.ok /\ r.n = n[a] + 1
        /\ Becomes(a, q, Outside(a, idx + 1 + tails, r.size))
    BY <1>1, <1>8, <1>11
  <2>2. tails = n[a] - idx
    <3>1. n[a] - idx \in Nat /\ n[a] - idx < Word /\ r.n - idx - 1 = n[a] - idx
      BY <1>7, <2>1
    <3>2. QED
      BY <1>7, <3>1, InWord
  <2> HIDE DEF tails
  <2>3. /\ M \in Seq(Cell) /\ Len(M) = Len(r.cells)
        /\ \A j \in 1 .. Len(r.cells) :
             M[j] = IF j \notin idx + 2 .. n[a] + 1 THEN r.cells[j]
                    ELSE IF j - 1 \in 1 .. Len(r.cells) THEN r.cells[j - 1] ELSE Junk
    <3> DEFINE to == idx + 1
               d == r.cells
    <3>1. to \in Nat /\ idx \in Nat /\ tails \in Nat /\ d \in Seq(Cell)
      BY <1>7, <1>8, <2>2
    <3>2. M = Moved(d, to, idx, tails)
      OBVIOUS
    <3>3. to + 1 = idx + 2 /\ to + tails = n[a] + 1
      BY <1>7, <2>2
    <3>4. \A j \in Int : j - to + idx = j - 1
      BY <1>7
    <3> HIDE DEF to, d, M
    <3>5. /\ M \in Seq(Cell) /\ Len(M) = Len(d)
          /\ \A j \in 1 .. Len(d) :
               M[j] = IF j \notin to + 1 .. to + tails THEN d[j]
                      ELSE IF j - to + idx \in 1 .. Len(d) THEN d[j - to + idx] ELSE Junk
      <4>1. Shifted(Moved(d, to, idx, tails), d, to, idx, tails)
        BY Zenon, <3>1, <3>2, MovedCells
      <4>2. Shifted(M, d, to, idx, tails)
        BY Zenon, <3>2, <4>1
      <4>3. QED
        BY <4>2 DEF Shifted
    <3>6. ASSUME NEW j \in 1 .. Len(d)
          PROVE  M[j] = IF j \notin idx + 2 .. n[a] + 1 THEN d[j]
                        ELSE IF j - 1 \in 1 .. Len(d) THEN d[j - 1] ELSE Junk
      <4>1. j - to + idx = j - 1
        BY <3>4
      <4>2. QED
        BY <3>3, <3>5, <4>1
    <3>7. QED
      BY <3>5, <3>6 DEF d
  <2>4. r.n <= Len(r.cells) /\ Len(r.cells) \in Nat
    <3> DEFINE w == ElementSize(a)
               b == r.size
               k == r.n
    <3>1. w \in Nat \ {0} /\ b \in Nat /\ k \in Nat /\ k * w <= b
      BY <1>2, <1>3, <1>8
    <3>2. Len(r.cells) = b \div w
      BY <1>8
    <3> HIDE DEF w, b, k
    <3>3. k <= b \div w /\ b \div w \in Nat
      BY <3>1, RoomFits
    <3>4. QED
      BY <3>2, <3>3 DEF k
  <2>5. idx + 1 \in 1 .. Len(M)
    BY <1>7, <2>1, <2>3, <2>4
  <2> HIDE DEF M
  <2>6. /\ c \in Seq(Cell) /\ Len(c) = Len(r.cells)
        /\ \A j \in 1 .. Len(r.cells) : c[j] = IF j = idx + 1 THEN item ELSE M[j]
    BY <1>2, <2>3, <2>5, ExceptSeq
  <2> HIDE DEF c
  <2>7. q.n = r.n /\ q.size = r.size /\ q.cells = c
    OBVIOUS
  <2>8. ASSUME NEW j \in 1 .. (n[a] + 1)
        PROVE  /\ c[j] = InsertAt(Content(a), idx + 1, item)[j]
               /\ c[j] # Junk
    <3>1. j \in 1 .. Len(r.cells) /\ j \in 1 .. r.n
      BY <1>7, <2>1, <2>4
    <3>2. InsertAt(Content(a), idx + 1, item)[j] =
            IF j < idx + 1 THEN Content(a)[j]
            ELSE IF j = idx + 1 THEN item ELSE Content(a)[j - 1]
      <4>1. idx + 1 \in 1 .. (Len(Content(a)) + 1) /\ j \in 1 .. (Len(Content(a)) + 1)
        BY <1>3, <1>7
      <4> DEFINE s == Content(a)
                 p == idx + 1
      <4>2. s \in Seq(Cell) /\ p \in 1 .. (Len(s) + 1) /\ j \in 1 .. (Len(s) + 1)
        BY <1>3, <4>1
      <4> HIDE DEF s, p
      <4>3. InsertAt(s, p, item)[j] =
              IF j < p THEN s[j] ELSE IF j = p THEN item ELSE s[j - 1]
        <5>1. item \in Cell
          BY <1>2
        <5>2. \A m \in 1 .. (Len(s) + 1) : InsertAt(s, p, item)[m] =
                IF m < p THEN s[m] ELSE IF m = p THEN item ELSE s[m - 1]
          BY <4>2, <5>1, WithElement
        <5>3. QED
          BY <4>2, <5>2
      <4>4. QED
        BY <4>3 DEF s, p
    <3>3. CASE j = idx + 1
      <4>1. ~(j < idx + 1)
        BY <1>6, <3>3
      <4>2. QED
        BY <1>2, <2>6, <3>1, <3>2, <3>3, <4>1
    <3>4. CASE j < idx + 1
      <4>1. j \in 1 .. n[a] /\ j # idx + 1 /\ ~(j \in idx + 2 .. n[a] + 1)
        BY <1>7, <3>4
      <4>2. c[j] = r.cells[j] /\ r.cells[j] = cells[a][j]
        BY <1>8, <2>3, <2>6, <3>1, <4>1
      <4>3. QED
        BY <1>3, <3>2, <3>4, <4>1, <4>2
    <3>5. CASE j > idx + 1
      <4>1. j - 1 \in 1 .. n[a] /\ j # idx + 1 /\ ~(j < idx + 1) /\ j - 1 \in 1 .. r.n
            /\ j \in idx + 2 .. n[a] + 1
        BY <1>7, <2>1, <3>5
      <4>2. j - 1 \in 1 .. Len(r.cells)
        BY <2>4, <3>1, <4>1
      <4>3. c[j] = r.cells[j - 1] /\ r.cells[j - 1] = cells[a][j - 1]
        BY <1>8, <2>3, <2>6, <3>1, <4>1, <4>2
      <4>4. QED
        BY <1>3, <3>2, <4>1, <4>3
    <3>6. j = idx + 1 \/ j < idx + 1 \/ j > idx + 1
      BY <1>6
    <3>7. QED
      BY <3>3, <3>4, <3>5, <3>6
  <2> HIDE DEF q
  <2>9. /\ ArrayInv'
        /\ Content(a)' \in Seq(Cell) /\ Len(Content(a)') = n[a] + 1
        /\ \A j \in 1 .. (n[a] + 1) : Content(a)'[j] = c[j]
    <3>1. /\ q.n \in Nat /\ q.size \in 0 .. Heap /\ q.cells \in Seq(Cell)
          /\ q.n * ElementSize(a) <= q.size
          /\ Len(q.cells) = q.size \div ElementSize(a)
          /\ \A j \in 1 .. q.n : q.cells[j] # Junk
          /\ count' = count + (IF q.size > 0 THEN 1 ELSE 0) - Blocks(a)
      BY <1>8, <1>9, <2>1, <2>6, <2>7, <2>8
    <3> DEFINE over == Outside(a, idx + 1 + tails, r.size)
    <3>2. ~over
      <4>1. idx + 1 + tails = r.n
        BY <1>7, <2>1, <2>2
      <4>2. QED
        BY <1>2, <1>3, <1>8, <4>1, Inside
    <3> HIDE DEF over
    <3>3. Becomes(a, q, FALSE)
      <4>1. Becomes(a, q, over)
        BY <2>1, Zenon DEF over
      <4>2. QED
        BY <3>2, <4>1, Zenon DEF Becomes
    <3>4. /\ ArrayInv'
          /\ Content(a)' \in Seq(Cell) /\ Len(Content(a)') = q.n
          /\ \A j \in 1 .. q.n : Content(a)'[j] = q.cells[j]
      BY ZenonT(60), <1>1, <1>2, <3>1, <3>2, <3>3, BecameKept
    <3>5. QED
      BY <2>1, <2>7, <3>4
  <2>10. Content(a)' = InsertAt(Content(a), idx + 1, item)
    <3> DEFINE l == InsertAt(Content(a), idx + 1, item)
    <3>1. idx + 1 \in 1 .. (Len(Content(a)) + 1)
      BY <1>3, <1>6
    <3>2. l \in Seq(Cell) /\ Len(l) = n[a] + 1
      BY <1>2, <1>3, <3>1, WithElement
    <3>3. \A j \in 1 .. (n[a] + 1) : Content(a)'[j] = l[j]
      BY <2>8, <2>9
    <3> HIDE DEF l
    <3>4. Content(a)' = l
      BY <2>9, <3>2, <3>3, SeqEqual
    <3>5. QED
      BY <3>4 DEF l
  <2>11. QED
    BY <1>6, <1>11, <2>9, <2>10
<1>12. QED
  BY <1>10, <1>11

(* An element taken out closes the gap, whether or not the block shrinks.  *)
LEMMA TakingOut ==
  ASSUME ArrayInv, NEW a \in Items, refs[a] = 1, NEW idx \in 0 .. (n[a] - 1),
         NEW granted \in BOOLEAN, TakeOut(a, idx, granted)
  PROVE  ArrayInv' /\ Content(a)' = RemoveAt(Content(a), idx + 1)
<1> DEFINE c == Moved(cells[a], idx, idx + 1, Tails(a, idx))
           r == Resize(a, c, n[a] - 1, granted)
<1>1. /\ May((n[a] - 1) * ElementSize(a), granted)
      /\ Becomes(a, r, Outside(a, idx + 1 + Tails(a, idx), size[a]))
      /\ count' = count + r.count
      /\ UNCHANGED refs
  BY DEF TakeOut
<1>2. a \in Arr /\ Word \in Nat /\ Heap + Width < Word /\ Heap \in Nat /\ Width \in Nat
  BY ArrayAssumption DEF Arr
<1>3. /\ ElementSize(a) \in Nat \ {0} /\ n[a] \in Nat /\ size[a] \in 0 .. Heap
      /\ n[a] <= Room(a) /\ Room(a) \in Nat
      /\ cells[a] \in Seq(Cell) /\ Len(cells[a]) = Room(a)
      /\ \A j \in 1 .. n[a] : cells[a][j] \in Cell \ {Junk}
      /\ Content(a) \in Seq(Cell) /\ Len(Content(a)) = n[a]
      /\ \A j \in 1 .. n[a] : Content(a)[j] = cells[a][j]
      /\ n[a] * ElementSize(a) <= size[a]
  BY <1>2, Rooms
<1>4. n[a] - 1 \in Nat
  BY <1>3
<1>5. (n[a] - 1) * ElementSize(a) < Word
  <2> DEFINE w == ElementSize(a)
             k == n[a] - 1
  <2>1. w \in Nat \ {0} /\ k \in Nat /\ (k + 1) * w <= Heap
    <3>1. k + 1 = n[a]
      BY <1>3
    <3>2. QED
      BY <1>2, <1>3, <1>4, <3>1
  <2> HIDE DEF w, k
  <2>2. k * w < (k + 1) * w
    BY <2>1
  <2>3. k * w < Word
    BY <1>2, <2>1, <2>2
  <2>4. QED
    BY <2>3 DEF w, k
<1>6. Tails(a, idx) = n[a] - idx - 1
  <2>1. n[a] <= n[a] * ElementSize(a) /\ n[a] * ElementSize(a) \in Nat
    BY <1>3, RoomFits
  <2>2. n[a] < Word
    BY <1>2, <1>3, <2>1
  <2>3. n[a] - idx - 1 \in Nat /\ n[a] - idx - 1 < Word
    BY SMTT(30), <1>2, <1>3, <2>2
  <2>4. QED
    BY <1>2, <2>3, InWord DEF Tails
<1>7. /\ c \in Seq(Cell) /\ Len(c) = Room(a)
      /\ \A j \in 1 .. Room(a) :
           c[j] = IF j \notin idx + 1 .. idx + (n[a] - idx - 1) THEN cells[a][j]
                  ELSE IF j - idx + (idx + 1) \in 1 .. Room(a)
                  THEN cells[a][j - idx + (idx + 1)] ELSE Junk
  <2> DEFINE from == idx + 1
             k == n[a] - idx - 1
  <2>1. idx \in Nat /\ from \in Nat /\ k \in Nat
    BY <1>3
  <2>2. c = Moved(cells[a], idx, from, k)
    BY <1>6
  <2> DEFINE d == cells[a]
  <2>3. d \in Seq(Cell) /\ c = Moved(d, idx, from, k)
    BY <1>3, <2>2
  <2> HIDE DEF from, k, c, d
  <2>4. /\ c \in Seq(Cell) /\ Len(c) = Len(d)
        /\ \A j \in 1 .. Len(d) :
             c[j] = IF j \notin idx + 1 .. idx + k THEN d[j]
                    ELSE IF j - idx + from \in 1 .. Len(d) THEN d[j - idx + from] ELSE Junk
    <3>1. Shifted(Moved(d, idx, from, k), d, idx, from, k)
      BY Zenon, <2>1, <2>3, MovedCells
    <3>2. Shifted(c, d, idx, from, k)
      BY Zenon, <2>3, <3>1
    <3>3. QED
      BY <3>2 DEF Shifted
  <2>5. QED
    BY <1>3, <2>4 DEF from, k, d
<1> HIDE DEF c
<1>8. ASSUME NEW j \in 1 .. (n[a] - 1)
      PROVE  c[j] = RemoveAt(Content(a), idx + 1)[j] /\ c[j] # Junk
  <2>1. j \in 1 .. Room(a) /\ idx + 1 \in 1 .. Len(Content(a))
        /\ j \in 1 .. (Len(Content(a)) - 1)
    BY <1>3
  <2>2. RemoveAt(Content(a), idx + 1)[j] =
          IF j < idx + 1 THEN Content(a)[j] ELSE Content(a)[j + 1]
    BY <1>3, <2>1, WithoutElement
  <2>3. CASE j < idx + 1
    <3>1. ~(j \in idx + 1 .. idx + (n[a] - idx - 1)) /\ j \in 1 .. n[a]
      BY <1>3, <2>3
    <3>2. c[j] = cells[a][j]
      BY <1>7, <2>1, <3>1
    <3>3. QED
      BY <1>3, <2>2, <2>3, <3>1, <3>2
  <2>4. CASE j >= idx + 1
    <3>1. /\ j \in idx + 1 .. idx + (n[a] - idx - 1) /\ j + 1 \in 1 .. n[a]
          /\ j - idx + (idx + 1) = j + 1 /\ j + 1 \in 1 .. Room(a) /\ ~(j < idx + 1)
      BY SMTT(30), <1>3, <2>4
    <3>2. c[j] = cells[a][j + 1]
      BY <1>7, <2>1, <3>1
    <3>3. QED
      BY <1>3, <2>2, <3>1, <3>2
  <2>5. j < idx + 1 \/ j >= idx + 1
    OBVIOUS
  <2>6. QED
    BY <2>3, <2>4, <2>5
<1> HIDE DEF r
<1>9. /\ r.ok <=> (n[a] - 1 <= n[a] \/ granted)
      /\ r.n = IF r.ok THEN n[a] - 1 ELSE n[a]
      /\ r.n \in Nat /\ r.size \in 0 .. Heap /\ r.cells \in Seq(Cell)
      /\ r.n * ElementSize(a) <= r.size
      /\ Len(r.cells) = r.size \div ElementSize(a)
      /\ \A j \in 1 .. r.n : r.cells[j] = IF j <= n[a] THEN c[j] ELSE Zero
      /\ r.count = (IF r.size > 0 THEN 1 ELSE 0) - Blocks(a)
  <2> DEFINE k == n[a] - 1
  <2>1. c \in Seq(Cell) /\ Len(c) = Room(a)
    BY <1>7
  <2>2. k \in Nat /\ k * ElementSize(a) < Word /\ May(k * ElementSize(a), granted)
    BY <1>1, <1>4, <1>5
  <2>3. r = Resize(a, c, k, granted)
    BY DEF r
  <2> HIDE DEF k
  <2>4. /\ r.ok <=> (k <= n[a] \/ granted)
        /\ r.n = IF r.ok THEN k ELSE n[a]
        /\ r.n \in Nat /\ r.size \in 0 .. Heap /\ r.cells \in Seq(Cell)
        /\ r.n * ElementSize(a) <= r.size
        /\ Len(r.cells) = r.size \div ElementSize(a)
        /\ \A j \in 1 .. r.n : r.cells[j] = IF j <= n[a] THEN c[j] ELSE Zero
        /\ r.count = (IF r.size > 0 THEN 1 ELSE 0) - Blocks(a)
    BY SMTT(30), <1>2, <2>1, <2>2, <2>3, Resized
  <2>5. QED
    BY <2>4 DEF k
<1>10. r.n = n[a] - 1 /\ \A j \in 1 .. (n[a] - 1) : r.cells[j] = c[j]
  <2>1. n[a] \in Nat
    BY <1>3
  <2>2. /\ r.ok <=> (n[a] - 1 <= n[a] \/ granted)
        /\ r.n = IF r.ok THEN n[a] - 1 ELSE n[a]
        /\ \A j \in 1 .. r.n : r.cells[j] = IF j <= n[a] THEN c[j] ELSE Zero
    BY <1>9, Zenon
  <2>3. n[a] - 1 <= n[a] /\ \A j \in 1 .. (n[a] - 1) : j <= n[a]
    BY ONLY <2>1, SMT
  <2>4. r.n = n[a] - 1
    BY ONLY <2>2, <2>3, Zenon
  <2>5. QED
    BY ONLY <2>2, <2>3, <2>4, Zenon
<1>11. /\ ArrayInv'
       /\ Content(a)' \in Seq(Cell) /\ Len(Content(a)') = r.n
       /\ \A j \in 1 .. r.n : Content(a)'[j] = r.cells[j]
  <2>1. count' = count + (IF r.size > 0 THEN 1 ELSE 0) - Blocks(a)
    BY <1>1, <1>2, <1>9 DEF ArrayInv, TypeOK, Blocks
  <2>2. \A j \in 1 .. r.n : r.cells[j] # Junk
    BY <1>8, <1>10
  <2> DEFINE over == Outside(a, idx + 1 + Tails(a, idx), size[a])
  <2>3. ~over
    <3>1. idx + 1 + Tails(a, idx) = n[a]
      BY <1>3, <1>6
    <3>2. QED
      BY <1>2, <1>3, <3>1, Inside
  <2> HIDE DEF over
  <2>4. Becomes(a, r, FALSE)
    <3>1. Becomes(a, r, over)
      BY <1>1, Zenon DEF over
    <3>2. QED
      BY <2>3, <3>1, Zenon DEF Becomes
  <2>5. QED
    BY ZenonT(60), <1>1, <1>2, <1>9, <2>1, <2>2, <2>3, <2>4, BecameKept
<1>12. Content(a)' = RemoveAt(Content(a), idx + 1)
  <2> DEFINE l == RemoveAt(Content(a), idx + 1)
  <2>1. idx + 1 \in 1 .. Len(Content(a))
    BY <1>3
  <2>2. l \in Seq(Cell) /\ Len(l) = n[a] - 1
    BY <1>3, <2>1, WithoutElement
  <2>3. \A j \in 1 .. (n[a] - 1) : Content(a)'[j] = l[j]
    BY <1>8, <1>10, <1>11
  <2> HIDE DEF l
  <2>4. Content(a)' = l
    BY <1>10, <1>11, <2>2, <2>3, SeqEqual
  <2>5. QED
    BY <2>4 DEF l
<1>13. QED
  BY <1>11, <1>12

(* A removal takes out the element it is asked to, or the last.            *)
LEMMA Removal ==
  ASSUME ArrayInv, NEW a \in Items, NEW i \in Lengths, NEW granted \in BOOLEAN,
         ArrayRemove(a, i, granted)
  PROVE  ArrayInv' /\ Content(a)' = RemoveAt(Content(a), Min({i + 1, n[a]}))
<1> DEFINE idx == AtMostLast(a, i)
<1>1. refs[a] = 1 /\ n[a] > 0 /\ TakeOut(a, idx, granted)
  BY DEF ArrayRemove
<1>2. n[a] \in Nat /\ i \in Nat
  <2>1. a \in Arr
    BY DEF Arr
  <2>2. QED
    BY <2>1, Rooms, ArrayAssumption
<1>3. idx \in 0 .. (n[a] - 1)
  BY <1>1, <1>2 DEF AtMostLast
<1>4. idx + 1 = Min({i + 1, n[a]})
  BY <1>1, <1>2, Lesser DEF AtMostLast
<1> HIDE DEF idx
<1>5. QED
  BY <1>1, <1>3, <1>4, TakingOut

(* The first element that is the one to be found is taken out.             *)
LEMMA FoundRemoval ==
  ASSUME ArrayInv, NEW a \in Items, NEW needle \in Value, NEW granted \in BOOLEAN,
         FindAndRemove(a, needle, granted)
  PROVE  ArrayInv' /\ Content(a)' = RemoveFirst(Content(a), needle)
<1>1. PICK i \in 1 .. n[a] :
        /\ cells[a][i] = needle
        /\ \A j \in 1 .. (i - 1) : cells[a][j] # needle
        /\ TakeOut(a, i - 1, granted)
  BY DEF FindAndRemove
<1>2. /\ n[a] \in Nat /\ Content(a) \in Seq(Cell) /\ Len(Content(a)) = n[a]
      /\ \A j \in 1 .. n[a] : Content(a)[j] = cells[a][j]
  <2>1. a \in Arr
    BY DEF Arr
  <2>2. QED
    BY <2>1, Rooms
<1>3. i - 1 \in 0 .. (n[a] - 1) /\ (i - 1) + 1 = i
  BY <1>2
<1>4. ArrayInv' /\ Content(a)' = RemoveAt(Content(a), i)
  BY <1>1, <1>3, TakingOut DEF FindAndRemove
<1>5. \A j \in 1 .. (i - 1) : Content(a)[j] # needle
  BY <1>1, <1>2
<1>6. RemoveFirst(Content(a), needle) = RemoveAt(Content(a), i)
  BY <1>1, <1>2, <1>5, WithoutFirst
<1>7. QED
  BY <1>4, <1>6
(* An array is cut off, or extended by zeros, or left as it is.            *)
LEMMA Resizing ==
  ASSUME ArrayInv, NEW a \in Arr, NEW k \in Lengths, NEW granted \in BOOLEAN,
         ArrayResize(a, k, granted)
  PROVE  /\ ArrayInv'
         /\ Content(a)' = IF k <= n[a] THEN SubSeq(Content(a), 1, k)
                          ELSE IF granted
                          THEN Content(a) \o [i \in 1 .. (k - n[a]) |-> Zero]
                          ELSE Content(a)
<1> DEFINE r == Resize(a, cells[a], k, granted)
           s == Content(a)
           z == [i \in 1 .. (k - n[a]) |-> Zero]
<1>1. /\ refs[a] = 1 /\ k * ElementSize(a) < Word
      /\ May(k * ElementSize(a), granted) /\ Becomes(a, r, FALSE)
      /\ count' = count + r.count /\ UNCHANGED refs
  BY DEF ArrayResize
<1>2. k \in Nat /\ Zero \in Cell /\ Zero # Junk
  BY ArrayAssumption DEF Cell
<1>3. /\ n[a] \in Nat /\ cells[a] \in Seq(Cell) /\ Len(cells[a]) = Room(a)
      /\ \A j \in 1 .. n[a] : cells[a][j] \in Cell \ {Junk}
      /\ s \in Seq(Cell) /\ Len(s) = n[a]
      /\ \A j \in 1 .. n[a] : s[j] = cells[a][j]
  BY <1>2, Rooms
<1> HIDE DEF r, s
<1>4. /\ r.ok <=> (k <= n[a] \/ granted)
      /\ r.n = IF r.ok THEN k ELSE n[a]
      /\ r.n \in Nat /\ r.size \in 0 .. Heap /\ r.cells \in Seq(Cell)
      /\ r.n * ElementSize(a) <= r.size
      /\ Len(r.cells) = r.size \div ElementSize(a)
      /\ \A j \in 1 .. r.n : r.cells[j] = IF j <= n[a] THEN cells[a][j] ELSE Zero
      /\ r.count = (IF r.size > 0 THEN 1 ELSE 0) - Blocks(a)
  <2> DEFINE c0 == cells[a]
  <2>1. c0 \in Seq(Cell) /\ Len(c0) = Room(a) /\ r = Resize(a, c0, k, granted)
    BY <1>3 DEF r
  <2> HIDE DEF c0
  <2>2. /\ r.ok <=> (k <= n[a] \/ granted)
        /\ r.n = IF r.ok THEN k ELSE n[a]
        /\ r.n \in Nat /\ r.size \in 0 .. Heap /\ r.cells \in Seq(Cell)
        /\ r.n * ElementSize(a) <= r.size
        /\ Len(r.cells) = r.size \div ElementSize(a)
        /\ \A j \in 1 .. r.n : r.cells[j] = IF j <= n[a] THEN c0[j] ELSE Zero
        /\ r.count = (IF r.size > 0 THEN 1 ELSE 0) - Blocks(a)
    BY SMTT(30), <1>1, <1>2, <2>1, Resized
  <2>3. QED
    BY <2>2 DEF c0
<1>5. \A j \in 1 .. r.n : r.cells[j] = (IF j <= n[a] THEN s[j] ELSE Zero) /\ r.cells[j] # Junk
  BY SMTT(30), <1>2, <1>3, <1>4
<1>6. /\ ArrayInv'
      /\ Content(a)' \in Seq(Cell) /\ Len(Content(a)') = r.n
      /\ \A j \in 1 .. r.n : Content(a)'[j] = IF j <= n[a] THEN s[j] ELSE Zero
  <2>1. count' = count + (IF r.size > 0 THEN 1 ELSE 0) - Blocks(a)
    BY <1>1, <1>2, <1>4 DEF ArrayInv, TypeOK, Blocks
  <2>2. /\ ArrayInv'
        /\ Content(a)' \in Seq(Cell) /\ Len(Content(a)') = r.n
        /\ \A j \in 1 .. r.n : Content(a)'[j] = r.cells[j]
    BY ZenonT(60), <1>1, <1>2, <1>4, <1>5, <2>1, BecameKept
  <2>3. QED
    BY <1>5, <2>2
<1>7. CASE k <= n[a]
  <2>1. r.n = k
    BY <1>4, <1>7
  <2>2. \A j \in 1 .. k : s[j] \in Cell
    BY <1>2, <1>3, <1>7
  <2>3. /\ SubSeq(s, 1, k) \in Seq(Cell) /\ Len(SubSeq(s, 1, k)) = k
        /\ \A j \in 1 .. k : SubSeq(s, 1, k)[j] = s[j]
    BY <1>2, <2>2, SubSeqProperties
  <2>4. \A j \in 1 .. k : Content(a)'[j] = SubSeq(s, 1, k)[j]
    BY <1>2, <1>3, <1>6, <1>7, <2>1, <2>3
  <2>5. Content(a)' = SubSeq(s, 1, k)
    BY <1>6, <2>1, <2>3, <2>4, SeqEqual
  <2>6. QED
    BY <1>6, <1>7, <2>5 DEF s
<1>8. CASE k > n[a] /\ ~granted
  <2>1. r.n = n[a]
    BY <1>2, <1>3, <1>4, <1>8
  <2>2. \A j \in 1 .. n[a] : Content(a)'[j] = s[j]
    BY <1>3, <1>6, <2>1
  <2>3. Content(a)' = s
    BY <1>3, <1>6, <2>1, <2>2, SeqEqual
  <2>4. ~(k <= n[a])
    BY <1>2, <1>3, <1>8
  <2>5. QED
    BY <1>6, <1>8, <2>3, <2>4 DEF s
<1>9. CASE k > n[a] /\ granted
  <2>1. r.n = k
    BY <1>4, <1>9
  <2>2. z \in Seq(Cell) /\ Len(z) = k - n[a] /\ \A j \in 1 .. (k - n[a]) : z[j] = Zero
    <3>1. k - n[a] \in Nat
      BY <1>2, <1>3, <1>9
    <3>2. QED
      BY <1>2, <3>1, IsASeq
  <2> HIDE DEF z
  <2>3. /\ s \o z \in Seq(Cell) /\ Len(s \o z) = Len(s) + Len(z)
        /\ \A j \in 1 .. Len(s) + Len(z) :
             (s \o z)[j] = IF j <= Len(s) THEN s[j] ELSE z[j - Len(s)]
    BY ZenonT(30), <1>3, <2>2, ConcatProperties
  <2>4. Len(s) + Len(z) = k
    BY <1>2, <1>3, <2>2
  <2>5. ASSUME NEW j \in 1 .. k
        PROVE  Content(a)'[j] = (s \o z)[j]
    <3>1. Content(a)'[j] = IF j <= n[a] THEN s[j] ELSE Zero
      BY <1>6, <2>1
    <3>2. (s \o z)[j] = IF j <= n[a] THEN s[j] ELSE z[j - n[a]]
      BY <1>3, <2>3, <2>4
    <3>3. ~(j <= n[a]) => j - n[a] \in 1 .. (k - n[a])
      BY <1>2, <1>3
    <3>4. QED
      BY <2>2, <3>1, <3>2, <3>3
  <2>6. Content(a)' = s \o z
    BY <1>6, <2>1, <2>3, <2>4, <2>5, SeqEqual
  <2>7. ~(k <= n[a])
    BY <1>2, <1>3, <1>9
  <2>8. QED
    BY <1>6, <1>9, <2>6, <2>7 DEF s, z
<1>10. k <= n[a] \/ k > n[a]
  BY <1>2, <1>3
<1> HIDE DEF z
<1>11. QED
  BY <1>7, <1>8, <1>9, <1>10

(* A new buffer holds the text copied to it and zeros; without its bytes,   *)
(* there is no buffer, and nothing is left of it.                          *)
LEMMA Making ==
  ASSUME ArrayInv, NEW b \in Buffers, NEW k \in Nat, k < Word,
         NEW text \in Seq(Cell), Len(text) <= k,
         \A i \in 1 .. Len(text) : text[i] # Junk,
         NEW granted \in BOOLEAN, NewBuffer(b, k, text, granted)
  PROVE  /\ ArrayInv' /\ Content(b)' \in Seq(Cell)
         /\ Len(Content(b)') = IF k = 0 \/ granted THEN k ELSE 0
         /\ k = 0 \/ granted =>
              \A i \in 1 .. k : Content(b)'[i] = IF i <= Len(text) THEN text[i] ELSE Zero
<1> DEFINE r == Resize(b, cells[b], k, granted)
           d == r.cells
           c == Copied(d, text)
           q == [n |-> r.n, size |-> r.size, cells |-> c]
           over == Outside(b, Len(text), r.size)
<1>1. /\ refs[b] = 0 /\ May(k, granted)
      /\ IF r.ok
         THEN /\ Becomes(b, q, over)
              /\ count' = count + 1 + r.count
              /\ refs' = [refs EXCEPT ![b] = 1]
         ELSE /\ Becomes(b, Emptied, FALSE)
              /\ count' = count + 1 + r.count - FreedOnAbort(r)
              /\ UNCHANGED refs
  BY DEF NewBuffer
<1>2. /\ b \in Arr /\ ElementSize(b) = 1 /\ Word \in Nat /\ Heap \in Nat
      /\ Zero \in Cell /\ Zero # Junk /\ 0 \in 0 .. MaxRefs /\ 1 \in 0 .. MaxRefs
  BY ArrayAssumption DEF Arr, ElementSize, Cell
<1>3. /\ n[b] \in Nat /\ n[b] <= Room(b)
      /\ cells[b] \in Seq(Cell) /\ Len(cells[b]) = Room(b)
  BY <1>2, Rooms
<1>4. size[b] = 0 /\ Blocks(b) = 0 /\ count \in Nat
  BY <1>1, <1>2 DEF ArrayInv, BlocksMatch, TypeOK, Blocks
<1>5. n[b] = 0
  <2>1. Room(b) = 0
    BY <1>2, <1>4, RoomFits DEF Room
  <2>2. QED
    BY <1>3, <2>1
<1>6. k * ElementSize(b) = k
  BY <1>2
<1>7. k * ElementSize(b) < Word /\ May(k * ElementSize(b), granted)
  BY <1>1, <1>6
<1> HIDE DEF r, q, c, d, over
<1>8. /\ r.ok <=> (k <= n[b] \/ granted)
      /\ r.n = IF r.ok THEN k ELSE n[b]
      /\ r.n \in Nat /\ r.size \in 0 .. Heap /\ r.cells \in Seq(Cell)
      /\ r.n * ElementSize(b) <= r.size
      /\ Len(r.cells) = r.size \div ElementSize(b)
      /\ \A j \in 1 .. r.n : r.cells[j] = IF j <= n[b] THEN cells[b][j] ELSE Zero
      /\ r.count = (IF r.size > 0 THEN 1 ELSE 0) - Blocks(b)
  <2> DEFINE c0 == cells[b]
  <2>1. c0 \in Seq(Cell) /\ Len(c0) = Room(b) /\ r = Resize(b, c0, k, granted)
    BY <1>3 DEF r
  <2> HIDE DEF c0
  <2>2. /\ r.ok <=> (k <= n[b] \/ granted)
        /\ r.n = IF r.ok THEN k ELSE n[b]
        /\ r.n \in Nat /\ r.size \in 0 .. Heap /\ r.cells \in Seq(Cell)
        /\ r.n * ElementSize(b) <= r.size
        /\ Len(r.cells) = r.size \div ElementSize(b)
        /\ \A j \in 1 .. r.n : r.cells[j] = IF j <= n[b] THEN c0[j] ELSE Zero
        /\ r.count = (IF r.size > 0 THEN 1 ELSE 0) - Blocks(b)
    BY SMTT(30), <1>2, <1>7, <2>1, Resized
  <2>3. QED
    BY <2>2 DEF c0
<1>9. r.ok <=> (k = 0 \/ granted)
  BY <1>5, <1>8
<1>10. r.size \in Nat /\ r.count = IF r.size > 0 THEN 1 ELSE 0
  BY <1>2, <1>4, <1>8
<1>11. CASE ~r.ok
  <2>1. /\ Becomes(b, Emptied, FALSE) /\ UNCHANGED refs
        /\ count' = count + 1 + r.count - FreedOnAbort(r)
    BY <1>1, <1>11
  <2>2. count' = count
    BY <1>4, <1>10, <2>1 DEF FreedOnAbort, BufferFreed
  <2> DEFINE e == Emptied
  <2>3. e.n = 0 /\ e.size = 0 /\ e.cells = <<>>
    BY DEF Emptied
  <2>4. 0 * ElementSize(b) = 0 /\ 0 \div ElementSize(b) = 0
    BY <1>2, RoomFits
  <2> HIDE DEF e
  <2>5. /\ e.n \in Nat /\ e.size \in 0 .. Heap /\ e.cells \in Seq(Cell)
        /\ e.n * ElementSize(b) <= e.size
        /\ Len(e.cells) = e.size \div ElementSize(b)
        /\ \A i \in 1 .. e.n : e.cells[i] # Junk
    BY <1>2, <2>3, <2>4, EmptySeq
  <2>6. refs' = [refs EXCEPT ![b] = 0]
    BY <1>1, <2>1 DEF ArrayInv, TypeOK
  <2>7. count' = count + (IF e.size > 0 THEN 1 ELSE 0) - Blocks(b)
                 + (IF b \in Buffers /\ 0 > 0 THEN 1 ELSE 0)
                 - (IF b \in Buffers /\ refs[b] > 0 THEN 1 ELSE 0)
    BY <1>1, <1>4, <2>2, <2>3
  <2>8. Becomes(b, e, FALSE) /\ (0 = 0 => e.size = 0)
    BY <2>1, <2>3 DEF e
  <2>9. ArrayInv' /\ Content(b)' \in Seq(Cell) /\ Len(Content(b)') = e.n
    BY ZenonT(30), <1>2, <2>5, <2>6, <2>7, <2>8, Became
  <2>10. QED
    BY <1>9, <1>11, <2>3, <2>9
<1>12. CASE r.ok
  <2>1. /\ Becomes(b, q, over) /\ count' = count + 1 + r.count
        /\ refs' = [refs EXCEPT ![b] = 1]
    BY <1>1, <1>12
  <2>2. r.n = k /\ k <= Len(d) /\ Len(d) \in Nat /\ d \in Seq(Cell)
        /\ \A i \in 1 .. k : d[i] = Zero
    <3>1. r.n = k
      BY <1>8, <1>12
    <3>2. k * 1 <= r.size /\ Len(d) = r.size \div 1
      BY <1>2, <1>8, <3>1 DEF d
    <3>3. k <= r.size \div 1 /\ r.size \div 1 \in Nat
      BY <1>10, <3>2, RoomFits
    <3>4. \A i \in 1 .. k : ~(i <= n[b])
      BY <1>5
    <3>5. QED
      BY <1>8, <3>1, <3>2, <3>3, <3>4 DEF d
  <2>3. /\ c \in Seq(Cell) /\ Len(c) = Len(d)
        /\ \A i \in 1 .. Len(d) : c[i] = IF i <= Len(text) THEN text[i] ELSE d[i]
    <3> DEFINE F(i) == IF i <= Len(text) THEN text[i] ELSE d[i]
    <3>1. \A i \in 1 .. Len(d) : F(i) \in Cell
      <4>1. Len(text) \in Nat
        OBVIOUS
      <4>2. QED
        BY <2>2, <4>1, ElementOfSeq
    <3>2. c = [i \in 1 .. Len(d) |-> F(i)]
      BY <2>2 DEF c, Copied
    <3> HIDE DEF F
    <3>3. [i \in 1 .. Len(d) |-> F(i)] \in Seq(Cell)
      BY <2>2, <3>1, IsASeq
    <3>4. Len([i \in 1 .. Len(d) |-> F(i)]) = Len(d)
      BY <2>2
    <3>5. QED
      BY <3>2, <3>3, <3>4 DEF F
  <2>4. ~over
    <3>1. Len(text) \in Nat /\ Len(text) * ElementSize(b) = Len(text)
      BY <1>2
    <3>2. k <= r.size
      BY <1>6, <1>8, <2>2
    <3>3. Len(text) * ElementSize(b) <= r.size
      BY <1>10, <3>1, <3>2
    <3>4. QED
      BY <1>2, <1>10, <3>1, <3>3, Inside DEF over
  <2>5. \A i \in 1 .. k : c[i] = (IF i <= Len(text) THEN text[i] ELSE Zero) /\ c[i] # Junk
    <3>1. \A i \in 1 .. k : i \in 1 .. Len(d)
      BY <2>2
    <3>2. \A i \in 1 .. k : i <= Len(text) => text[i] # Junk
      OBVIOUS
    <3>3. QED
      BY <1>2, <2>2, <2>3, <3>1, <3>2
  <2>6. q.n = k /\ q.size = r.size /\ q.cells = c
    BY <2>2 DEF q
  <2>7. /\ q.n \in Nat /\ q.size \in 0 .. Heap /\ q.cells \in Seq(Cell)
        /\ q.n * ElementSize(b) <= q.size
        /\ Len(q.cells) = q.size \div ElementSize(b)
        /\ \A i \in 1 .. q.n : q.cells[i] # Junk
    BY <1>8, <2>2, <2>3, <2>5, <2>6 DEF d
  <2>8. count' = count + (IF q.size > 0 THEN 1 ELSE 0) - Blocks(b)
                 + (IF b \in Buffers /\ 1 > 0 THEN 1 ELSE 0)
                 - (IF b \in Buffers /\ refs[b] > 0 THEN 1 ELSE 0)
    BY <1>1, <1>4, <1>10, <2>1, <2>6
  <2>9. 1 = 0 => q.size = 0
    OBVIOUS
  <2>10. Becomes(b, q, FALSE)
    BY <2>1, <2>4, Zenon DEF Becomes
  <2>11. /\ ArrayInv' /\ Content(b)' \in Seq(Cell) /\ Len(Content(b)') = q.n
         /\ \A i \in 1 .. q.n : Content(b)'[i] = q.cells[i]
    BY ZenonT(30), <1>2, <2>1, <2>7, <2>8, <2>9, <2>10, Became
  <2>12. QED
    BY <1>9, <1>12, <2>5, <2>6, <2>11
<1>13. QED
  BY <1>11, <1>12

(* A buffer made of a text, or of nothing for want of its bytes.           *)
LEMMA Writing ==
  ASSUME ArrayInv, NEW b \in Buffers, NEW text \in Seq(Cell), Len(text) < Word,
         \A i \in 1 .. Len(text) : text[i] # Junk,
         NEW granted \in BOOLEAN, NewBuffer(b, Len(text), text, granted)
  PROVE  ArrayInv' /\ Content(b)' = IF granted THEN text ELSE <<>>
<1> DEFINE k == Len(text)
<1>1. k \in Nat /\ k < Word /\ Len(text) <= k /\ NewBuffer(b, k, text, granted)
  OBVIOUS
<1>2. Len(text) = k
  OBVIOUS
<1> HIDE DEF k
<1>3. /\ ArrayInv' /\ Content(b)' \in Seq(Cell)
      /\ Len(Content(b)') = IF k = 0 \/ granted THEN k ELSE 0
      /\ k = 0 \/ granted =>
           \A i \in 1 .. k : Content(b)'[i] = IF i <= Len(text) THEN text[i] ELSE Zero
  BY ZenonT(60), <1>1, Making
<1>4. CASE granted
  <2>1. Len(Content(b)') = Len(text) /\ \A i \in 1 .. Len(text) : Content(b)'[i] = text[i]
    BY <1>1, <1>2, <1>3, <1>4
  <2>2. Content(b)' = text
    BY <1>3, <2>1, SeqEqual
  <2>3. QED
    BY <1>3, <1>4, <2>2
<1>5. CASE ~granted
  <2>1. Len(Content(b)') = 0
    BY <1>1, <1>3, <1>5
  <2>2. Content(b)' = <<>>
    BY <1>3, <2>1, EmptySeq
  <2>3. QED
    BY <1>3, <1>5, <2>2
<1>6. QED
  BY <1>4, <1>5

(* A buffer of zeros, or none.                                             *)
LEMMA Zeroing ==
  ASSUME ArrayInv, NEW b \in Buffers, NEW k \in Lengths, NEW granted \in BOOLEAN,
         BufferNew(b, k, granted)
  PROVE  /\ ArrayInv'
         /\ Content(b)' = IF granted THEN [i \in 1 .. k |-> Zero] ELSE <<>>
<1> DEFINE none == <<>>
<1>1. k \in Nat /\ k < Word /\ Zero \in Cell
  BY ArrayAssumption DEF Cell
<1>2. none \in Seq(Cell) /\ Len(none) = 0 /\ NewBuffer(b, k, none, granted)
  BY EmptySeq DEF BufferNew
<1> HIDE DEF none
<1>3. Len(none) <= k /\ \A i \in 1 .. Len(none) : none[i] # Junk
  BY <1>1, <1>2
<1>4. /\ ArrayInv' /\ Content(b)' \in Seq(Cell)
      /\ Len(Content(b)') = IF k = 0 \/ granted THEN k ELSE 0
      /\ k = 0 \/ granted =>
           \A i \in 1 .. k : Content(b)'[i] = IF i <= Len(none) THEN none[i] ELSE Zero
  BY ZenonT(60), <1>1, <1>2, <1>3, Making
<1>5. CASE granted
  <2> DEFINE z == [i \in 1 .. k |-> Zero]
  <2>1. z \in Seq(Cell) /\ Len(z) = k /\ \A i \in 1 .. k : z[i] = Zero
    BY <1>1, IsASeq
  <2> HIDE DEF z
  <2>2. Len(Content(b)') = Len(z) /\ \A i \in 1 .. Len(z) : Content(b)'[i] = z[i]
    BY <1>1, <1>2, <1>4, <1>5, <2>1
  <2>3. Content(b)' = z
    BY <1>4, <2>1, <2>2, SeqEqual
  <2>4. QED
    BY <1>4, <1>5, <2>3 DEF z
<1>6. CASE ~granted
  <2>1. Len(Content(b)') = 0
    BY <1>1, <1>4, <1>6
  <2>2. Content(b)' = <<>>
    BY <1>4, <2>1, EmptySeq
  <2>3. QED
    BY <1>4, <1>6, <2>2
<1>7. QED
  BY <1>5, <1>6

(* A buffer of a C string, or none.                                        *)
LEMMA Reading ==
  ASSUME ArrayInv, NEW b \in Buffers, NEW k \in 0 .. MaxText,
         NEW text \in [1 .. k -> Value], NEW granted \in BOOLEAN,
         BufferNewFromCstr(b, text, granted)
  PROVE  ArrayInv' /\ Content(b)' = IF granted THEN text ELSE <<>>
<1>1. /\ MaxText \in Nat /\ MaxText < Word /\ Word \in Nat
      /\ Value \subseteq Cell /\ Junk \notin Value
  BY ArrayAssumption DEF Cell
<1>2. /\ k \in Nat /\ text \in Seq(Cell) /\ Len(text) = k
      /\ \A i \in 1 .. k : text[i] # Junk
  <2>1. k \in Nat /\ text \in [1 .. k -> Cell] /\ \A i \in 1 .. k : text[i] \in Value
    BY <1>1
  <2>2. QED
    BY <1>1, <2>1
<1>3. Len(text) < Word /\ \A i \in 1 .. Len(text) : text[i] # Junk
  BY <1>1, <1>2
<1>4. NewBuffer(b, Len(text), text, granted)
  BY DEF BufferNewFromCstr
<1>5. QED
  BY <1>2, <1>3, <1>4, Writing

(* A clone says what its source says.                                      *)
LEMMA Cloning ==
  ASSUME ArrayInv, NEW src \in Buffers, NEW b \in Buffers, NEW granted \in BOOLEAN,
         BufferClone(src, b, granted)
  PROVE  ArrayInv' /\ Content(b)' = IF granted THEN Content(src) ELSE <<>>
<1> DEFINE text == Content(src)
<1>1. src \in Arr
  BY DEF Arr
<1>2. /\ text \in Seq(Cell) /\ Len(text) = n[src]
      /\ \A i \in 1 .. n[src] : text[i] # Junk
  BY ZenonT(30), <1>1, Rooms
<1>3. n[src] \in 0 .. (Word - 1) /\ Word \in Nat
  BY <1>1, ArrayAssumption DEF ArrayInv, TypeOK
<1>4. NewBuffer(b, n[src], text, granted)
  BY DEF BufferClone
<1> HIDE DEF text
<1>5. /\ Len(text) < Word /\ NewBuffer(b, Len(text), text, granted)
      /\ \A i \in 1 .. Len(text) : text[i] # Junk
  BY <1>2, <1>3, <1>4
<1>6. ArrayInv' /\ Content(b)' = IF granted THEN text ELSE <<>>
  BY <1>2, <1>5, Writing
<1>7. QED
  BY <1>6 DEF text

-----------------------------------------------------------------------------
(* The theorems.                                                           *)

(* In the first state there is nothing.                                    *)
LEMMA ArrayStart == Init => ArrayInv
<1> SUFFICES ASSUME Init PROVE ArrayInv
  OBVIOUS
<1>1. /\ Word \in Nat /\ Heap \in Nat /\ Heap < Word /\ MaxRefs \in Nat
      /\ \A a \in Arr : ElementSize(a) \in Nat \ {0}
  BY ArrayAssumption DEF ElementSize
<1>2. /\ n \in [Arr -> 0 .. (Word - 1)] /\ size \in [Arr -> 0 .. Heap]
      /\ refs \in [Arr -> 0 .. MaxRefs]
  BY <1>1 DEF Init
<1>3. cells \in [Arr -> Seq(Cell)] /\ \A a \in Arr : Len(cells[a]) = 0
  BY EmptySeq DEF Init
<1>4. overrun = FALSE /\ count = 0 /\ overrun \in BOOLEAN
  BY Zenon DEF Init
<1>5. \A a \in Arr : size[a] = 0 /\ n[a] = 0 /\ refs[a] = 0 /\ cells[a] = <<>>
  BY DEF Init
<1>6. \A a \in Arr : Room(a) = 0
  BY <1>1, <1>5, RoomFits DEF Room
<1>7. \A a \in Arr : Junk \notin ToSet(Content(a))
  <2>1. ASSUME NEW a \in Arr PROVE DOMAIN Content(a) = {}
    <3>1. Content(a) = SubSeq(<<>>, 1, 0)
      BY <1>5 DEF Content
    <3>2. Content(a) = <<>>
      BY <3>1, SubSeqEmpty
    <3>3. QED
      BY <3>2, EmptySeq
  <2>2. QED
    BY <2>1 DEF ToSet
<1>8. CountExact
  <2>1. Allocated = {} /\ Living = {}
    BY <1>5 DEF Allocated, Living, Arr
  <2>2. QED
    BY <1>4, <2>1, FS_EmptySet DEF CountExact
<1>9. TypeOK
  BY <1>2, <1>3, <1>4, <1>7 DEF TypeOK
<1>10. InBounds /\ BlocksMatch
  BY <1>3, <1>4, <1>5, <1>6 DEF InBounds, BlocksMatch
<1>11. QED
  BY <1>8, <1>9, <1>10 DEF ArrayInv

(* Every operation keeps the invariant.                                    *)
LEMMA ArrayStep == ArrayInv /\ [Next]_vars => ArrayInv'
<1> SUFFICES ASSUME ArrayInv, [Next]_vars PROVE ArrayInv'
  OBVIOUS
<1>1. /\ Items \subseteq Arr /\ Buffers \subseteq Arr /\ Items \cap Buffers = {}
      /\ MaxRefs \in Nat \ {0} /\ Zero \in Cell /\ Zero # Junk
      /\ Value \subseteq Cell /\ Junk \notin Value /\ MaxText \in Nat /\ Lengths \subseteq Nat
  BY ArrayAssumption DEF Arr, Cell
<1>2. refs \in [Arr -> 0 .. MaxRefs] /\ count \in Nat
  BY DEF ArrayInv, TypeOK
<1>3. ASSUME NEW a \in Items, ArrayInit(a)
      PROVE  ArrayInv'
  <2>1. /\ refs' = [refs EXCEPT ![a] = 1] /\ 1 \in 0 .. MaxRefs /\ a \in Arr
        /\ 1 = 0 => size[a] = 0
        /\ UNCHANGED <<n, size, cells, count, overrun>>
    BY <1>1, <1>3 DEF ArrayInit
  <2>2. QED
    BY <2>1, OnlyReferences
<1>4. ASSUME NEW a \in Items, ArrayDeinit(a)
      PROVE  ArrayInv'
  <2>1. a \in Arr /\ a \notin Buffers /\ Blocks(a) \in Nat
    BY <1>1 DEF Blocks
  <2>2. count' = count - Blocks(a) - (IF a \in Buffers THEN 1 ELSE 0)
    BY <1>2, <1>4, <2>1 DEF ArrayDeinit
  <2>3. QED
    BY <1>4, <2>1, <2>2, Freed DEF ArrayDeinit
<1>5. ASSUME NEW a \in Items, NEW granted \in BOOLEAN,
             \/ \E i \in Lengths :
                  (\E item \in Value : ArrayInsert(a, i, item, granted))
                  \/ ArrayRemove(a, i, granted)
             \/ \E needle \in Value : FindAndRemove(a, needle, granted)
      PROVE  ArrayInv'
  BY <1>5, Insertion, Removal, FoundRemoval
<1>6. ASSUME NEW b \in Buffers, BufferRef(b)
      PROVE  ArrayInv'
  <2>1. b \in Arr /\ refs[b] \in 1 .. (MaxRefs - 1)
    BY <1>1, <1>6 DEF BufferRef
  <2> DEFINE k == refs[b] + 1
  <2>2. /\ k \in 0 .. MaxRefs /\ k > 0 /\ refs[b] > 0 /\ k # 0
    BY <1>1, <2>1
  <2>3. refs' = [refs EXCEPT ![b] = k] /\ UNCHANGED <<n, size, cells, count, overrun>>
    BY <1>6 DEF BufferRef
  <2> HIDE DEF k
  <2>4. QED
    BY <2>1, <2>2, <2>3, OnlyReferences
<1>7. ASSUME NEW b \in Buffers, BufferUnref(b)
      PROVE  ArrayInv'
  <2>1. b \in Arr /\ refs[b] \in 0 .. MaxRefs /\ refs[b] > 0
    BY <1>1, <1>2, <1>7 DEF BufferUnref
  <2> DEFINE k == refs[b] - 1
  <2>2. refs' = [refs EXCEPT ![b] = k]
    BY <1>7 DEF BufferUnref
  <2>3. CASE refs[b] = 1
    <3>1. k = 0
      BY <2>3
    <3>2. Becomes(b, Emptied, FALSE) /\ count' = count - BufferFreed(size[b])
      BY <1>7, <2>3 DEF BufferUnref
    <3>3. Blocks(b) \in Nat
      BY DEF Blocks
    <3>4. count' = count - Blocks(b) - (IF b \in Buffers THEN 1 ELSE 0)
      BY <1>2, <3>2, <3>3 DEF BufferFreed, Blocks
    <3>5. refs' = [refs EXCEPT ![b] = 0]
      BY <2>2, <3>1
    <3>6. QED
      BY <2>1, <2>3, <3>2, <3>4, <3>5, Freed
  <2>4. CASE refs[b] # 1
    <3>1. k \in 0 .. MaxRefs /\ k > 0 /\ k # 0
      BY <1>1, <2>1, <2>4
    <3>2. UNCHANGED <<n, size, cells, count, overrun>>
      BY <1>7, <2>4 DEF BufferUnref
    <3> HIDE DEF k
    <3>3. QED
      BY <2>1, <2>2, <3>1, <3>2, OnlyReferences
  <2>5. QED
    BY <2>3, <2>4
<1>8. ASSUME NEW b \in Buffers, NEW granted \in BOOLEAN,
             \/ \E src \in Buffers \ {b} : BufferClone(src, b, granted)
             \/ \E k \in Lengths : BufferNew(b, k, granted)
             \/ \E k \in 0 .. MaxText : \E text \in [1 .. k -> Value] :
                  BufferNewFromCstr(b, text, granted)
      PROVE  ArrayInv'
  BY <1>8, Cloning, Zeroing, Reading
<1>9. ASSUME NEW a \in Arr, NEW k \in Lengths, NEW granted \in BOOLEAN,
             ArrayResize(a, k, granted)
      PROVE  ArrayInv'
  BY <1>9, Resizing
<1>10. CASE UNCHANGED vars
  BY <1>10 DEF vars, ArrayInv, TypeOK, InBounds, CountExact, BlocksMatch, Room, Content,
               ElementSize, Allocated, Living
<1>11. QED
  BY <1>3, <1>4, <1>5, <1>6, <1>7, <1>8, <1>9, <1>10 DEF Next

(* The invariant holds.                                                    *)
LEMMA ArraysHold == Spec => []ArrayInv
  BY ArrayStart, ArrayStep, PTL DEF Spec

(* For any words, sizes of elements and limit of the heap, and whichever   *)
(* allocations are refused: lengths and sizes are words, and no owner of   *)
(* an array sees memory that was never written.                            *)
THEOREM TypeCorrect == Spec => []TypeOK
<1>1. ArrayInv => TypeOK
  BY DEF ArrayInv
<1>2. QED
  BY <1>1, ArraysHold, PTL

(* Likewise: no array is longer than its block, and no insertion, removal  *)
(* or copy reads or writes outside of the block there is at that moment.   *)
THEOREM NoOverrun == Spec => []InBounds
<1>1. ArrayInv => InBounds
  BY DEF ArrayInv
<1>2. QED
  BY <1>1, ArraysHold, PTL

(* Likewise: the count that main() asserts to be zero is that of the       *)
(* blocks and structures there are, a buffer given up half-way included.   *)
THEOREM CountIsExact == Spec => []CountExact
<1>1. ArrayInv => CountExact
  BY DEF ArrayInv
<1>2. QED
  BY <1>1, ArraysHold, PTL

(* Likewise: the operations change what an array holds as those of a list  *)
(* would, a refused allocation changes nothing of it, what an array is     *)
(* extended by is zero, and a new buffer holds what it was made of.        *)
THEOREM ArraysAreLists == Spec => ActsAsList
<1> DEFINE ListsAct ==
             \A a \in Items, granted \in BOOLEAN :
               /\ \A i \in Lengths :
                    /\ \A item \in Value : ArrayInsert(a, i, item, granted) =>
                         Content(a)' = IF granted
                                       THEN InsertAt(Content(a), Min({i, n[a]}) + 1, item)
                                       ELSE Content(a)
                    /\ ArrayRemove(a, i, granted) =>
                         Content(a)' = RemoveAt(Content(a), Min({i + 1, n[a]}))
               /\ \A needle \in Value : FindAndRemove(a, needle, granted) =>
                    Content(a)' = RemoveFirst(Content(a), needle)
           LengthsAct ==
             \A a \in Arr, k \in Lengths, granted \in BOOLEAN : ArrayResize(a, k, granted) =>
               Content(a)' = IF k <= n[a] THEN SubSeq(Content(a), 1, k)
                             ELSE IF granted
                             THEN Content(a) \o [i \in 1 .. (k - n[a]) |-> Zero]
                             ELSE Content(a)
           BuffersAct ==
             \A b \in Buffers, granted \in BOOLEAN :
               /\ \A k \in Lengths : BufferNew(b, k, granted) =>
                    Content(b)' = IF granted THEN [i \in 1 .. k |-> Zero] ELSE <<>>
               /\ \A k \in 0 .. MaxText : \A text \in [1 .. k -> Value] :
                    BufferNewFromCstr(b, text, granted) =>
                      Content(b)' = IF granted THEN text ELSE <<>>
               /\ \A src \in Buffers : BufferClone(src, b, granted) =>
                    Content(b)' = IF granted THEN Content(src) ELSE <<>>
           Acts == ListsAct /\ LengthsAct /\ BuffersAct
<1>1. ArrayInv => [Acts]_vars
  <2>1. ArrayInv => ListsAct
    BY Insertion, Removal, FoundRemoval
  <2>2. ArrayInv => LengthsAct
    BY Resizing
  <2>3. ArrayInv => BuffersAct
    BY Zeroing, Reading, Cloning
  <2> HIDE DEF ListsAct, LengthsAct, BuffersAct
  <2>4. QED
    BY <2>1, <2>2, <2>3
<1>2. Spec => [][Acts]_vars
  BY <1>1, ArraysHold, PTL DEF Spec
<1>3. QED
  BY <1>2, PTL DEF ActsAsList
=============================================================================
