--------------------------------- MODULE Array ---------------------------------
(***************************************************************************)
(* util/array.h over util/malloc.h, and the buffers of util/buffer.h, whose *)
(* array has elements of one byte: lengths and indices in words of W bits,  *)
(* blocks that the allocator may refuse to make, to extend or to shrink,    *)
(* and the count of them that main() reads when it exits.                   *)
(***************************************************************************)
EXTENDS Integers, Sequences, FiniteSets, SequencesExt

CONSTANTS
  Items,      \* the arrays with elements of Width bytes
  Buffers,    \* the buffers
  Width,
  W,
  Heap,       \* the size of the largest block
  Value,      \* the values of elements,
  Zero,       \* the one that memset() and calloc() leave,
  Junk,       \* and the one of memory that was never written
  Lengths,    \* the lengths asked for
  MaxText,    \* bound: the length of a C string
  MaxRefs     \* bound: the references to a buffer

Arr == Items \cup Buffers
Word == 2 ^ W
Cell == Value \cup {Zero, Junk}

(* No block, and no block and one more element, fills the address space.   *)
(* (That a power of two is a number is said for the proofs, which do not   *)
(* know of powers.)                                                        *)
ASSUME ArrayAssumption ==
  /\ IsFiniteSet(Arr) /\ Items \cap Buffers = {}
  /\ W \in Nat /\ Word \in Nat /\ Width \in Nat \ {0} /\ Heap \in Nat
  /\ Heap + Width < Word
  /\ Zero # Junk /\ {Zero, Junk} \cap Value = {}
  /\ Lengths \subseteq 0 .. (Word - 1)
  /\ MaxText \in Nat /\ MaxText < Word /\ MaxRefs \in Nat \ {0}

VARIABLES
  n,        \* PREFIX.n
  size,     \* the size of the block at PREFIX.ptr, 0 for nullptr
  cells,    \* the block's elements
  refs,     \* nf7util_buffer.refcnt; 1 for another array from init to deinit
  count,    \* nf7util_malloc.count
  overrun   \* an element outside its block has been read or written

vars == <<n, size, cells, refs, count, overrun>>

Init ==
  /\ n = [a \in Arr |-> 0]
  /\ size = [a \in Arr |-> 0]
  /\ cells = [a \in Arr |-> <<>>]
  /\ refs = [a \in Arr |-> 0]
  /\ count = 0
  /\ overrun = FALSE

ElementSize(a) == IF a \in Items THEN Width ELSE 1

(* What a's owners see of it.                                              *)
Content(a) == SubSeq(cells[a], 1, n[a])

Room(a) == size[a] \div ElementSize(a)

-----------------------------------------------------------------------------
(* nf7util_malloc_realloc() of a's block to "bytes": "granted" says whether *)
(* calloc() or realloc() returns memory.                                   *)
May(bytes, granted) == granted => bytes <= Heap

(* A careless variant: it leaves a first block to realloc(nullptr, bytes). *)
CountedFreesOnly(a, bytes, granted) == IF bytes = 0 /\ size[a] > 0 THEN -1 ELSE 0

Counted(a, bytes, granted) ==
  IF bytes = 0 THEN IF size[a] > 0 THEN -1 ELSE 0
  ELSE IF granted /\ size[a] = 0 THEN 1 ELSE 0

(* A careless variant: memset() clears what realloc() has added only.      *)
ClearedFrom(a) == Room(a)

ClearFrom(a) == n[a]

(* PREFIX##_resize() of the array a, whose elements are now c, to k.       *)
Resize(a, c, k, granted) ==
  LET extend == n[a] < k
      bytes == (k * ElementSize(a)) % Word
      null == bytes = 0 \/ ~granted
      block == IF bytes = 0 THEN 0 ELSE IF granted THEN bytes ELSE size[a]
      moved == [i \in 1 .. (block \div ElementSize(a)) |->
                  IF i \in ClearFrom(a) + 1 .. k /\ extend THEN Zero
                  ELSE IF i <= Len(c) THEN c[i] ELSE Junk]
  IN IF k = n[a] THEN [ok |-> TRUE, n |-> k, size |-> size[a], cells |-> c, count |-> 0]
     ELSE IF k > 0 /\ null /\ extend
     THEN [ok |-> FALSE, n |-> n[a], size |-> block, cells |-> c,
           count |-> Counted(a, bytes, granted)]
     ELSE [ok |-> TRUE, n |-> k, size |-> block, cells |-> moved,
           count |-> Counted(a, bytes, granted)]

(* The array a is left as r; "over" says whether one of the elements read   *)
(* or written on the way was outside of the block it was to be in.         *)
Becomes(a, r, over) ==
  /\ n' = [n EXCEPT ![a] = r.n]
  /\ size' = [size EXCEPT ![a] = r.size]
  /\ cells' = [cells EXCEPT ![a] = r.cells]
  /\ overrun' = (overrun \/ over)

(* The first k elements of a reach beyond a block of so many bytes.        *)
Outside(a, k, bytes) == k * ElementSize(a) > bytes

(* memmove(&ptr[to], &ptr[from], k elements) in the block c.               *)
Moved(c, to, from, k) ==
  [i \in DOMAIN c |-> IF i \notin to + 1 .. to + k THEN c[i]
                      ELSE IF i - to + from \in DOMAIN c THEN c[i - to + from] ELSE Junk]

(* memcpy() of "text" to the front of the block c.                         *)
Copied(c, text) == [i \in DOMAIN c |-> IF i <= Len(text) THEN text[i] ELSE c[i]]

-----------------------------------------------------------------------------
(* Arrays.                                                                 *)

ArrayInit(a) ==
  /\ refs[a] = 0
  /\ refs' = [refs EXCEPT ![a] = 1]
  /\ UNCHANGED <<n, size, cells, count, overrun>>

Emptied == [n |-> 0, size |-> 0, cells |-> <<>>]

Blocks(a) == IF size[a] > 0 THEN 1 ELSE 0

ArrayDeinit(a) ==
  /\ refs[a] = 1
  /\ refs' = [refs EXCEPT ![a] = 0]
  /\ count' = count - Blocks(a)
  /\ Becomes(a, Emptied, FALSE)

(* The owner of an array, or the unique owner of a buffer, changes its      *)
(* length. PREFIX##_resize() does not check whether n*sizeof(T) wraps: its  *)
(* callers ask for lengths the array had before (signal.h:67), for small   *)
(* ones (array.test.c), or for bytes, of which a word has no more than a   *)
(* word can count.                                                         *)
ArrayResize(a, k, granted) ==
  LET r == Resize(a, cells[a], k, granted) IN
  /\ refs[a] = 1
  /\ k * ElementSize(a) < Word
  /\ May(k * ElementSize(a), granted)
  /\ Becomes(a, r, FALSE)
  /\ count' = count + r.count
  /\ UNCHANGED refs

AtMostEnd(a, i) == IF i > n[a] THEN n[a] ELSE i

ArrayInsert(a, i, item, granted) ==
  LET idx == AtMostEnd(a, i)
      r == Resize(a, cells[a], n[a] + 1, granted)
      tails == (r.n - idx - 1) % Word
      c == [Moved(r.cells, idx + 1, idx, tails) EXCEPT ![idx + 1] = item]
  IN /\ refs[a] = 1
     /\ May((n[a] + 1) * ElementSize(a), granted)
     /\ IF r.ok THEN Becomes(a, [n |-> r.n, size |-> r.size, cells |-> c],
                             Outside(a, idx + 1 + tails, r.size))
                ELSE Becomes(a, r, FALSE)
     /\ count' = count + r.count
     /\ UNCHANGED refs

(* A careless variant: an index past the end is taken as it is.            *)
AnyIndex(a, i) == i

AtMostLast(a, i) == IF i >= n[a] THEN n[a] - 1 ELSE i

Tails(a, idx) == (n[a] - idx - 1) % Word

(* The elements after idx are moved within the block there is; whether it   *)
(* could then be shrunk is nothing to the caller.                          *)
TakeOut(a, idx, granted) ==
  LET c == Moved(cells[a], idx, idx + 1, Tails(a, idx))
      r == Resize(a, c, n[a] - 1, granted)
  IN /\ May((n[a] - 1) * ElementSize(a), granted)
     /\ Becomes(a, r, Outside(a, idx + 1 + Tails(a, idx), size[a]))
     /\ count' = count + r.count
     /\ UNCHANGED refs

ArrayRemove(a, i, granted) ==
  /\ refs[a] = 1 /\ n[a] > 0
  /\ TakeOut(a, AtMostLast(a, i), granted)

FindAndRemove(a, needle, granted) ==
  /\ refs[a] = 1
  /\ \E i \in 1 .. n[a] :
       /\ cells[a][i] = needle
       /\ \A j \in 1 .. (i - 1) : cells[a][j] # needle
       /\ TakeOut(a, i - 1, granted)

-----------------------------------------------------------------------------
(* Buffers.                                                                *)

(* What unref() of the last reference frees: the structure, and the block  *)
(* of so many bytes.                                                       *)
BufferFreed(bytes) == (IF bytes > 0 THEN 1 ELSE 0) + 1

(* A careless variant: without its bytes, a buffer is forgotten.           *)
ForgottenOnAbort(r) == 0

FreedOnAbort(r) == BufferFreed(r.size)

(* nf7util_buffer_new() of k bytes, of which the caller then copies "text"  *)
(* to the first. The structure has been allocated (without it, nothing has *)
(* happened) when resize() asks for the bytes; if they are refused, the    *)
(* structure is unreferenced and the caller has no buffer.                 *)
NewBuffer(b, k, text, granted) ==
  LET r == Resize(b, cells[b], k, granted)
      filled == [n |-> r.n, size |-> r.size, cells |-> Copied(r.cells, text)]
  IN /\ refs[b] = 0
     /\ May(k, granted)
     /\ IF r.ok
        THEN /\ Becomes(b, filled, Outside(b, Len(text), r.size))
             /\ count' = count + 1 + r.count
             /\ refs' = [refs EXCEPT ![b] = 1]
        ELSE /\ Becomes(b, Emptied, FALSE)
             /\ count' = count + 1 + r.count - FreedOnAbort(r)
             /\ UNCHANGED refs

BufferNew(b, k, granted) == NewBuffer(b, k, <<>>, granted)

BufferNewFromCstr(b, text, granted) == NewBuffer(b, Len(text), text, granted)

BufferClone(src, b, granted) ==
  refs[src] > 0 /\ NewBuffer(b, n[src], Content(src), granted)

BufferRef(b) ==
  /\ refs[b] \in 1 .. (MaxRefs - 1)
  /\ refs' = [refs EXCEPT ![b] = @ + 1]
  /\ UNCHANGED <<n, size, cells, count, overrun>>

BufferUnref(b) ==
  /\ refs[b] > 0
  /\ refs' = [refs EXCEPT ![b] = @ - 1]
  /\ IF refs[b] = 1
     THEN Becomes(b, Emptied, FALSE) /\ count' = count - BufferFreed(size[b])
     ELSE UNCHANGED <<n, size, cells, count, overrun>>

-----------------------------------------------------------------------------
Next ==
  \/ \E a \in Items : ArrayInit(a) \/ ArrayDeinit(a)
  \/ \E a \in Arr, k \in Lengths, granted \in BOOLEAN : ArrayResize(a, k, granted)
  \/ \E a \in Items, granted \in BOOLEAN :
       \/ \E i \in Lengths :
            (\E item \in Value : ArrayInsert(a, i, item, granted)) \/ ArrayRemove(a, i, granted)
       \/ \E needle \in Value : FindAndRemove(a, needle, granted)
  \/ \E b \in Buffers : BufferRef(b) \/ BufferUnref(b)
  \/ \E b \in Buffers, granted \in BOOLEAN :
       \/ \E src \in Buffers \ {b} : BufferClone(src, b, granted)
       \/ \E k \in Lengths : BufferNew(b, k, granted)
       \/ \E k \in 0 .. MaxText : \E text \in [1 .. k -> Value] :
            BufferNewFromCstr(b, text, granted)

Spec == Init /\ [][Next]_vars

-----------------------------------------------------------------------------
(* Every variable has its type; lengths and sizes are words, and no owner  *)
(* sees memory that was never written.                                     *)
TypeOK ==
  /\ n \in [Arr -> 0 .. (Word - 1)]
  /\ size \in [Arr -> 0 .. Heap]
  /\ cells \in [Arr -> Seq(Cell)]
  /\ \A a \in Arr : Junk \notin ToSet(Content(a))
  /\ refs \in [Arr -> 0 .. MaxRefs]
  /\ count \in Nat
  /\ overrun \in BOOLEAN

(* An array's length is never more than its block has room for, although   *)
(* the block may fail to grow or to shrink with it, and no insertion,      *)
(* removal or copy reaches outside of a block, although an index may be    *)
(* any word and the number of elements after it is an unsigned difference. *)
InBounds == ~overrun /\ \A a \in Arr : n[a] <= Room(a)

(* The allocator's count is that of the blocks and structures there are,   *)
(* after a buffer that was given up for want of its bytes, too, so that    *)
(* main() reports a leak exactly if there is one, and none is freed twice. *)
Allocated == {a \in Arr : size[a] > 0}
Living == {b \in Buffers : refs[b] > 0}

CountExact == count = Cardinality(Allocated) + Cardinality(Living)

(* What makes these inductive: a block has the cells there is room for,    *)
(* and an array that is not there has no block.                            *)
BlocksMatch ==
  \A a \in Arr : Len(cells[a]) = Room(a) /\ (refs[a] = 0 => size[a] = 0)

ArrayInv == TypeOK /\ InBounds /\ CountExact /\ BlocksMatch

(* The operations change what an array holds as those of a list would: one *)
(* that fails changes nothing, an index past the end means the end, what   *)
(* an array is extended by is zero, even where it was shrunk in vain, and  *)
(* a new buffer holds zeros, the text it is made of, or what the buffer it *)
(* is cloned from holds.                                                   *)
ActsAsList ==
  [][/\ \A a \in Items, granted \in BOOLEAN :
          /\ \A i \in Lengths :
               /\ \A item \in Value : ArrayInsert(a, i, item, granted) =>
                    Content(a)' = IF granted
                                  THEN InsertAt(Content(a), Min({i, n[a]}) + 1, item)
                                  ELSE Content(a)
               /\ ArrayRemove(a, i, granted) =>
                    Content(a)' = RemoveAt(Content(a), Min({i + 1, n[a]}))
          /\ \A needle \in Value : FindAndRemove(a, needle, granted) =>
               Content(a)' = RemoveFirst(Content(a), needle)
     /\ \A a \in Arr, k \in Lengths, granted \in BOOLEAN : ArrayResize(a, k, granted) =>
          Content(a)' = IF k <= n[a] THEN SubSeq(Content(a), 1, k)
                        ELSE IF granted
                        THEN Content(a) \o [i \in 1 .. (k - n[a]) |-> Zero]
                        ELSE Content(a)
     /\ \A b \in Buffers, granted \in BOOLEAN :
          /\ \A k \in Lengths : BufferNew(b, k, granted) =>
               Content(b)' = IF granted THEN [i \in 1 .. k |-> Zero] ELSE <<>>
          /\ \A k \in 0 .. MaxText : \A text \in [1 .. k -> Value] :
               BufferNewFromCstr(b, text, granted) =>
                 Content(b)' = IF granted THEN text ELSE <<>>
          /\ \A src \in Buffers : BufferClone(src, b, granted) =>
               Content(b)' = IF granted THEN Content(src) ELSE <<>>
    ]_vars
=============================================================================
