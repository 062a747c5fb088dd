---------------------------- MODULE ObserverProofs ----------------------------
(***************************************************************************)
(* Proof that Signal implements Observer, its inductive invariant being    *)
(* ObserverInv.  The slots are told from what they mean by two functions   *)
(* of a sequence: Without, which skips the holes, and Rest, which drops    *)
(* the slots a loop has passed; what each step of the code does to a slot  *)
(* array is a fact about these two.                                        *)
(***************************************************************************)
EXTENDS SubscriptionProofs

USE DEF Detached, FirstIndex, NextIndex, AtEnd, FlagCleared, Kept

-----------------------------------------------------------------------------
(* Sequences without an element.                                           *)

(* A sequence that is not empty is a shorter one and its last element.     *)
LEMMA LastAppended ==
  ASSUME NEW T, NEW q \in Seq(T), q # <<>>
  PROVE  \E p \in Seq(T), x \in T : q = Append(p, x) /\ Len(p) = Len(q) - 1
<1>1. PICK p \in Seq(T), x \in T : q = Append(p, x)
  BY SequenceEmptyOrAppend
<1>2. Len(Append(p, x)) = Len(p) + 1
  BY AppendProperties
<1>3. Len(p) \in Nat /\ Len(p) = Len(q) - 1
  BY <1>1, <1>2
<1>4. QED
  BY <1>1, <1>3

(* What holds of the empty sequence, and of each that is one element       *)
(* longer than one it holds of, holds of all sequences.                    *)
LEMMA AllSequences ==
  ASSUME NEW T, NEW G \in SUBSET Seq(T), <<>> \in G,
         \A q \in G, x \in T : Append(q, x) \in G
  PROVE  Seq(T) = G
<1> DEFINE Bad == {n \in Nat : \E q \in Seq(T) : Len(q) = n /\ q \notin G}
<1>1. SUFFICES ASSUME Bad # {}  PROVE FALSE
  <2>1. \A q \in Seq(T) : Len(q) \in Nat
    OBVIOUS
  <2>2. QED
    BY <2>1
<1>2. PICK m \in Bad : \A k \in Bad : m <= k
  <2>1. Bad \in SUBSET Nat
    OBVIOUS
  <2> HIDE DEF Bad
  <2>2. QED
    BY <1>1, <2>1, LeastNatural
<1>3. PICK q \in Seq(T) : Len(q) = m /\ q \notin G
  OBVIOUS
<1>4. m \in Nat \ {0}
  BY <1>3, EmptySeq
<1>5. PICK p \in Seq(T), x \in T : q = Append(p, x) /\ Len(p) = m - 1
  <2>1. q # <<>>
    BY <1>3, <1>4, EmptySeq
  <2>2. \E p \in Seq(T), x \in T : q = Append(p, x) /\ Len(p) = Len(q) - 1
    BY ONLY q \in Seq(T), <2>1, LastAppended
  <2>3. QED
    BY <1>3, <2>2
<1>6. p \in G
  <2>1. m - 1 \in Nat /\ ~(m <= m - 1)
    BY <1>4
  <2>2. QED
    BY <1>2, <1>5, <2>1
<1>7. QED
  BY <1>3, <1>5, <1>6

(* The recursion of Without, as an equation.                               *)
Sieves(f, q, e) ==
  f = [i \in 0 .. Len(q) |->
         IF i = 0 THEN <<>>
         ELSE IF q[i] = e THEN f[i - 1] ELSE Append(f[i - 1], q[i])]

(* Two solutions agree as far as their sequences do.                       *)
LEMMA SievesAgree ==
  ASSUME NEW T, NEW p \in Seq(T), NEW q \in Seq(T), NEW e, NEW f, NEW g,
         Sieves(f, p, e), Sieves(g, q, e),
         NEW n \in Nat, n <= Len(p), n <= Len(q),
         \A i \in 1 .. n : p[i] = q[i]
  PROVE  \A i \in 0 .. n : f[i] = g[i]
<1> DEFINE Bad == {i \in 0 .. n : f[i] # g[i]}
<1>1. SUFFICES ASSUME Bad # {}  PROVE FALSE
  OBVIOUS
<1>2. PICK m \in Bad : \A k \in Bad : m <= k
  <2>1. Bad \in SUBSET Nat
    OBVIOUS
  <2> HIDE DEF Bad
  <2>2. QED
    BY <1>1, <2>1, LeastNatural
<1>3. m \in 0 .. Len(p) /\ m \in 0 .. Len(q) /\ f[m] # g[m]
  OBVIOUS
<1>4. CASE m = 0
  BY <1>3, <1>4 DEF Sieves
<1>5. CASE m # 0
  <2>1. /\ m \in 1 .. n /\ m - 1 \in 0 .. n /\ ~(m <= m - 1)
    BY <1>5
  <2>2. f[m - 1] = g[m - 1]
    BY <1>2, <2>1
  <2>3. f[m] = IF p[m] = e THEN f[m - 1] ELSE Append(f[m - 1], p[m])
    BY <1>3, <1>5 DEF Sieves
  <2>4. g[m] = IF q[m] = e THEN g[m - 1] ELSE Append(g[m - 1], q[m])
    BY <1>3, <1>5 DEF Sieves
  <2>5. QED
    BY <1>3, <2>1, <2>2, <2>3, <2>4
<1>6. QED
  BY <1>4, <1>5

(* There is a solution for every sequence.                                 *)
LEMMA SieveExists ==
  ASSUME NEW T, NEW e, NEW q \in Seq(T)
  PROVE  \E f \in [0 .. Len(q) -> Seq(T)] : Sieves(f, q, e)
<1> DEFINE G == {p \in Seq(T) : \E f \in [0 .. Len(p) -> Seq(T)] : Sieves(f, p, e)}
<1>1. <<>> \in G
  <2> DEFINE f == [i \in 0 .. 0 |-> <<>>]
  <2>1. <<>> \in Seq(T) /\ Len(<<>>) = 0
    BY EmptySeq
  <2>2. f \in [0 .. 0 -> Seq(T)]
    BY <2>1
  <2>3. Sieves(f, <<>>, e)
    BY <2>1 DEF Sieves
  <2>4. QED
    BY <2>1, <2>2, <2>3
<1>2. ASSUME NEW p \in G, NEW x \in T
      PROVE  Append(p, x) \in G
  <2>1. PICK f \in [0 .. Len(p) -> Seq(T)] : Sieves(f, p, e)
    OBVIOUS
  <2> DEFINE n == Len(p)
             new == Append(p, x)
             g == [i \in 0 .. n + 1 |->
                     IF i = n + 1 THEN IF x = e THEN f[n] ELSE Append(f[n], x)
                     ELSE f[i]]
  <2>2. /\ n \in Nat /\ p \in Seq(T) /\ new \in Seq(T) /\ Len(new) = n + 1
        /\ new[n + 1] = x /\ \A i \in 1 .. n : new[i] = p[i]
    BY AppendProperties
  <2>3. f[n] \in Seq(T) /\ Append(f[n], x) \in Seq(T)
    BY <2>2, AppendProperties
  <2> HIDE DEF new, n
  <2>4. g \in [0 .. n + 1 -> Seq(T)]
    <3>1. \A i \in 0 .. n + 1 : i # n + 1 => i \in 0 .. n
      BY <2>2
    <3>2. f \in [0 .. n -> Seq(T)]
      BY DEF n
    <3>3. QED
      BY <2>3, <3>1, <3>2
  <2>5. ASSUME NEW i \in 0 .. n + 1
        PROVE  g[i] = IF i = 0 THEN <<>>
                      ELSE IF new[i] = e THEN g[i - 1] ELSE Append(g[i - 1], new[i])
    <3>1. CASE i = n + 1
      <4>1. i # 0 /\ i - 1 = n /\ n \in 0 .. n + 1 /\ n # n + 1
        BY <2>2, <3>1
      <4>2. g[i] = IF x = e THEN f[n] ELSE Append(f[n], x)
        BY <3>1
      <4>3. g[i - 1] = f[n] /\ new[i] = x
        BY <2>2, <3>1, <4>1
      <4>4. QED
        BY <4>1, <4>2, <4>3
    <3>2. CASE i # n + 1
      <4>1. i \in 0 .. n /\ g[i] = f[i]
        BY <2>2, <3>2
      <4>2. f[i] = IF i = 0 THEN <<>>
                   ELSE IF p[i] = e THEN f[i - 1] ELSE Append(f[i - 1], p[i])
        BY <2>1, <4>1 DEF Sieves, n
      <4>3. CASE i = 0
        BY <4>1, <4>2, <4>3
      <4>4. CASE i # 0
        <5>1. i \in 1 .. n /\ i - 1 \in 0 .. n + 1 /\ i - 1 # n + 1
          BY <2>2, <4>1, <4>4
        <5>2. g[i - 1] = f[i - 1] /\ new[i] = p[i]
          BY <2>2, <5>1
        <5>3. QED
          BY <4>1, <4>2, <4>4, <5>2
      <4>5. QED
        BY <4>3, <4>4
    <3>3. QED
      BY <3>1, <3>2
  <2>6. Sieves(g, new, e)
    <3> HIDE DEF g
    <3>1. g = [i \in 0 .. n + 1 |-> g[i]]
      BY <2>4
    <3>2. QED
      BY <2>2, <2>5, <3>1 DEF Sieves
  <2> HIDE DEF g
  <2>7. QED
    BY <2>2, <2>4, <2>6 DEF new
<1> HIDE DEF G
<1>3. Seq(T) = G
  <2>1. G \in SUBSET Seq(T)
    BY DEF G
  <2>2. QED
    BY <1>1, <1>2, <2>1, AllSequences
<1>4. QED
  BY <1>3 DEF G

(* So Without is the last value of any solution.                           *)
LEMMA WithoutSolves ==
  ASSUME NEW T, NEW e, NEW q \in Seq(T), NEW f, Sieves(f, q, e)
  PROVE  Without(q, e) = f[Len(q)]
<1>1. PICK g : Sieves(g, q, e) /\ Without(q, e) = g[Len(q)]
  BY DEF Without, Sieves
<1>2. Len(q) \in Nat /\ Len(q) \in 0 .. Len(q)
  OBVIOUS
<1>3. \A i \in 0 .. Len(q) : g[i] = f[i]
  BY <1>1, <1>2, SievesAgree
<1>4. QED
  BY <1>1, <1>2, <1>3

(* Leaving an element out leaves a sequence of the same elements.          *)
LEMMA WithoutType ==
  ASSUME NEW T, NEW e, NEW q \in Seq(T)
  PROVE  Without(q, e) \in Seq(T)
<1>1. PICK f \in [0 .. Len(q) -> Seq(T)] : Sieves(f, q, e)
  BY SieveExists
<1>2. Without(q, e) = f[Len(q)] /\ Len(q) \in 0 .. Len(q)
  BY <1>1, WithoutSolves
<1>3. QED
  BY <1>2

(* Nothing can be left out of the empty sequence.                          *)
LEMMA WithoutEmpty ==
  ASSUME NEW e
  PROVE  Without(<<>>, e) = <<>>
<1>1. <<>> \in Seq({}) /\ Len(<<>>) = 0
  BY EmptySeq
<1>2. PICK f \in [0 .. Len(<<>>) -> Seq({})] : Sieves(f, <<>>, e)
  BY <1>1, SieveExists
<1>3. Without(<<>>, e) = f[0]
  BY <1>1, <1>2, WithoutSolves
<1>4. f[0] = <<>>
  BY <1>1, <1>2 DEF Sieves
<1>5. QED
  BY <1>3, <1>4

(* An element that is appended stays, unless it is the one left out.       *)
LEMMA WithoutAppend ==
  ASSUME NEW T, NEW e, NEW q \in Seq(T), NEW x \in T
  PROVE  Without(Append(q, x), e) =
           IF x = e THEN Without(q, e) ELSE Append(Without(q, e), x)
<1> DEFINE n == Len(q)
           p == Append(q, x)
<1>1. /\ n \in Nat /\ p \in Seq(T) /\ Len(p) = n + 1 /\ p[n + 1] = x
      /\ \A i \in 1 .. n : p[i] = q[i]
  BY AppendProperties
<1> HIDE DEF p
<1>2. PICK f : Sieves(f, p, e)
  BY <1>1, SieveExists
<1>3. PICK g : Sieves(g, q, e)
  BY SieveExists
<1>4. Without(p, e) = f[n + 1] /\ Without(q, e) = g[n]
  BY <1>1, <1>2, <1>3, WithoutSolves
<1>5. \A i \in 0 .. n : f[i] = g[i]
  BY <1>1, <1>2, <1>3, SievesAgree
<1> HIDE DEF n
<1>6. n \in 0 .. n
  BY <1>1
<1>7. f[n + 1] = IF p[n + 1] = e THEN f[n] ELSE Append(f[n], p[n + 1])
  <2> DEFINE k == n + 1
  <2>1. k \in 0 .. Len(p) /\ k # 0 /\ k - 1 = n
    BY <1>1
  <2> HIDE DEF k
  <2>2. f[k] = IF p[k] = e THEN f[k - 1] ELSE Append(f[k - 1], p[k])
    BY <1>2, <2>1 DEF Sieves
  <2>3. QED
    BY <2>1, <2>2 DEF k
<1>8. QED
  BY <1>1, <1>4, <1>5, <1>6, <1>7 DEF p

(* Leaving an element out, part by part.                                   *)
LEMMA WithoutConcat ==
  ASSUME NEW T, NEW e, NEW p \in Seq(T), NEW q \in Seq(T)
  PROVE  Without(p \o q, e) = Without(p, e) \o Without(q, e)
<1> DEFINE G == {r \in Seq(T) : Without(p \o r, e) = Without(p, e) \o Without(r, e)}
<1>1. Without(p, e) \in Seq(T)
  BY WithoutType
<1>2. <<>> \in G
  <2>1. p \o <<>> = p /\ Without(p, e) \o <<>> = Without(p, e)
    BY <1>1, ConcatEmptySeq
  <2>2. QED
    BY <2>1, WithoutEmpty, EmptySeq
<1>3. ASSUME NEW r \in G, NEW x \in T
      PROVE  Append(r, x) \in G
  <2>1. /\ r \in Seq(T) /\ Append(r, x) \in Seq(T)
        /\ p \o r \in Seq(T) /\ Without(r, e) \in Seq(T)
    BY WithoutType, AppendProperties, ConcatProperties
  <2>2. p \o Append(r, x) = Append(p \o r, x)
    BY <2>1
  <2>3. Without(Append(r, x), e) = IF x = e THEN Without(r, e) ELSE Append(Without(r, e), x)
    BY <2>1, WithoutAppend
  <2>4. Without(Append(p \o r, x), e) =
          IF x = e THEN Without(p \o r, e) ELSE Append(Without(p \o r, e), x)
    <3> DEFINE s == p \o r
    <3>1. s \in Seq(T)
      BY <2>1
    <3> HIDE DEF s, G
    <3>2. Without(Append(s, x), e) = IF x = e THEN Without(s, e) ELSE Append(Without(s, e), x)
      BY <3>1, WithoutAppend
    <3>3. QED
      BY <3>2 DEF s
  <2>5. Without(p \o r, e) = Without(p, e) \o Without(r, e)
    OBVIOUS
  <2>6. Without(p, e) \o Append(Without(r, e), x) = Append(Without(p, e) \o Without(r, e), x)
    BY <1>1, <2>1
  <2>7. QED
    BY <2>1, <2>2, <2>3, <2>4, <2>5, <2>6
<1> HIDE DEF G
<1>4. Seq(T) = G
  <2>1. G \in SUBSET Seq(T)
    BY DEF G
  <2>2. QED
    BY <1>2, <1>3, <2>1, AllSequences
<1>5. QED
  BY <1>4 DEF G

(* q with its elements that are r turned into n.                           *)
Holed(q, r, n) == [i \in 1 .. Len(q) |-> IF q[i] = r THEN n ELSE q[i]]

(* Making holes moves nothing.                                             *)
LEMMA HoledType ==
  ASSUME NEW T, NEW q \in Seq(T), NEW r, NEW n \in T
  PROVE  /\ Holed(q, r, n) \in Seq(T) /\ Len(Holed(q, r, n)) = Len(q)
         /\ \A i \in 1 .. Len(q) : Holed(q, r, n)[i] = IF q[i] = r THEN n ELSE q[i]
<1>1. \A i \in 1 .. Len(q) : q[i] \in T
  BY ElementOfSeq
<1>2. Holed(q, r, n) \in [1 .. Len(q) -> T] /\ Len(q) \in Nat
  BY <1>1 DEF Holed
<1>3. QED
  BY <1>2 DEF Holed

(* Holes are made slot by slot.                                            *)
LEMMA HoledAppend ==
  ASSUME NEW T, NEW q \in Seq(T), NEW r, NEW n \in T, NEW x \in T
  PROVE  Holed(Append(q, x), r, n) = Append(Holed(q, r, n), IF x = r THEN n ELSE x)
<1> DEFINE k == Len(q)
           p == Append(q, x)
           y == IF x = r THEN n ELSE x
           h == Holed(q, r, n)
           g == Holed(p, r, n)
<1>1. /\ k \in Nat /\ p \in Seq(T) /\ Len(p) = k + 1 /\ p[k + 1] = x
      /\ \A i \in 1 .. k : p[i] = q[i]
  BY AppendProperties
<1>2. h \in Seq(T) /\ Len(h) = k /\ \A i \in 1 .. k : h[i] = IF q[i] = r THEN n ELSE q[i]
  BY HoledType
<1> HIDE DEF p, h, k
<1>3. /\ g \in Seq(T) /\ Len(g) = k + 1
      /\ \A i \in 1 .. k + 1 : g[i] = IF p[i] = r THEN n ELSE p[i]
  BY <1>1, HoledType
<1>4. y \in T
  OBVIOUS
<1> HIDE DEF y, g
<1>5. /\ Append(h, y) \in Seq(T) /\ Len(Append(h, y)) = k + 1
      /\ Append(h, y)[k + 1] = y
      /\ \A i \in 1 .. k : Append(h, y)[i] = h[i]
  BY <1>2, <1>4, AppendProperties
<1>6. ASSUME NEW i \in 1 .. k + 1
      PROVE  Append(h, y)[i] = g[i]
  <2>1. CASE i = k + 1
    BY <1>1, <1>3, <1>5, <2>1 DEF y
  <2>2. CASE i # k + 1
    <3>1. i \in 1 .. k
      BY <1>1, <2>2
    <3>2. QED
      BY <1>1, <1>2, <1>3, <1>5, <3>1
  <2>3. QED
    BY <2>1, <2>2
<1>7. g = Append(h, y)
  BY <1>3, <1>5, <1>6, SeqEqual
<1>8. QED
  BY <1>7 DEF p, h, y, g

(* Skipping the holes of what an element has been made holes in is         *)
(* leaving that element out of what skips the holes.                       *)
LEMMA WithoutHoles ==
  ASSUME NEW T, NEW n \in T, NEW r, r # n, NEW q \in Seq(T)
  PROVE  Without(Holed(q, r, n), n) = Without(Without(q, n), r)
<1> DEFINE G == {p \in Seq(T) : Without(Holed(p, r, n), n) = Without(Without(p, n), r)}
<1>1. <<>> \in G
  <2>1. Holed(<<>>, r, n) = <<>>
    BY DEF Holed
  <2>2. QED
    BY <2>1, WithoutEmpty, EmptySeq
<1>2. ASSUME NEW p \in G, NEW x \in T
      PROVE  Append(p, x) \in G
  <2> DEFINE y == IF x = r THEN n ELSE x
  <2>1. /\ p \in Seq(T) /\ Append(p, x) \in Seq(T)
        /\ Without(p, n) \in Seq(T) /\ y \in T
    BY WithoutType, AppendProperties
  <2>2. /\ Holed(p, r, n) \in Seq(T)
        /\ Holed(Append(p, x), r, n) = Append(Holed(p, r, n), y)
    BY <2>1, HoledType, HoledAppend
  <2> HIDE DEF y
  <2>3. Without(Append(Holed(p, r, n), y), n) =
          IF y = n THEN Without(Holed(p, r, n), n)
                   ELSE Append(Without(Holed(p, r, n), n), y)
    BY <2>1, <2>2, WithoutAppend
  <2>4. Without(Append(p, x), n) = IF x = n THEN Without(p, n) ELSE Append(Without(p, n), x)
    BY <2>1, WithoutAppend
  <2>5. Without(Append(Without(p, n), x), r) =
          IF x = r THEN Without(Without(p, n), r) ELSE Append(Without(Without(p, n), r), x)
    BY <2>1, WithoutAppend
  <2>6. Without(Holed(p, r, n), n) = Without(Without(p, n), r)
    OBVIOUS
  <2> HIDE DEF G
  <2>7. Without(Holed(Append(p, x), r, n), n) = Without(Without(Append(p, x), n), r)
    BY <2>2, <2>3, <2>4, <2>5, <2>6 DEF y
  <2>8. QED
    BY <2>1, <2>7 DEF G
<1> HIDE DEF G
<1>3. Seq(T) = G
  <2>1. G \in SUBSET Seq(T)
    BY DEF G
  <2>2. QED
    BY <1>1, <1>2, <2>1, AllSequences
<1>4. QED
  BY <1>3 DEF G

(* Nothing becomes a hole where the receiver is not.                       *)
LEMMA HoledKeeps ==
  ASSUME NEW T, NEW n, NEW r, NEW q \in Seq(T), \A i \in 1 .. Len(q) : q[i] # r
  PROVE  Holed(q, r, n) = q
BY DEF Holed

(* The slots of q from the k-th on.                                        *)
Rest(q, k) == SubSeq(q, k, Len(q))

(* How long the rest is, and what is in it.                                *)
LEMMA RestSlots ==
  ASSUME NEW T, NEW q \in Seq(T), NEW k \in Nat \ {0}
  PROVE  /\ Rest(q, k) \in Seq(T)
         /\ Len(Rest(q, k)) = IF k <= Len(q) THEN Len(q) - k + 1 ELSE 0
         /\ \A i \in 1 .. (Len(q) - k + 1) : Rest(q, k)[i] = q[k + i - 1]
         /\ k > Len(q) => Rest(q, k) = <<>>
<1> DEFINE n == Len(q)
<1>1. n \in Nat /\ \A i \in k .. n : i \in 1 .. Len(q)
  OBVIOUS
<1>2. \A i \in k .. n : q[i] \in T
  BY <1>1, ElementOfSeq
<1> HIDE DEF n
<1>3. /\ SubSeq(q, k, n) \in Seq(T)
      /\ Len(SubSeq(q, k, n)) = IF k <= n THEN n - k + 1 ELSE 0
      /\ \A i \in 1 .. n - k + 1 : SubSeq(q, k, n)[i] = q[k + i - 1]
  BY <1>1, <1>2, SubSeqProperties
<1>4. k > n => SubSeq(q, k, n) = <<>>
  BY <1>1, SubSeqEmpty
<1>5. QED
  BY <1>3, <1>4 DEF Rest, n

(* The rest is its first slot and the rest after it.                       *)
LEMMA RestStep ==
  ASSUME NEW T, NEW q \in Seq(T), NEW k \in 1 .. Len(q)
  PROVE  Rest(q, k) = <<q[k]>> \o Rest(q, k + 1)
BY SubSeqRecursiveFirst DEF Rest

(* From the first slot on, the rest is everything.                         *)
LEMMA RestAll ==
  ASSUME NEW T, NEW q \in Seq(T)
  PROVE  Rest(q, 1) = q
BY SubSeqFull DEF Rest

(* What is appended is appended to every rest.                             *)
LEMMA RestAppend ==
  ASSUME NEW T, NEW q \in Seq(T), NEW x \in T, NEW k \in 1 .. (Len(q) + 1)
  PROVE  Rest(Append(q, x), k) = Append(Rest(q, k), x)
<1> DEFINE n == Len(q)
           p == Append(q, x)
           a == Rest(p, k)
           b == Rest(q, k)
           m == n - k + 1
<1>1. /\ n \in Nat /\ p \in Seq(T) /\ Len(p) = n + 1 /\ p[n + 1] = x
      /\ \A i \in 1 .. n : p[i] = q[i]
  BY AppendProperties
<1>2. k \in Nat \ {0} /\ k <= n + 1 /\ m \in Nat
  OBVIOUS
<1> HIDE DEF p
<1>3. b \in Seq(T) /\ Len(b) = m /\ \A i \in 1 .. m : b[i] = q[k + i - 1]
  <2>1. /\ b \in Seq(T) /\ Len(b) = IF k <= n THEN n - k + 1 ELSE 0
        /\ \A i \in 1 .. (n - k + 1) : b[i] = q[k + i - 1]
    BY <1>2, RestSlots
  <2> HIDE DEF b, n
  <2>2. Len(b) = m
    BY <1>1, <1>2, <2>1
  <2>3. QED
    BY <2>1, <2>2
<1>4. a \in Seq(T) /\ Len(a) = m + 1 /\ \A i \in 1 .. m + 1 : a[i] = p[k + i - 1]
  <2>1. /\ a \in Seq(T) /\ Len(a) = IF k <= Len(p) THEN Len(p) - k + 1 ELSE 0
        /\ \A i \in 1 .. (Len(p) - k + 1) : a[i] = p[k + i - 1]
    <3>1. p \in Seq(T) /\ k \in Nat \ {0}
      BY <1>1, <1>2
    <3>2. QED
      BY ONLY <3>1, RestSlots
  <2>2. Len(p) - k + 1 = m + 1 /\ k <= Len(p)
    BY <1>1, <1>2
  <2>3. QED
    BY <2>1, <2>2
<1> HIDE DEF a, b
<1>5. /\ Append(b, x) \in Seq(T) /\ Len(Append(b, x)) = m + 1
      /\ Append(b, x)[m + 1] = x
      /\ \A i \in 1 .. m : Append(b, x)[i] = b[i]
  <2>1. /\ Append(b, x) \in Seq(T) /\ Len(Append(b, x)) = Len(b) + 1
        /\ Append(b, x)[Len(b) + 1] = x
        /\ \A i \in 1 .. Len(b) : Append(b, x)[i] = b[i]
    <3>1. b \in Seq(T) /\ x \in T
      BY <1>3
    <3>2. QED
      BY ONLY <3>1, AppendProperties
  <2>2. QED
    BY <1>3, <2>1
<1>6. ASSUME NEW i \in 1 .. m + 1
      PROVE  a[i] = Append(b, x)[i]
  <2>1. CASE i = m + 1
    <3>1. k + i - 1 = n + 1
      BY <1>1, <1>2, <2>1
    <3>2. QED
      BY <1>1, <1>4, <1>5, <2>1, <3>1
  <2>2. CASE i # m + 1
    <3>1. i \in 1 .. m /\ k + i - 1 \in 1 .. n
      BY <1>1, <1>2, <2>2
    <3>2. QED
      BY <1>1, <1>3, <1>4, <1>5, <3>1
  <2>3. QED
    BY <2>1, <2>2
<1> HIDE DEF m
<1>7. a = Append(b, x)
  BY <1>4, <1>5, <1>6, SeqEqual
<1>8. QED
  BY <1>7 DEF a, b, p

(* Holes in the slots are holes in every rest.                             *)
LEMMA RestHoled ==
  ASSUME NEW T, NEW q \in Seq(T), NEW r, NEW n \in T, NEW k \in Nat \ {0}
  PROVE  Rest(Holed(q, r, n), k) = Holed(Rest(q, k), r, n)
<1> DEFINE h == Holed(q, r, n)
           a == Rest(h, k)
           b == Rest(q, k)
           c == Holed(b, r, n)
<1>1. /\ h \in Seq(T) /\ Len(h) = Len(q) /\ Len(q) \in Nat
      /\ \A i \in 1 .. Len(q) : h[i] = IF q[i] = r THEN n ELSE q[i]
  BY HoledType
<1> HIDE DEF h
<1>2. /\ a \in Seq(T) /\ Len(a) = IF k <= Len(q) THEN Len(q) - k + 1 ELSE 0
      /\ \A i \in 1 .. (Len(q) - k + 1) : a[i] = h[k + i - 1]
  <2>1. /\ a \in Seq(T) /\ Len(a) = IF k <= Len(h) THEN Len(h) - k + 1 ELSE 0
        /\ \A i \in 1 .. (Len(h) - k + 1) : a[i] = h[k + i - 1]
    BY <1>1, RestSlots
  <2>2. QED
    BY <1>1, <2>1
<1>3. /\ b \in Seq(T) /\ Len(b) = IF k <= Len(q) THEN Len(q) - k + 1 ELSE 0
      /\ \A i \in 1 .. (Len(q) - k + 1) : b[i] = q[k + i - 1]
  BY RestSlots
<1> HIDE DEF a, b
<1>4. /\ c \in Seq(T) /\ Len(c) = Len(b)
      /\ \A i \in 1 .. Len(b) : c[i] = IF b[i] = r THEN n ELSE b[i]
  BY <1>3, HoledType
<1> HIDE DEF c
<1>5. ASSUME NEW i \in 1 .. Len(a)
      PROVE  a[i] = c[i]
  <2>1. i \in 1 .. (Len(q) - k + 1) /\ k + i - 1 \in 1 .. Len(q)
    BY <1>1, <1>2
  <2>2. QED
    BY <1>1, <1>2, <1>3, <1>4, <2>1
<1>6. a = c
  BY <1>2, <1>3, <1>4, <1>5, SeqEqual
<1>7. QED
  BY <1>6 DEF a, b, c, h

(* Without emissions of a signal from within its own, whatever the clients *)
(* do, each step keeps the flag and the loops' places.                     *)
LEMMA ObserverInvStep ==
  ASSUME ObserverInv, [Next]_vars, ~Reentrant
  PROVE  ObserverInv'
<1> USE DEF ObserverInv
<1>1. /\ TypeOK /\ TypeInv /\ TypeInv' /\ TypeOK' /\ DeadIsEmpty
      /\ SubscriptionInv /\ SubscriptionInv'
  BY SubscriptionStep DEF SubscriptionInv, TypeInv
<1>2. SUFFICES OneEmissionPerSignal' /\ FlagTellsIteration' /\ LoopsWithin'
  BY <1>1
<1>3. \A d \in DOMAIN stack : stack[d].sig \in Signal
  BY <1>1, FramesTyped
<1>4. CASE UNCHANGED vars \/ CallHole
  BY <1>4 DEF vars, CallHole, OneEmissionPerSignal, FlagTellsIteration, Iterating,
             LoopsWithin
<1>5. ASSUME UNCHANGED <<emitting, stack>>,
             \A d \in DOMAIN stack : live'[stack[d].sig] =>
                /\ live[stack[d].sig]
                /\ Len(recvs'[stack[d].sig]) >= Len(recvs[stack[d].sig])
      PROVE  OneEmissionPerSignal' /\ FlagTellsIteration' /\ LoopsWithin'
  <2>1. OneEmissionPerSignal' /\ FlagTellsIteration'
    BY <1>5 DEF OneEmissionPerSignal, FlagTellsIteration, Iterating
  <2>2. ASSUME NEW d \in DOMAIN stack, live'[stack[d].sig]
        PROVE  /\ stack[d].pc = "inside" => stack[d].pos <= Len(recvs'[stack[d].sig])
               /\ stack[d].pc = "loop" => stack[d].pos <= Len(recvs'[stack[d].sig]) + 1
    <3> DEFINE n == Len(recvs[stack[d].sig])
               m == Len(recvs'[stack[d].sig])
               p == stack[d].pos
    <3>1. n \in Nat /\ m \in Nat /\ p \in Nat
      <4>1. recvs[stack[d].sig] \in Seq(Slot) /\ recvs'[stack[d].sig] \in Seq(Slot)
        BY <1>1, <1>3 DEF TypeOK
      <4>2. stack[d] \in Frame
        BY <1>1, FramesTyped
      <4>3. QED
        BY <4>1, <4>2 DEF Frame
    <3>2. /\ stack[d].pc = "inside" => p <= n
          /\ stack[d].pc = "loop" => p <= n + 1
          /\ m >= n
      BY <1>5, <2>2 DEF LoopsWithin
    <3> HIDE DEF n, m, p
    <3>3. /\ stack[d].pc = "inside" => p <= m
          /\ stack[d].pc = "loop" => p <= m + 1
      BY <3>1, <3>2
    <3>4. QED
      BY <3>3 DEF m, p
  <2>3. LoopsWithin'
    BY <1>5, <2>2 DEF LoopsWithin
  <2>4. QED
    BY <2>1, <2>3
<1>6. ASSUME NEW s \in Signal, SignalInit(s) \/ Deinit(s) \/ DeinitHole(s)
      PROVE  OneEmissionPerSignal' /\ FlagTellsIteration' /\ LoopsWithin'
  <2>1. /\ UNCHANGED <<emitting, stack>>
        /\ \/ ~Emitted(s) /\ live' = [live EXCEPT ![s] = TRUE]
                          /\ recvs' = [recvs EXCEPT ![s] = <<>>]
           \/ live' = [live EXCEPT ![s] = FALSE] /\ recvs' = [recvs EXCEPT ![s] = <<>>]
           \/ live' = live /\ recvs' = recvs
    BY <1>6 DEF SignalInit, Deinit, DeinitHole
  <2>2. \A d \in DOMAIN stack : live'[stack[d].sig] =>
           live[stack[d].sig] /\ recvs'[stack[d].sig] = recvs[stack[d].sig]
    BY <1>1, <1>3, <2>1 DEF Emitted, TypeOK
  <2>3. \A d \in DOMAIN stack : Len(recvs[stack[d].sig]) \in Nat
    BY <1>1, <1>3 DEF TypeOK
  <2>4. QED
    BY <1>5, <2>1, <2>2, <2>3
<1>7. ASSUME NEW r \in Recv, ClientTurn, UNCHANGED <<live, emitting, stack>>,
             \A t \in Signal : \/ recvs'[t] = Unset(r)[t]
                              \/ recvs'[t] = Append(Unset(r)[t], r)
      PROVE  OneEmissionPerSignal' /\ FlagTellsIteration' /\ LoopsWithin'
  <2>1. \A d \in DOMAIN stack : emitting[stack[d].sig]
    BY <1>1, <1>3, <1>7, ClientTurnInside DEF FlagTellsIteration, Iterating
  <2>2. \A d \in DOMAIN stack : Len(recvs'[stack[d].sig]) >= Len(recvs[stack[d].sig])
    BY <1>1, <1>3, <1>7, <2>1, PinnedBySubscriptions
  <2>3. QED
    BY <1>5, <1>7, <2>2
<1>8. ASSUME NEW r \in Recv, RecvUnset(r)
      PROVE  OneEmissionPerSignal' /\ FlagTellsIteration' /\ LoopsWithin'
  BY <1>7, <1>8 DEF RecvUnset, MayDetach
<1>9. ASSUME NEW r \in Recv, NEW s \in Signal, RecvSet(r, s) \/ RecvSetFails(r, s)
      PROVE  OneEmissionPerSignal' /\ FlagTellsIteration' /\ LoopsWithin'
  <2>1. /\ ClientTurn /\ UNCHANGED <<live, emitting, stack>>
        /\ \/ recvs' = [Unset(r) EXCEPT ![s] = Append(@, r)]
           \/ recvs' = Unset(r)
    BY <1>9 DEF RecvSet, RecvSetFails, MayDetach
  <2>2. \A t \in Signal : \/ recvs'[t] = Unset(r)[t]
                         \/ recvs'[t] = Append(Unset(r)[t], r)
    BY <1>1, <2>1, UnsetType
  <2>3. QED
    BY <1>7, <2>1, <2>2
<1>10. ASSUME NEW s \in Signal, Emit(s)
       PROVE  OneEmissionPerSignal' /\ FlagTellsIteration' /\ LoopsWithin'
  <2> DEFINE f == [sig |-> s, pc |-> "loop", pos |-> 1, kept |-> 0]
             n == Len(stack) + 1
  <2>1. /\ ~Emitted(s) /\ stack' = Append(stack, f)
        /\ emitting' = [emitting EXCEPT ![s] = TRUE]
        /\ UNCHANGED <<live, recvs>>
    BY <1>10 DEF Emit
  <2>2. /\ DOMAIN stack' = 1 .. n /\ DOMAIN stack = 1 .. Len(stack)
        /\ Len(stack) \in Nat
        /\ \A d \in DOMAIN stack : stack'[d] = stack[d] /\ d # n
        /\ stack'[n] = f
    <3>1. f \in Frame
      BY DEF Frame
    <3> HIDE DEF f
    <3>2. QED
      BY <1>1, <2>1, <3>1, AppendProperties DEF TypeOK
  <2>3. \A d \in DOMAIN stack' : d = n \/ d \in DOMAIN stack
    BY <2>2
  <2>4. OneEmissionPerSignal'
    BY <2>1, <2>2, <2>3 DEF OneEmissionPerSignal, Emitted
  <2>5. FlagTellsIteration'
    BY <1>1, <2>1, <2>2, <2>3 DEF FlagTellsIteration, Iterating, TypeOK
  <2>6. 1 <= Len(recvs[s]) + 1
    <3>1. Len(recvs[s]) \in Nat
      BY <1>1 DEF TypeOK
    <3>2. QED
      BY <3>1
  <2>7. LoopsWithin'
    BY <2>1, <2>2, <2>3, <2>6 DEF LoopsWithin
  <2>8. QED
    BY <2>4, <2>5, <2>7
<1>11. ASSUME NEW pc \in {"loop", "inside", "compact"}, NEW pos \in Nat \ {0},
              NEW kept \in Nat, stack # <<>>, MoveTo(pc, pos, kept), live' = live,
              \A s \in Signal : emitting'[s] <=>
                 IF s = Top.sig THEN pc # "compact" ELSE emitting[s],
              \A s \in Signal : s # Top.sig => recvs'[s] = recvs[s],
              live[Top.sig] =>
                /\ pc = "inside" => pos <= Len(recvs'[Top.sig])
                /\ pc = "loop" => pos <= Len(recvs'[Top.sig]) + 1
       PROVE  OneEmissionPerSignal' /\ FlagTellsIteration' /\ LoopsWithin'
  <2>1. /\ DOMAIN stack' = DOMAIN stack
        /\ Len(stack) \in DOMAIN stack /\ stack[Len(stack)] = Top
        /\ \A d \in DOMAIN stack : d # Len(stack) => stack'[d] = stack[d]
        /\ stack'[Len(stack)] =
              [sig |-> Top.sig, pc |-> pc, pos |-> pos, kept |-> kept]
        /\ \A d \in DOMAIN stack : stack'[d].sig = stack[d].sig
    BY <1>1, <1>11, TopMovesOnly
  <2>2. \A d \in DOMAIN stack : d # Len(stack) => stack[d].sig # Top.sig
    BY <2>1 DEF OneEmissionPerSignal
  <2>3. OneEmissionPerSignal'
    BY <2>1 DEF OneEmissionPerSignal
  <2>4. FlagTellsIteration'
    <3> SUFFICES ASSUME NEW s \in Signal
                 PROVE  emitting'[s] <=> Iterating(s)'
      BY DEF FlagTellsIteration
    <3>1. CASE s = Top.sig
      BY <1>11, <2>1, <2>2, <3>1 DEF Iterating
    <3>2. CASE s # Top.sig
      <4>1. Iterating(s)' <=> Iterating(s)
        BY <2>1, <3>2 DEF Iterating
      <4>2. QED
        BY <1>11, <3>2, <4>1 DEF FlagTellsIteration
    <3>3. QED
      BY <3>1, <3>2
  <2>5. LoopsWithin'
    <3> SUFFICES ASSUME NEW d \in DOMAIN stack, live'[stack'[d].sig]
                 PROVE  /\ stack'[d].pc = "inside" => stack'[d].pos <= Len(recvs'[stack'[d].sig])
                        /\ stack'[d].pc = "loop" => stack'[d].pos <= Len(recvs'[stack'[d].sig]) + 1
      BY <2>1 DEF LoopsWithin
    <3>1. CASE d = Len(stack)
      BY <1>11, <2>1, <3>1
    <3>2. CASE d # Len(stack)
      <4>1. recvs'[stack[d].sig] = recvs[stack[d].sig] /\ stack'[d] = stack[d]
        BY <1>3, <1>11, <2>1, <2>2, <3>2
      <4>2. QED
        BY <1>11, <4>1 DEF LoopsWithin
    <3>3. QED
      BY <3>1, <3>2
  <2>6. QED
    BY <2>3, <2>4, <2>5
<1>12. ASSUME stack # <<>>
       PROVE  /\ Top \in Frame /\ Top.sig \in Signal /\ Top.pos \in Nat \ {0}
              /\ Top.kept \in Nat /\ recvs[Top.sig] \in Seq(Slot)
              /\ Top.pc # "compact" => emitting[Top.sig]
              /\ Top.pc = "compact" => ~emitting[Top.sig]
              /\ live[Top.sig] =>
                   /\ Top.pc = "inside" => Top.pos <= Len(recvs[Top.sig])
                   /\ Top.pc = "loop" => Top.pos <= Len(recvs[Top.sig]) + 1
              /\ Top = stack[Len(stack)] /\ Len(stack) \in DOMAIN stack
  <2>1. /\ Top \in Frame /\ Top.sig \in Signal /\ recvs[Top.sig] \in Seq(Slot)
        /\ Top = stack[Len(stack)] /\ Len(stack) \in DOMAIN stack
    BY <1>1, <1>12, TopFrame DEF Top, TypeOK
  <2>2. Top.pc # "compact" <=> emitting[Top.sig]
    BY <2>1 DEF FlagTellsIteration, Iterating, OneEmissionPerSignal
  <2>3. QED
    BY <2>1, <2>2 DEF Frame, LoopsWithin
<1>13. CASE Call
  <2>1. /\ stack # <<>> /\ Top.pc = "loop" /\ Top.pos <= Len(recvs[Top.sig])
        /\ MoveTo("inside", Top.pos, Top.kept)
        /\ UNCHANGED <<live, emitting, recvs>>
    BY <1>13 DEF Call, EmitterAt
  <2>2. QED
    BY <1>11, <1>12, <2>1
<1>14. ASSUME NEW d \in 1 .. MaxDepth, Return(d)
       PROVE  OneEmissionPerSignal' /\ FlagTellsIteration' /\ LoopsWithin'
  <2>1. /\ stack # <<>> /\ Top.pc = "inside"
        /\ MoveTo("loop", Top.pos + 1, Top.kept)
        /\ UNCHANGED <<live, emitting, recvs>>
    BY <1>14 DEF Return, EmitterAt
  <2>2. /\ Top.pos + 1 \in Nat \ {0}
        /\ live[Top.sig] => Top.pos + 1 <= Len(recvs[Top.sig]) + 1
    BY <1>12, <2>1
  <2>3. QED
    BY <1>11, <1>12, <2>1, <2>2
<1>15. CASE EndLoop
  <2>1. /\ stack # <<>> /\ Top.pc = "loop" /\ MoveTo("compact", 1, 0)
        /\ emitting' = [emitting EXCEPT ![Top.sig] = FALSE]
        /\ UNCHANGED <<live, recvs>>
    BY <1>15 DEF EndLoop, EmitterAt
  <2>2. \A s \in Signal : emitting'[s] <=> IF s = Top.sig THEN FALSE ELSE emitting[s]
    BY <1>1, <2>1 DEF TypeOK
  <2>3. QED
    BY <1>11, <2>1, <2>2
<1>16. CASE CompactSlot
  <2>1. stack # <<>> /\ Top.pc = "compact" /\ UNCHANGED <<live, emitting>>
    BY <1>16 DEF CompactSlot, EmitterAt
  <2>2. /\ \A t \in Signal : t # Top.sig => recvs'[t] = recvs[t]
        /\ \E k \in {Top.kept, Top.kept + 1} : MoveTo("compact", Top.pos + 1, k)
    BY <1>1, <1>16, CompactSlotCopies
  <2>3. PICK k \in Nat : MoveTo("compact", Top.pos + 1, k)
    BY <1>12, <2>1, <2>2
  <2>4. Top.pos + 1 \in Nat \ {0}
    BY <1>12, <2>1
  <2>5. QED
    BY <1>11, <1>12, <2>1, <2>2, <2>3, <2>4
<1>17. CASE Shrink
  <2>1. /\ stack # <<>> /\ Top.pc = "compact" /\ UNCHANGED <<live, emitting>>
    BY <1>17 DEF Shrink, EmitterAt
  <2>2. /\ Top.sig \in Signal /\ stack' = Front(stack)
        /\ \A t \in Signal : t # Top.sig => recvs'[t] = recvs[t]
    BY <1>1, <1>17, ShrinkCuts
  <2>3. /\ Len(stack) \in DOMAIN stack /\ stack[Len(stack)] = Top
        /\ \A d \in DOMAIN stack' : stack'[d] = stack[d] /\ d # Len(stack)
        /\ \A d \in DOMAIN stack : d # Len(stack) => d \in DOMAIN stack'
        /\ \A d \in DOMAIN stack' : d \in DOMAIN stack
    <3>1. /\ Len(stack) \in Nat \ {0} /\ DOMAIN stack = 1 .. Len(stack)
          /\ stack' \in Seq(Frame) /\ Len(stack') = Len(stack) - 1
          /\ \A d \in 1 .. (Len(stack) - 1) : stack'[d] = stack[d]
      BY <1>1, <2>1, <2>2, TopFrame DEF TypeOK
    <3>2. DOMAIN stack' = 1 .. (Len(stack) - 1)
      BY <3>1
    <3>3. QED
      BY <3>1, <3>2 DEF Top
  <2>4. \A d \in DOMAIN stack' : stack[d].sig # Top.sig /\ stack[d].sig \in Signal
    BY <1>3, <2>3 DEF OneEmissionPerSignal
  <2>5. OneEmissionPerSignal'
    BY <2>3 DEF OneEmissionPerSignal
  <2>6. FlagTellsIteration'
    <3> SUFFICES ASSUME NEW s \in Signal
                 PROVE  emitting'[s] <=> Iterating(s)'
      BY DEF FlagTellsIteration
    <3>1. Iterating(s)' <=> Iterating(s)
      BY <2>1, <2>3 DEF Iterating
    <3>2. QED
      BY <2>1, <3>1 DEF FlagTellsIteration
  <2>7. LoopsWithin'
    <3> SUFFICES ASSUME NEW d \in DOMAIN stack', live'[stack'[d].sig]
                 PROVE  /\ stack'[d].pc = "inside" => stack'[d].pos <= Len(recvs'[stack'[d].sig])
                        /\ stack'[d].pc = "loop" => stack'[d].pos <= Len(recvs'[stack'[d].sig]) + 1
      BY DEF LoopsWithin
    <3>1. /\ d \in DOMAIN stack /\ stack'[d] = stack[d] /\ live[stack[d].sig]
          /\ recvs'[stack[d].sig] = recvs[stack[d].sig]
      BY <2>1, <2>2, <2>3, <2>4
    <3>2. QED
      BY <3>1 DEF LoopsWithin
  <2>8. QED
    BY <2>5, <2>6, <2>7
<1>18. QED
  BY <1>4, <1>6, <1>8, <1>9, <1>10, <1>13, <1>14, <1>15, <1>16, <1>17
     DEF Next, Client, Library

(* The invariant of the refinement holds in the beginning.                 *)
LEMMA ObserverInvInit == Init => ObserverInv
<1> SUFFICES ASSUME Init  PROVE ObserverInv
  OBVIOUS
<1>1. DOMAIN stack = {}
  BY DEF Init
<1>2. TypeInv
  BY TypeInit
<1>3. SubscriptionInv
  <2>1. DeadIsEmpty
    BY DEF Init, DeadIsEmpty
  <2>2. \A s \in Signal : Counted(s) = {}
    BY DEF Init, Counted
  <2>3. SubscriptionConsistent
    BY <2>2, NullAssumption DEF Init, SubscriptionConsistent, Holds
  <2>4. QED
    BY <1>2, <2>1, <2>3 DEF SubscriptionInv
<1>4. OneEmissionPerSignal /\ FlagTellsIteration /\ LoopsWithin
  BY <1>1 DEF Init, OneEmissionPerSignal, FlagTellsIteration, Iterating, LoopsWithin
<1>5. QED
  BY <1>3, <1>4 DEF ObserverInv

-----------------------------------------------------------------------------
(* What the observer sees.                                                 *)

(* The first slot that a frame's round still owes.                         *)
NextSlot(f) == IF f.pc = "inside" THEN f.pos + 1 ELSE f.pos

LiveRound == [sig : Signal, owed : Seq(Slot)]

Compacting == stack # <<>> /\ Top.pc = "compact"

(* The rounds are those of the emissions that do not compact, each with    *)
(* what it owes.                                                           *)
RoundsShape ==
  /\ Len(Rounds) = IF Compacting THEN Len(stack) - 1 ELSE Len(stack)
  /\ Rounds \in Seq(LiveRound)
  /\ \A d \in 1 .. Len(Rounds) :
       /\ d \in 1 .. Len(stack)
       /\ Rounds[d] = [sig |-> stack[d].sig, owed |-> Owed(stack[d])]

(* What is not a hole is a sequence of slots.                              *)
LEMMA LiveType ==
  ASSUME NEW q \in Seq(Slot)
  PROVE  Live(q) \in Seq(Slot)
BY WithoutType DEF Live

(* A frame owes what is not a hole from its next slot on.                  *)
LEMMA OwedRest ==
  ASSUME TypeOK, NEW d \in DOMAIN stack
  PROVE  /\ NextSlot(stack[d]) \in Nat \ {0}
         /\ Owed(stack[d]) = Live(Rest(recvs[stack[d].sig], NextSlot(stack[d])))
         /\ Owed(stack[d]) \in Seq(Slot)
<1>1. /\ stack[d] \in Frame /\ stack[d].pos \in Nat \ {0}
      /\ recvs[stack[d].sig] \in Seq(Slot)
  BY FramesTyped DEF Frame
<1>2. NextSlot(stack[d]) \in Nat \ {0}
  BY <1>1 DEF NextSlot
<1>3. Owed(stack[d]) = Live(Rest(recvs[stack[d].sig], NextSlot(stack[d])))
  BY DEF Owed, Rest, NextSlot
<1>4. Rest(recvs[stack[d].sig], NextSlot(stack[d])) \in Seq(Slot)
  BY <1>1, <1>2, RestSlots
<1>5. QED
  BY <1>2, <1>3, <1>4, LiveType

(* The rounds have the shape above in every state of their types.          *)
LEMMA RoundsShaped == TypeInv => RoundsShape
<1> SUFFICES ASSUME TypeInv  PROVE RoundsShape
  OBVIOUS
<1> DEFINE n == IF Compacting THEN Len(stack) - 1 ELSE Len(stack)
<1>1. TypeOK /\ stack \in Seq(Frame) /\ Len(stack) \in Nat
  BY DEF TypeInv, TypeOK
<1>2. stack # <<>> => Len(stack) \in Nat \ {0}
  BY <1>1, EmptySeq
<1>3. /\ n \in Nat /\ n <= Len(stack)
      /\ Running \in Seq(Frame) /\ Len(Running) = n
      /\ \A d \in 1 .. n : Running[d] = stack[d]
  <2>1. CASE Compacting
    <3>1. /\ Front(stack) \in Seq(Frame) /\ Len(Front(stack)) = Len(stack) - 1
          /\ \A d \in 1 .. (Len(stack) - 1) : Front(stack)[d] = stack[d]
      BY <1>1, <2>1, TopFrame DEF Compacting
    <3>2. Running = Front(stack)
      BY <2>1 DEF Running, Compacting
    <3>3. QED
      BY <1>1, <1>2, <2>1, <3>1, <3>2 DEF Compacting
  <2>2. CASE ~Compacting
    <3>1. Running = stack
      BY <2>2 DEF Running, Compacting
    <3>2. QED
      BY <1>1, <2>2, <3>1
  <2>3. QED
    BY <2>1, <2>2
<1> HIDE DEF n
<1>4. \A d \in 1 .. n : d \in 1 .. Len(stack) /\ d \in DOMAIN stack
  BY <1>1, <1>3
<1>5. DOMAIN Running = 1 .. n
  BY <1>3
<1>6. \A d \in 1 .. n : [sig |-> stack[d].sig, owed |-> Owed(stack[d])] \in LiveRound
  BY <1>1, <1>4, FramesTyped, OwedRest DEF LiveRound
<1>7. Rounds = [d \in 1 .. n |-> [sig |-> stack[d].sig, owed |-> Owed(stack[d])]]
  BY <1>3, <1>5 DEF Rounds
<1>8. Rounds \in [1 .. n -> LiveRound]
  BY <1>6, <1>7
<1>9. Rounds \in Seq(LiveRound) /\ Len(Rounds) = n
  BY <1>3, <1>8
<1>10. QED
  BY <1>4, <1>7, <1>9 DEF RoundsShape, n

(* So they have after a step.                                              *)
LEMMA RoundsShapedNext == TypeInv' => RoundsShape'
BY RoundsShaped, PTL

(* Outside of compactions the subscriptions are the slots but for holes.   *)
LEMMA SubsAtRest ==
  ~Compacting => Subs = [s \in Signal |-> Live(recvs[s])]
BY DEF Subs, Compacting

(* The same after a step.                                                  *)
LEMMA SubsAtRestNext ==
  (~Compacting)' => Subs' = [s \in Signal |-> Live(recvs'[s])]
BY DEF Subs, Compacting, Live

(* During one they are what was kept and what is not passed yet.           *)
LEMMA SubsCompacting ==
  Compacting => Subs = [s \in Signal |->
                          IF s = Top.sig
                          THEN Live(SubSeq(recvs[s], 1, Top.kept) \o Rest(recvs[s], Top.pos))
                          ELSE Live(recvs[s])]
BY DEF Subs, Compacting, Rest

(* The same after a step.                                                  *)
LEMMA SubsCompactingNext ==
  (Compacting => Subs = [s \in Signal |->
                          IF s = Top.sig
                          THEN Live(SubSeq(recvs[s], 1, Top.kept) \o Rest(recvs[s], Top.pos))
                          ELSE Live(recvs[s])])'
BY SubsCompacting, PTL

(* Rounds that owe what they owed are the same rounds.                     *)
LEMMA RoundsSame ==
  ASSUME RoundsShape, RoundsShape', Len(Rounds') = Len(Rounds),
         \A d \in 1 .. Len(Rounds) :
            stack'[d].sig = stack[d].sig /\ Owed(stack[d])' = Owed(stack[d])
  PROVE  Rounds' = Rounds
<1>1. Rounds \in Seq(LiveRound) /\ Rounds' \in Seq(LiveRound')
  BY DEF RoundsShape
<1>2. LiveRound' = LiveRound
  BY DEF LiveRound, Slot
<1>3. \A d \in 1 .. Len(Rounds) : Rounds'[d] = Rounds[d]
  BY DEF RoundsShape
<1>4. QED
  BY <1>1, <1>2, <1>3, SeqEqual

(* The observer leaves elements out as this module does.                   *)
LEMMA ObsWithout ==
  ASSUME NEW q, NEW e
  PROVE  Obs!Without(q, e) = Without(q, e)
BY DEF Obs!Without, Without

(* The first m slots of q.                                                 *)
LEMMA FirstSlots ==
  ASSUME NEW T, NEW q \in Seq(T), NEW m \in Nat, m <= Len(q)
  PROVE  /\ SubSeq(q, 1, m) \in Seq(T) /\ Len(SubSeq(q, 1, m)) = m
         /\ \A i \in 1 .. m : SubSeq(q, 1, m)[i] = q[i]
<1>1. \A i \in 1 .. m : i \in 1 .. Len(q)
  OBVIOUS
<1>2. \A i \in 1 .. m : q[i] \in T
  BY <1>1, ElementOfSeq
<1>3. /\ SubSeq(q, 1, m) \in Seq(T)
      /\ Len(SubSeq(q, 1, m)) = IF 1 <= m THEN m - 1 + 1 ELSE 0
      /\ \A i \in 1 .. (m - 1 + 1) : SubSeq(q, 1, m)[i] = q[1 + i - 1]
  BY <1>2, SubSeqProperties
<1>4. m - 1 + 1 = m /\ (~(1 <= m) => m = 0)
  OBVIOUS
<1>5. \A i \in 1 .. m : 1 + i - 1 = i
  OBVIOUS
<1>6. QED
  BY <1>3, <1>4, <1>5

(* Sequences that agree on their first m slots have the same first m.      *)
LEMMA FirstSame ==
  ASSUME NEW T, NEW p \in Seq(T), NEW q \in Seq(T),
         NEW m \in Nat, m <= Len(p), m <= Len(q), \A i \in 1 .. m : p[i] = q[i]
  PROVE  SubSeq(p, 1, m) = SubSeq(q, 1, m)
<1> DEFINE a == SubSeq(p, 1, m)
           b == SubSeq(q, 1, m)
<1>1. a \in Seq(T) /\ Len(a) = m /\ \A i \in 1 .. m : a[i] = p[i]
  BY FirstSlots
<1>2. b \in Seq(T) /\ Len(b) = m /\ \A i \in 1 .. m : b[i] = q[i]
  BY FirstSlots
<1> HIDE DEF a, b
<1>3. \A i \in 1 .. Len(a) : a[i] = b[i]
  BY <1>1, <1>2
<1>4. a = b
  BY <1>1, <1>2, <1>3, SeqEqual
<1>5. QED
  BY <1>4 DEF a, b

(* Sequences that agree from their k-th slot on have the same rest.        *)
LEMMA RestSame ==
  ASSUME NEW T, NEW p \in Seq(T), NEW q \in Seq(T), Len(p) = Len(q),
         NEW k \in Nat \ {0}, \A i \in 1 .. Len(q) : i >= k => p[i] = q[i]
  PROVE  Rest(p, k) = Rest(q, k)
<1> DEFINE a == Rest(p, k)
           b == Rest(q, k)
           n == Len(q)
<1>1. /\ a \in Seq(T) /\ Len(a) = IF k <= Len(p) THEN Len(p) - k + 1 ELSE 0
      /\ \A i \in 1 .. (Len(p) - k + 1) : a[i] = p[k + i - 1]
  BY RestSlots
<1>2. /\ b \in Seq(T) /\ Len(b) = IF k <= n THEN n - k + 1 ELSE 0
      /\ \A i \in 1 .. (n - k + 1) : b[i] = q[k + i - 1]
  BY RestSlots
<1>3. Len(p) = n /\ n \in Nat
  OBVIOUS
<1> HIDE DEF a, b
<1>4. ASSUME NEW i \in 1 .. Len(a)
      PROVE  a[i] = b[i]
  <2>1. i \in 1 .. (n - k + 1) /\ k + i - 1 \in 1 .. n /\ k + i - 1 >= k
    BY <1>1, <1>3
  <2>2. p[k + i - 1] = q[k + i - 1]
    BY <2>1
  <2>3. QED
    BY <1>1, <1>2, <1>3, <2>1, <2>2
<1>5. a = b
  BY <1>1, <1>2, <1>3, <1>4, SeqEqual
<1>6. QED
  BY <1>5 DEF a, b

(* A sequence is its first m slots and the rest.                           *)
LEMMA FirstAndRest ==
  ASSUME NEW T, NEW q \in Seq(T), NEW m \in Nat, m <= Len(q)
  PROVE  q = SubSeq(q, 1, m) \o Rest(q, m + 1)
<1> DEFINE n == Len(q)
<1>1. n \in Nat /\ 1 \in 1 .. Len(q) + 1 /\ m \in 1 - 1 .. Len(q) /\ n \in m .. Len(q)
  OBVIOUS
<1> HIDE DEF n
<1>2. SubSeq(q, 1, m) \o SubSeq(q, m + 1, n) = SubSeq(q, 1, n)
  BY <1>1, ConcatAdjacentSubSeq
<1>3. SubSeq(q, 1, Len(q)) = q
  BY SubSeqFull
<1>4. QED
  BY <1>2, <1>3 DEF n, Rest

(* What is not a hole, of a slot and what follows it.                      *)
LEMMA LiveConcat ==
  ASSUME NEW p \in Seq(Slot), NEW q \in Seq(Slot)
  PROVE  Live(p \o q) = Live(p) \o Live(q)
BY WithoutConcat DEF Live

(* A slot that is appended counts unless it is a hole.                     *)
LEMMA LiveAppend ==
  ASSUME NEW p \in Seq(Slot), NEW x \in Slot
  PROVE  Live(Append(p, x)) = IF x = NULL THEN Live(p) ELSE Append(Live(p), x)
BY WithoutAppend DEF Live

(* One slot counts unless it is a hole.                                    *)
LEMMA LiveOne ==
  ASSUME NEW x \in Slot
  PROVE  Live(<<x>>) = IF x = NULL THEN <<>> ELSE <<x>>
<1>1. <<>> \in Seq(Slot) /\ Append(<<>>, x) = <<x>> /\ Live(<<>>) = <<>>
  BY WithoutEmpty, EmptySeq DEF Live
<1>2. Live(Append(<<>>, x)) = IF x = NULL THEN Live(<<>>) ELSE Append(Live(<<>>), x)
  BY <1>1, LiveAppend
<1>3. QED
  BY <1>1, <1>2

(* A loop that passes a slot owes it no more.                              *)
LEMMA LiveRest ==
  ASSUME NEW q \in Seq(Slot), NEW k \in 1 .. Len(q)
  PROVE  /\ Rest(q, k + 1) \in Seq(Slot) /\ Live(Rest(q, k + 1)) \in Seq(Slot)
         /\ Live(Rest(q, k)) = IF q[k] = NULL THEN Live(Rest(q, k + 1))
                               ELSE <<q[k]>> \o Live(Rest(q, k + 1))
<1> DEFINE b == Rest(q, k + 1)
           x == q[k]
<1>1. b \in Seq(Slot)
  <2>1. k + 1 \in Nat \ {0}
    OBVIOUS
  <2>2. QED
    BY <2>1, RestSlots
<1>2. x \in Slot /\ <<x>> \in Seq(Slot)
  BY ElementOfSeq
<1>3. Rest(q, k) = <<x>> \o b
  BY RestStep
<1> HIDE DEF x, b
<1>4. Live(<<x>> \o b) = Live(<<x>>) \o Live(b)
  BY <1>1, <1>2, LiveConcat
<1>5. Live(b) \in Seq(Slot) /\ <<>> \o Live(b) = Live(b)
  BY <1>1, LiveType, ConcatEmptySeq
<1>6. Live(<<x>>) = IF x = NULL THEN <<>> ELSE <<x>>
  BY <1>2, LiveOne
<1>7. QED
  BY <1>1, <1>3, <1>4, <1>5, <1>6 DEF x, b

(* A slot that is removed means as little as one that becomes a hole.      *)
LEMMA HoleIsRemoval ==
  ASSUME NEW q \in Seq(Slot), NEW k \in 1 .. Len(q)
  PROVE  Live(RemoveAt(q, k)) = Live([q EXCEPT ![k] = NULL])
<1> DEFINE h == [q EXCEPT ![k] = NULL]
           m == k - 1
           a == SubSeq(q, 1, m)
           b == Rest(q, k + 1)
<1>1. /\ NULL \in Slot /\ h \in Seq(Slot) /\ Len(h) = Len(q)
      /\ \A i \in 1 .. Len(q) : h[i] = IF i = k THEN NULL ELSE q[i]
  BY ExceptSeq DEF Slot
<1>2. RemoveAt(q, k) = a \o b
  BY DEF RemoveAt, Rest
<1>3. /\ m \in Nat /\ m <= Len(q) /\ m + 1 = k
      /\ \A i \in 1 .. m : i \in 1 .. Len(q) /\ i # k
      /\ \A i \in 1 .. Len(q) : i >= k + 1 => i # k
      /\ k \in 1 .. Len(q) /\ k + 1 \in Nat \ {0}
  OBVIOUS
<1> HIDE DEF h, m
<1>4. a = SubSeq(h, 1, m) /\ a \in Seq(Slot)
  BY <1>1, <1>3, FirstSame, FirstSlots
<1>5. b = Rest(h, k + 1) /\ b \in Seq(Slot)
  <2> DEFINE n == k + 1
  <2>1. n \in Nat \ {0} /\ \A i \in 1 .. Len(q) : i >= n => h[i] = q[i]
    BY <1>1, <1>3
  <2> HIDE DEF n
  <2>2. Rest(h, n) = Rest(q, n) /\ Rest(q, n) \in Seq(Slot)
    <3>1. /\ h \in Seq(Slot) /\ q \in Seq(Slot) /\ Len(h) = Len(q) /\ n \in Nat \ {0}
          /\ \A i \in 1 .. Len(q) : i >= n => h[i] = q[i]
      BY <1>1, <2>1
    <3>2. Rest(h, n) = Rest(q, n)
      BY ONLY <3>1, RestSame
    <3>3. QED
      BY ONLY <3>1, <3>2, RestSlots
  <2>3. QED
    BY <2>2 DEF n
<1> HIDE DEF a, b
<1>6. h = a \o Rest(h, k)
  BY <1>1, <1>3, <1>4, FirstAndRest
<1>7. Live(Rest(h, k)) = Live(b) /\ Rest(h, k) \in Seq(Slot)
  <2>1. h[k] = NULL
    BY <1>1, <1>3
  <2>2. QED
    <3>1. k \in 1 .. Len(h) /\ k \in Nat \ {0}
      BY <1>1, <1>3
    <3>2. Live(Rest(h, k)) = Live(Rest(h, k + 1))
      BY <1>1, <2>1, <3>1, LiveRest
    <3>3. Rest(h, k) \in Seq(Slot)
      BY <1>1, <3>1, RestSlots
    <3>4. QED
      BY <1>5, <3>2, <3>3
<1>8. Live(h) = Live(a) \o Live(Rest(h, k))
  BY <1>4, <1>6, <1>7, LiveConcat
<1>9. Live(a \o b) = Live(a) \o Live(b)
  BY <1>4, <1>5, LiveConcat
<1>10. QED
  BY <1>2, <1>7, <1>8, <1>9 DEF h

(* An unset takes the receiver out of what the slots mean, and out of what *)
(* is left of them to a loop.                                              *)
LEMMA UnsetLeaves ==
  ASSUME TypeOK, Agreed, NEW r \in Recv, NEW s \in Signal
  PROVE  /\ Unset(r)[s] \in Seq(Slot)
         /\ emitting[s] => Unset(r)[s] = Holed(recvs[s], r, NULL)
         /\ Live(Unset(r)[s]) = Without(Live(recvs[s]), r)
<1> DEFINE q == recvs[s]
           k == FirstSlot(q, r)
<1>1. /\ q \in Seq(Slot) /\ Distinct(q) /\ Unset(r)[s] \in Seq(Slot)
      /\ r # NULL /\ r \in Slot /\ NULL \in Slot
  BY UnsetType, NullAssumption DEF TypeOK, Agreed, Slot
<1>2. Live(Holed(q, r, NULL)) = Without(Live(q), r)
  BY <1>1, WithoutHoles DEF Live
<1>3. CASE attached[r] # s
  <2>1. Unset(r)[s] = q
    BY <1>3 DEF Unset, TypeOK
  <2>2. ~Contains(q, r)
    BY <1>3 DEF Agreed
  <2>3. \A i \in 1 .. Len(q) : q[i] # r
    BY <1>1, <2>2 DEF Contains
  <2>4. Holed(q, r, NULL) = q
    BY <1>1, <2>3, HoledKeeps
  <2>5. QED
    BY <1>1, <1>2, <2>1, <2>4
<1>4. CASE attached[r] = s
  <2>1. Contains(q, r) /\ s # NULL
    BY <1>4, NullAssumption DEF Agreed
  <2>2. k \in 1 .. Len(q) /\ q[k] = r
    BY <1>1, <2>1, FirstSlotFound
  <2>3. Unset(r)[s] = IF emitting[s] THEN [q EXCEPT ![k] = NULL] ELSE RemoveAt(q, k)
    BY <1>4, <2>1 DEF Unset, TypeOK
  <2> HIDE DEF q, k
  <2>4. \A i \in 1 .. Len(q) : q[i] = r <=> i = k
    BY <1>1, <2>2 DEF Distinct
  <2>5. Holed(q, r, NULL) = [q EXCEPT ![k] = NULL]
    <3>1. /\ [q EXCEPT ![k] = NULL] \in Seq(Slot)
          /\ Len([q EXCEPT ![k] = NULL]) = Len(q)
          /\ \A i \in 1 .. Len(q) : [q EXCEPT ![k] = NULL][i] = IF i = k THEN NULL ELSE q[i]
      BY <1>1, <2>2, ExceptSeq
    <3>2. /\ Holed(q, r, NULL) \in Seq(Slot) /\ Len(Holed(q, r, NULL)) = Len(q)
          /\ \A i \in 1 .. Len(q) :
               Holed(q, r, NULL)[i] = IF q[i] = r THEN NULL ELSE q[i]
      BY <1>1, HoledType
    <3> DEFINE a == Holed(q, r, NULL)
               b == [q EXCEPT ![k] = NULL]
    <3> HIDE DEF a, b
    <3>3. \A i \in 1 .. Len(a) : a[i] = b[i]
      BY <2>4, <3>1, <3>2 DEF a, b
    <3>4. a = b
      BY <3>1, <3>2, <3>3, SeqEqual DEF a, b
    <3>5. QED
      BY <3>4 DEF a, b
  <2>6. CASE emitting[s]
    BY <1>1, <1>2, <2>3, <2>5, <2>6 DEF q
  <2>7. CASE ~emitting[s]
    <3>1. Live(RemoveAt(q, k)) = Live([q EXCEPT ![k] = NULL])
      BY <1>1, <2>2, HoleIsRemoval
    <3>2. QED
      BY <1>1, <1>2, <2>3, <2>5, <2>7, <3>1 DEF q
  <2>8. QED
    BY <2>6, <2>7
<1>5. QED
  BY <1>3, <1>4

-----------------------------------------------------------------------------
(* Each step is one of the observer's, or none.                            *)

(* The rounds are told by their number and by what each of them owes.      *)
LEMMA RoundsAre ==
  ASSUME RoundsShape', NEW f \in Seq(LiveRound), Len(Rounds') = Len(f),
         \A d \in 1 .. Len(f) :
            f[d] = [sig |-> stack'[d].sig, owed |-> Owed(stack[d])']
  PROVE  Rounds' = f
<1>1. Rounds' \in Seq(LiveRound)
  BY DEF RoundsShape, LiveRound, Slot
<1>2. \A d \in 1 .. Len(f) : Rounds'[d] = f[d]
  BY DEF RoundsShape
<1>3. QED
  BY <1>1, <1>2, SeqEqual

(* While a client has the control, every frame is inside a callback, its   *)
(* signal's flag is set and no compaction runs.                            *)
LEMMA ClientRounds ==
  ASSUME ObserverInv, ClientTurn
  PROVE  /\ ~Compacting /\ Len(Rounds) = Len(stack) /\ Len(stack) \in Nat
         /\ TypeOK /\ TypeInv /\ Agreed
         /\ \A d \in DOMAIN stack :
              /\ stack[d].pc = "inside" /\ emitting[stack[d].sig]
              /\ stack[d].sig \in Signal
<1>1. TypeInv /\ TypeOK /\ SubscriptionConsistent /\ FlagTellsIteration
  BY DEF ObserverInv, SubscriptionInv, TypeInv
<1>2. ~Compacting
  BY DEF ClientTurn, Compacting
<1>3. RoundsShape
  BY <1>1, RoundsShaped
<1>4. \A d \in DOMAIN stack : stack[d].pc = "inside" /\ stack[d].sig \in Signal
  BY <1>1, ClientTurnInside, FramesTyped
<1>5. NoCompaction
  BY <1>4 DEF NoCompaction
<1>6. Agreed
  BY <1>1, <1>5, AllCount
<1>7. \A d \in DOMAIN stack : emitting[stack[d].sig]
  BY <1>1, <1>4 DEF FlagTellsIteration, Iterating
<1>8. Len(stack) \in Nat
  BY <1>1 DEF TypeOK
<1>9. QED
  BY <1>1, <1>2, <1>3, <1>4, <1>6, <1>7, <1>8 DEF RoundsShape

(* Leaving the subscriptions of a signal, and what its loops owe, and      *)
(* joining them at the end.                                                *)
LEMMA RestMoves ==
  ASSUME TypeOK, Agreed, NEW r \in Recv, NEW s \in Signal, emitting[s],
         NEW k \in Nat \ {0}
  PROVE  /\ Live(Rest(Unset(r)[s], k)) = Without(Live(Rest(recvs[s], k)), r)
         /\ k <= Len(recvs[s]) + 1 =>
              Live(Rest(Append(Unset(r)[s], r), k))
                = Append(Without(Live(Rest(recvs[s], k)), r), r)
<1> DEFINE q == recvs[s]
           u == Unset(r)[s]
<1>1. q \in Seq(Slot) /\ r \in Slot /\ NULL \in Slot /\ r # NULL
  BY NullAssumption DEF TypeOK, Slot
<1>2. u = Holed(q, r, NULL)
  BY UnsetLeaves
<1> HIDE DEF q, u
<1>4. u \in Seq(Slot) /\ Len(u) = Len(q)
  BY <1>1, <1>2, HoledType
<1>5. Rest(q, k) \in Seq(Slot) /\ Rest(u, k) \in Seq(Slot)
  BY <1>1, <1>4, RestSlots
<1>6. Rest(u, k) = Holed(Rest(q, k), r, NULL)
  BY <1>1, <1>2, RestHoled
<1>7. Live(Rest(u, k)) = Without(Live(Rest(q, k)), r)
  BY <1>1, <1>5, <1>6, WithoutHoles DEF Live
<1>8. ASSUME k <= Len(q) + 1
      PROVE  Rest(Append(u, r), k) = Append(Rest(u, k), r)
  <2>1. k \in 1 .. Len(u) + 1
    BY <1>1, <1>4, <1>8
  <2>2. QED
    BY <1>1, <1>4, <2>1, RestAppend
<1>9. Live(Append(Rest(u, k), r)) = Append(Live(Rest(u, k)), r)
  BY <1>1, <1>5, LiveAppend
<1>10. QED
  BY <1>7, <1>8, <1>9 DEF q, u

(* What a subscription or an unsubscription does to what the observer sees. *)
LEMMA SubscriptionsMove ==
  ASSUME ObserverInv, TypeInv', ClientTurn, UNCHANGED stack,
         NEW r \in Recv, NEW J \in SUBSET Signal, \A t \in J : live[t],
         recvs' = [t \in Signal |->
                     IF t \in J THEN Append(Unset(r)[t], r) ELSE Unset(r)[t]]
  PROVE  /\ Subs' = [t \in Signal |-> Obs!Moved(Subs[t], r, t \in J)]
         /\ Rounds' = [d \in DOMAIN Rounds |->
                         [sig |-> Rounds[d].sig,
                          owed |-> Obs!Moved(Rounds[d].owed, r,
                                             Rounds[d].sig \in J)]]
<1>1. /\ ~Compacting /\ Len(Rounds) = Len(stack) /\ Len(stack) \in Nat
      /\ TypeOK /\ TypeInv /\ Agreed
      /\ \A d \in DOMAIN stack :
           /\ stack[d].pc = "inside" /\ emitting[stack[d].sig]
           /\ stack[d].sig \in Signal
  BY ClientRounds
<1>2. (~Compacting)' /\ RoundsShape /\ RoundsShape'
  BY <1>1, RoundsShaped, RoundsShapedNext DEF Compacting, Top
<1>3. \A q, b : Obs!Moved(q, r, b) = IF b THEN Append(Without(q, r), r) ELSE Without(q, r)
  BY ObsWithout DEF Obs!Moved
<1>4. r \in Slot /\ r # NULL
  BY NullAssumption DEF Slot
<1>5. \A t \in Signal : /\ Unset(r)[t] \in Seq(Slot)
                        /\ Live(Unset(r)[t]) = Without(Live(recvs[t]), r)
  BY <1>1, UnsetLeaves
<1>6. Subs' = [t \in Signal |-> Obs!Moved(Subs[t], r, t \in J)]
  <2>1. Subs = [t \in Signal |-> Live(recvs[t])] /\ Subs' = [t \in Signal |-> Live(recvs'[t])]
    BY <1>1, <1>2, SubsAtRest, SubsAtRestNext
  <2>2. ASSUME NEW t \in Signal
        PROVE  Live(recvs'[t]) = Obs!Moved(Live(recvs[t]), r, t \in J)
    <3>1. Live(Append(Unset(r)[t], r)) = Append(Live(Unset(r)[t]), r)
      BY <1>4, <1>5, LiveAppend
    <3>2. QED
      BY <1>3, <1>5, <3>1
  <2>3. QED
    BY <2>1, <2>2
<1>7. Rounds' = [d \in DOMAIN Rounds |->
                   [sig |-> Rounds[d].sig,
                    owed |-> Obs!Moved(Rounds[d].owed, r, Rounds[d].sig \in J)]]
  <2>1. /\ Rounds \in Seq(LiveRound) /\ DOMAIN Rounds = 1 .. Len(stack)
        /\ Rounds' \in Seq(LiveRound') /\ DOMAIN Rounds' = 1 .. Len(stack)
    <3>1. Len(Rounds') = Len(stack)
      BY <1>2 DEF RoundsShape
    <3>2. QED
      BY <1>1, <1>2, <3>1 DEF RoundsShape
  <2>2. ASSUME NEW d \in 1 .. Len(stack)
        PROVE  Rounds'[d] = [sig |-> Rounds[d].sig,
                             owed |-> Obs!Moved(Rounds[d].owed, r,
                                                Rounds[d].sig \in J)]
    <3> DEFINE f == stack[d]
               k == f.pos + 1
    <3>1. /\ d \in DOMAIN stack /\ f \in Frame /\ f.pc = "inside"
          /\ f.sig \in Signal /\ emitting[f.sig] /\ k \in Nat \ {0}
          /\ recvs[f.sig] \in Seq(Slot)
      BY <1>1, FramesTyped DEF Frame
    <3>2. /\ Rounds[d] = [sig |-> f.sig, owed |-> Owed(f)]
          /\ Rounds'[d] = [sig |-> f.sig, owed |-> Owed(f)']
      BY <1>1, <1>2, <2>1 DEF RoundsShape
    <3>3. /\ Owed(f) = Live(Rest(recvs[f.sig], k))
          /\ Owed(f)' = Live(Rest(recvs'[f.sig], k))
      BY <3>1 DEF Owed, Rest, Live
    <3>4. live[f.sig] => k <= Len(recvs[f.sig]) + 1
      <4>1. live[f.sig] => f.pos <= Len(recvs[f.sig])
        BY <3>1 DEF ObserverInv, LoopsWithin
      <4>2. f.pos \in Nat /\ Len(recvs[f.sig]) \in Nat
        BY <3>1 DEF Frame
      <4>3. QED
        BY <4>1, <4>2
    <3> HIDE DEF f, k
    <3>5. /\ Live(Rest(Unset(r)[f.sig], k)) = Without(Live(Rest(recvs[f.sig], k)), r)
          /\ k <= Len(recvs[f.sig]) + 1 =>
               Live(Rest(Append(Unset(r)[f.sig], r), k))
                 = Append(Without(Live(Rest(recvs[f.sig], k)), r), r)
      BY <1>1, <3>1, RestMoves
    <3>6. recvs'[f.sig] = IF f.sig \in J THEN Append(Unset(r)[f.sig], r)
                          ELSE Unset(r)[f.sig]
      BY <3>1
    <3>7. Owed(f)' = Obs!Moved(Owed(f), r, f.sig \in J)
      BY <1>3, <3>3, <3>4, <3>5, <3>6
    <3>8. QED
      BY <3>2, <3>7
  <2>3. QED
    BY <2>1, <2>2
<1>8. QED
  BY <1>6, <1>7

(* A frame that stays where it is, over slots that stay, owes what it did. *)
LEMMA OwedSame ==
  ASSUME NEW d, stack'[d] = stack[d], recvs'[stack[d].sig] = recvs[stack[d].sig]
  PROVE  Owed(stack[d])' = Owed(stack[d])
BY DEF Owed, Live

(* Where stack and slots stay, the observer sees nothing.                  *)
LEMMA SeesTheSame ==
  ASSUME UNCHANGED <<stack, recvs>>
  PROVE  Subs' = Subs /\ Rounds' = Rounds
BY DEF Subs, Rounds, Running, Owed, Live, Top

(* A deinitialised signal has no subscriptions, and owes nothing.          *)
LEMMA DeinitDissolves ==
  ASSUME ObserverInv, TypeInv', NEW s \in Signal, Deinit(s)
  PROVE  Obs!Dissolve(s)
<1>1. /\ ClientTurn /\ UNCHANGED stack /\ recvs' = [recvs EXCEPT ![s] = <<>>]
  BY DEF Deinit, MayDeinit
<1>2. /\ ~Compacting /\ Len(Rounds) = Len(stack) /\ Len(stack) \in Nat
      /\ TypeOK /\ TypeInv
      /\ \A d \in DOMAIN stack : stack[d].pc = "inside" /\ stack[d].sig \in Signal
  BY <1>1, ClientRounds
<1>3. (~Compacting)' /\ RoundsShape /\ RoundsShape'
  BY <1>1, <1>2, RoundsShaped, RoundsShapedNext DEF Compacting, Top
<1>4. <<>> \in Seq(Slot) /\ Len(<<>>) = 0 /\ Live(<<>>) = <<>>
  BY WithoutEmpty, EmptySeq DEF Live
<1>5. \A t \in Signal : recvs'[t] = IF t = s THEN <<>> ELSE recvs[t]
  BY <1>1, <1>2 DEF TypeOK
<1>6. Subs' = [Subs EXCEPT ![s] = <<>>]
  <2>1. Subs = [t \in Signal |-> Live(recvs[t])] /\ Subs' = [t \in Signal |-> Live(recvs'[t])]
    BY <1>2, <1>3, SubsAtRest, SubsAtRestNext
  <2>2. QED
    BY <1>4, <1>5, <2>1
<1>7. Rounds' = [d \in DOMAIN Rounds |->
                   [sig |-> Rounds[d].sig,
                    owed |-> IF Rounds[d].sig = s THEN <<>> ELSE Rounds[d].owed]]
  <2>1. /\ Rounds \in Seq(LiveRound) /\ DOMAIN Rounds = 1 .. Len(stack)
        /\ Rounds' \in Seq(LiveRound') /\ DOMAIN Rounds' = 1 .. Len(stack)
    <3>1. Len(Rounds') = Len(stack)
      BY <1>1, <1>3 DEF RoundsShape
    <3>2. QED
      BY <1>2, <1>3, <3>1 DEF RoundsShape
  <2>2. ASSUME NEW d \in 1 .. Len(stack)
        PROVE  Rounds'[d] = [sig |-> Rounds[d].sig,
                             owed |-> IF Rounds[d].sig = s THEN <<>> ELSE Rounds[d].owed]
    <3> DEFINE f == stack[d]
               k == f.pos + 1
    <3>1. /\ d \in DOMAIN stack /\ f \in Frame /\ f.pc = "inside"
          /\ f.sig \in Signal /\ k \in Nat \ {0} /\ stack' = stack
      BY <1>1, <1>2, FramesTyped DEF Frame
    <3>2. /\ Rounds[d] = [sig |-> f.sig, owed |-> Owed(f)]
          /\ Rounds'[d] = [sig |-> f.sig, owed |-> Owed(f)']
      BY <1>2, <1>3, <2>1, <3>1 DEF RoundsShape
    <3>3. Owed(f)' = Live(Rest(recvs'[f.sig], k))
      BY <3>1 DEF Owed, Rest, Live
    <3>4. f.sig # s => Owed(f)' = Owed(f)
      BY <1>5, <3>1, OwedSame
    <3> HIDE DEF f, k
    <3>5. Rest(<<>>, k) = <<>>
      <4> DEFINE q == <<>>
      <4>1. q \in Seq(Slot) /\ Len(q) = 0 /\ k > 0
        BY <1>4, <3>1
      <4> HIDE DEF q
      <4>2. k > Len(q)
        BY <4>1
      <4>3. Rest(q, k) = <<>>
        BY <3>1, <4>1, <4>2, RestSlots
      <4>4. QED
        BY <4>3 DEF q
    <3>6. f.sig = s => Owed(f)' = <<>>
      BY <1>4, <1>5, <3>1, <3>3, <3>5
    <3>7. QED
      BY <3>2, <3>4, <3>6
  <2>3. QED
    BY <2>1, <2>2
<1>8. QED
  BY <1>6, <1>7 DEF Obs!Dissolve

(* An emission that starts owes a call to every receiver.                  *)
LEMMA EmitBegins ==
  ASSUME ObserverInv, TypeInv', NEW s \in Signal, Emit(s)
  PROVE  Obs!Begin(s)
<1> DEFINE g == [sig |-> s, pc |-> "loop", pos |-> 1, kept |-> 0]
<1>0. PICK n : n = Len(stack)
  OBVIOUS
<1>1. ClientTurn /\ stack' = Append(stack, g) /\ recvs' = recvs
  BY DEF Emit
<1>2. ~Compacting /\ Len(Rounds) = n /\ n \in Nat /\ TypeOK /\ TypeInv
  BY <1>0, <1>1, ClientRounds
<1>3. /\ stack' \in Seq(Frame) /\ Len(stack') = n + 1 /\ stack'[n + 1] = g
      /\ \A d \in 1 .. n : stack'[d] = stack[d]
  <2>1. stack \in Seq(Frame) /\ g \in Frame
    BY <1>2 DEF TypeOK, Frame
  <2> HIDE DEF g
  <2>2. QED
    BY <1>0, <1>1, <2>1, AppendProperties
<1>4. (~Compacting)' /\ RoundsShape /\ RoundsShape' /\ Len(Rounds') = n + 1
  <2>1. (~Compacting)'
    BY <1>3 DEF Compacting, Top
  <2>2. RoundsShape /\ RoundsShape'
    BY <1>2, RoundsShaped, RoundsShapedNext
  <2>3. QED
    BY <1>3, <2>1, <2>2 DEF RoundsShape
<1>5. Subs = [t \in Signal |-> Live(recvs[t])] /\ Subs' = Subs
  BY <1>1, <1>2, <1>4, SubsAtRest, SubsAtRestNext
<1>6. \A d \in 1 .. n : Owed(stack[d])' = Owed(stack[d])
  BY <1>1, <1>3, OwedSame
<1>7. Owed(stack[n + 1])' = Subs[s]
  <2>1. recvs[s] \in Seq(Slot) /\ Rest(recvs[s], 1) = recvs[s]
    BY <1>2, RestAll DEF TypeOK
  <2>2. Owed(stack[n + 1])' = Live(Rest(recvs[s], 1))
    BY <1>1, <1>3 DEF Owed, Rest, Live
  <2>3. QED
    BY <1>5, <2>1, <2>2
<1> DEFINE round == [sig |-> s, owed |-> Subs[s]]
           f == Append(Rounds, round)
<1>8. /\ f \in Seq(LiveRound) /\ Len(f) = n + 1 /\ f[n + 1] = round
      /\ \A d \in 1 .. n : f[d] = Rounds[d]
  <2>1. Rounds \in Seq(LiveRound) /\ round \in LiveRound
    <3>1. Subs[s] \in Seq(Slot)
      BY <1>2, <1>5, LiveType DEF TypeOK
    <3>2. QED
      BY <1>4, <3>1 DEF RoundsShape, LiveRound
  <2> HIDE DEF round
  <2>2. QED
    BY <1>2, <2>1, AppendProperties
<1> HIDE DEF f, g
<1>9. ASSUME NEW d \in 1 .. (n + 1)
      PROVE  f[d] = [sig |-> stack'[d].sig, owed |-> Owed(stack[d])']
  <2>1. CASE d = n + 1
    BY <1>3, <1>7, <1>8, <2>1 DEF g
  <2>2. CASE d # n + 1
    <3>1. d \in 1 .. n
      BY <1>2, <2>2
    <3>2. QED
      BY <1>2, <1>3, <1>4, <1>6, <1>8, <3>1 DEF RoundsShape
  <2>3. QED
    BY <2>1, <2>2
<1>10. Rounds' = f
  BY <1>4, <1>8, <1>9, RoundsAre
<1>11. QED
  BY <1>5, <1>10 DEF Obs!Begin, f

(* What a round is when its emission is the innermost one and compacts     *)
(* nothing: the last, with what is owed from the loop's next slot on.      *)
LEMMA TopRound ==
  ASSUME TypeInv, stack # <<>>, ~Compacting
  PROVE  /\ RoundsShape /\ Rounds \in Seq(LiveRound) /\ Rounds # <<>>
         /\ Len(Rounds) = Len(stack) /\ Len(stack) \in Nat \ {0}
         /\ Obs!Last(Rounds) = [sig |-> Top.sig, owed |-> Owed(Top)]
         /\ Obs!Front(Rounds) \in Seq(LiveRound)
         /\ Len(Obs!Front(Rounds)) = Len(stack) - 1
         /\ \A d \in 1 .. (Len(stack) - 1) : Obs!Front(Rounds)[d] = Rounds[d]
<1>1. RoundsShape /\ Len(Rounds) = Len(stack) /\ Rounds \in Seq(LiveRound)
  BY RoundsShaped DEF RoundsShape
<1>2. Len(stack) \in Nat \ {0}
  BY TopFrame DEF TypeInv
<1>3. Rounds # <<>>
  BY <1>1, <1>2, EmptySeq
<1>4. Obs!Last(Rounds) = [sig |-> Top.sig, owed |-> Owed(Top)]
  BY <1>1, <1>2 DEF Obs!Last, RoundsShape, Top
<1> DEFINE n == Len(stack) - 1
<1>5. n \in Nat /\ n <= Len(Rounds)
  BY <1>1, <1>2
<1> HIDE DEF n
<1>6. /\ SubSeq(Rounds, 1, n) \in Seq(LiveRound) /\ Len(SubSeq(Rounds, 1, n)) = n
      /\ \A d \in 1 .. n : SubSeq(Rounds, 1, n)[d] = Rounds[d]
  BY <1>1, <1>5, FirstSlots
<1>7. Obs!Front(Rounds) = SubSeq(Rounds, 1, n)
  BY <1>1 DEF Obs!Front, n
<1>8. QED
  BY <1>1, <1>2, <1>3, <1>4, <1>6, <1>7 DEF n

(* A step of the innermost emission that leaves the slots leaves what the  *)
(* others owe.                                                             *)
LEMMA OthersOwe ==
  ASSUME TypeInv, stack # <<>>,
         NEW pc \in {"loop", "inside", "compact"}, NEW pos \in Nat \ {0}, NEW kept \in Nat,
         MoveTo(pc, pos, kept),
         \A d \in DOMAIN stack : d # Len(stack) => recvs'[stack[d].sig] = recvs[stack[d].sig]
  PROVE  \A d \in 1 .. (Len(stack) - 1) :
            d \in 1 .. Len(stack) /\ stack'[d] = stack[d] /\ Owed(stack[d])' = Owed(stack[d])
<1>1. \A d \in DOMAIN stack : d # Len(stack) => stack'[d] = stack[d]
  BY TopMovesOnly
<1>2. \A d \in 1 .. (Len(stack) - 1) : d \in DOMAIN stack /\ d # Len(stack)
  BY DEF TypeInv, TypeOK
<1>3. QED
  BY <1>1, <1>2, OwedSame DEF TypeInv, TypeOK

(* The call of a slot is the call that the round owes first.               *)
LEMMA CallDelivers ==
  ASSUME ObserverInv, TypeInv', Call
  PROVE  Obs!Deliver
<1> DEFINE q == recvs[Top.sig]
           k == Top.pos
<1>1. /\ TypeInv /\ TypeOK /\ stack # <<>> /\ Top.pc = "loop" /\ k <= Len(q)
      /\ q[k] # NULL /\ MoveTo("inside", k, Top.kept) /\ recvs' = recvs
  BY DEF ObserverInv, SubscriptionInv, TypeInv, Call, EmitterAt
<1>2. /\ Top \in Frame /\ k \in Nat \ {0} /\ Top.kept \in Nat /\ q \in Seq(Slot)
      /\ Top.sig \in Signal /\ k \in 1 .. Len(q)
  BY <1>1, TopFrame DEF Frame
<1>3. PICK n : n = Len(stack) - 1
  OBVIOUS
<1>4. /\ ~Compacting /\ RoundsShape /\ Rounds \in Seq(LiveRound) /\ Rounds # <<>>
      /\ Len(Rounds) = n + 1 /\ n \in Nat /\ n + 1 = Len(stack)
      /\ Obs!Last(Rounds) = [sig |-> Top.sig, owed |-> Owed(Top)]
      /\ Obs!Front(Rounds) \in Seq(LiveRound)
      /\ Len(Obs!Front(Rounds)) = n
      /\ \A d \in 1 .. n : Obs!Front(Rounds)[d] = Rounds[d]
  <2>1. ~Compacting
    BY <1>1 DEF Compacting
  <2>2. QED
    BY <1>1, <1>3, <2>1, TopRound
<1>5. /\ Len(stack') = n + 1 /\ stack[n + 1] = Top
      /\ stack'[n + 1] = [sig |-> Top.sig, pc |-> "inside", pos |-> k, kept |-> Top.kept]
      /\ (~Compacting)'
  <2>1. /\ Len(stack') = Len(stack) /\ stack[Len(stack)] = Top
        /\ stack'[Len(stack)] = [sig |-> Top.sig, pc |-> "inside", pos |-> k, kept |-> Top.kept]
    BY <1>1, <1>2, TopMovesOnly
  <2>2. (~Compacting)'
    BY <2>1 DEF Compacting, Top
  <2>3. QED
    BY <1>4, <2>1, <2>2
<1>6. \A d \in 1 .. n : d \in 1 .. (n + 1) /\ stack'[d] = stack[d]
                        /\ Owed(stack[d])' = Owed(stack[d])
  BY <1>1, <1>2, <1>3, <1>4, OthersOwe
<1>7. RoundsShape' /\ Len(Rounds') = n + 1
  BY <1>5, RoundsShapedNext DEF RoundsShape
<1>8. /\ Owed(Top) = <<q[k]>> \o Live(Rest(q, k + 1))
      /\ Owed(stack[n + 1])' = Live(Rest(q, k + 1))
      /\ Live(Rest(q, k + 1)) \in Seq(Slot)
      /\ q[k] \in Slot
  <2>1. Owed(Top) = Live(Rest(q, k))
    BY <1>1 DEF Owed, Rest
  <2>2. Owed(stack[n + 1])' = Live(Rest(q, k + 1))
    BY <1>1, <1>5 DEF Owed, Rest, Live
  <2> HIDE DEF q, k
  <2>3. QED
    BY <1>1, <1>2, <2>1, <2>2, LiveRest, ElementOfSeq
<1> DEFINE b == Live(Rest(q, k + 1))
<1>9. Owed(Top) # <<>> /\ Tail(Owed(Top)) = b
  <2> DEFINE x == q[k]
  <2>1. x \in Slot /\ b \in Seq(Slot) /\ Owed(Top) = <<x>> \o b
    BY <1>8
  <2> HIDE DEF x, b
  <2> DEFINE c == <<x>> \o b
  <2>2. /\ c \in Seq(Slot) /\ Len(c) = Len(b) + 1 /\ Len(b) \in Nat
        /\ \A i \in 1 .. Len(b) : c[i + 1] = b[i]
    BY <2>1, ConcatProperties
  <2> HIDE DEF c
  <2>3. c # <<>>
    BY <2>2, EmptySeq
  <2>4. /\ Tail(c) \in Seq(Slot) /\ Len(Tail(c)) = Len(b)
        /\ \A i \in 1 .. Len(b) : Tail(c)[i] = b[i]
    BY <2>2, <2>3, HeadTailProperties
  <2>5. Tail(c) = b
    BY <2>1, <2>4, SeqEqual
  <2>6. QED
    BY <2>1, <2>3, <2>5 DEF c
<1> DEFINE round == [sig |-> Top.sig, owed |-> b]
           f == Append(Obs!Front(Rounds), round)
<1>10. /\ f \in Seq(LiveRound) /\ Len(f) = n + 1 /\ f[n + 1] = round
       /\ \A d \in 1 .. n : f[d] = Rounds[d]
  <2>1. round \in LiveRound
    BY <1>2, <1>8 DEF LiveRound
  <2> HIDE DEF round
  <2> DEFINE e == Obs!Front(Rounds)
  <2>2. /\ e \in Seq(LiveRound) /\ Len(e) = n /\ \A d \in 1 .. n : e[d] = Rounds[d]
    BY <1>4
  <2> HIDE DEF e
  <2>3. /\ Append(e, round) \in Seq(LiveRound) /\ Len(Append(e, round)) = Len(e) + 1
        /\ Append(e, round)[Len(e) + 1] = round
        /\ \A d \in 1 .. Len(e) : Append(e, round)[d] = e[d]
    BY <2>1, <2>2, AppendProperties
  <2>4. QED
    BY <2>2, <2>3 DEF e
<1> HIDE DEF f
<1>11. ASSUME NEW d \in 1 .. (n + 1)
       PROVE  f[d] = [sig |-> stack'[d].sig, owed |-> Owed(stack[d])']
  <2>1. CASE d = n + 1
    BY <1>5, <1>8, <1>10, <2>1
  <2>2. CASE d # n + 1
    <3>1. d \in 1 .. n
      BY <1>4, <2>2
    <3>2. QED
      BY <1>4, <1>6, <1>10, <3>1 DEF RoundsShape
  <2>3. QED
    BY <2>1, <2>2
<1>12. Rounds' = f
  BY <1>7, <1>10, <1>11, RoundsAre
<1>13. Subs' = Subs
  BY <1>1, <1>4, <1>5, SubsAtRest, SubsAtRestNext
<1>14. QED
  <2>1. /\ Obs!Last(Rounds).sig = Top.sig /\ Obs!Last(Rounds).owed = Owed(Top)
    BY <1>4
  <2> HIDE DEF b
  <2>2. /\ Obs!Last(Rounds).owed # <<>>
        /\ [sig |-> Obs!Last(Rounds).sig, owed |-> Tail(Obs!Last(Rounds).owed)] = round
    BY <1>9, <2>1
  <2>3. QED
    BY ONLY <1>4, <1>12, <1>13, <2>2 DEF Obs!Deliver, f

(* A callback that returns leaves what is owed.                            *)
LEMMA ReturnStutters ==
  ASSUME ObserverInv, TypeInv', NEW c, Return(c)
  PROVE  Subs' = Subs /\ Rounds' = Rounds
<1>1. /\ TypeInv /\ TypeOK /\ stack # <<>> /\ Top.pc = "inside"
      /\ MoveTo("loop", Top.pos + 1, Top.kept) /\ recvs' = recvs
  BY DEF ObserverInv, SubscriptionInv, TypeInv, Return, EmitterAt
<1>2. Top \in Frame /\ Top.pos + 1 \in Nat \ {0} /\ Top.kept \in Nat /\ Top.sig \in Signal
  BY <1>1, TopFrame DEF Frame
<1>3. PICK n : n = Len(stack)
  OBVIOUS
<1>4. /\ Len(stack') = n /\ n \in Nat \ {0} /\ stack[n] = Top
      /\ stack'[n] = [sig |-> Top.sig, pc |-> "loop", pos |-> Top.pos + 1, kept |-> Top.kept]
      /\ ~Compacting /\ (~Compacting)'
  BY <1>1, <1>2, <1>3, TopMovesOnly, TopFrame DEF Compacting, Top
<1>5. \A d \in 1 .. (n - 1) : stack'[d] = stack[d] /\ Owed(stack[d])' = Owed(stack[d])
  BY <1>1, <1>2, <1>3, OthersOwe
<1>6. Owed(stack[n])' = Owed(stack[n])
  BY <1>1, <1>4 DEF Owed, Live
<1>7. RoundsShape /\ RoundsShape' /\ Len(Rounds) = n /\ Len(Rounds') = n
  BY <1>1, <1>3, <1>4, RoundsShaped, RoundsShapedNext DEF RoundsShape
<1>8. \A d \in 1 .. n : stack'[d].sig = stack[d].sig /\ Owed(stack[d])' = Owed(stack[d])
  BY <1>4, <1>5, <1>6
<1>9. Rounds' = Rounds
  BY <1>7, <1>8, RoundsSame
<1>10. QED
  BY <1>1, <1>4, <1>9, SubsAtRest, SubsAtRestNext

(* A loop that ends owes nothing, and its compaction starts with all slots. *)
LEMMA EndLoopFinishes ==
  ASSUME ObserverInv, TypeInv', EndLoop
  PROVE  Obs!Finish
<1> DEFINE q == recvs[Top.sig]
<1>1. /\ TypeInv /\ TypeOK /\ stack # <<>> /\ Top.pc = "loop" /\ Top.pos > Len(q)
      /\ MoveTo("compact", 1, 0) /\ recvs' = recvs
  BY DEF ObserverInv, SubscriptionInv, TypeInv, EndLoop, EmitterAt
<1>2. Top \in Frame /\ Top.pos \in Nat \ {0} /\ Top.sig \in Signal /\ q \in Seq(Slot)
  BY <1>1, TopFrame DEF Frame
<1>3. PICK n : n = Len(stack) - 1
  OBVIOUS
<1>4. /\ ~Compacting /\ RoundsShape /\ Rounds # <<>>
      /\ n \in Nat /\ n + 1 = Len(stack)
      /\ Obs!Last(Rounds) = [sig |-> Top.sig, owed |-> Owed(Top)]
      /\ Obs!Front(Rounds) \in Seq(LiveRound)
      /\ Len(Obs!Front(Rounds)) = n
      /\ \A d \in 1 .. n : Obs!Front(Rounds)[d] = Rounds[d]
      /\ Len(Rounds) = n + 1
  <2>1. ~Compacting
    BY <1>1 DEF Compacting
  <2>2. QED
    BY <1>1, <1>3, <2>1, TopRound
<1>5. /\ Len(stack') = n + 1 /\ Compacting'
      /\ Top' = [sig |-> Top.sig, pc |-> "compact", pos |-> 1, kept |-> 0]
  <2>1. /\ Len(stack') = Len(stack) /\ stack' \in Seq(Frame)
        /\ Top' = [sig |-> Top.sig, pc |-> "compact", pos |-> 1, kept |-> 0]
    BY <1>1, TopMoves
  <2>2. stack' # <<>>
    BY <1>4, <2>1, EmptySeq
  <2>3. QED
    BY <1>4, <2>1, <2>2 DEF Compacting
<1>6. \A d \in 1 .. n : /\ d \in 1 .. (n + 1) /\ stack'[d] = stack[d]
                        /\ Owed(stack[d])' = Owed(stack[d])
  BY <1>1, <1>3, <1>4, OthersOwe
<1>7. RoundsShape' /\ Len(Rounds') = n
  BY <1>4, <1>5, RoundsShapedNext DEF RoundsShape
<1>8. Obs!Last(Rounds).owed = <<>>
  <2>1. Owed(Top) = Live(Rest(q, Top.pos))
    BY <1>1 DEF Owed, Rest
  <2>2. Rest(q, Top.pos) = <<>>
    BY <1>1, <1>2, RestSlots
  <2>3. QED
    BY <1>4, <2>1, <2>2, WithoutEmpty DEF Live
<1> DEFINE f == Obs!Front(Rounds)
<1>9. ASSUME NEW d \in 1 .. n
      PROVE  f[d] = [sig |-> stack'[d].sig, owed |-> Owed(stack[d])']
  BY <1>4, <1>6 DEF RoundsShape
<1>10. Rounds' = f
  <2> HIDE DEF f
  <2>1. f \in Seq(LiveRound) /\ Len(f) = n
    BY <1>4 DEF f
  <2>2. QED
    BY <1>7, <1>9, <2>1, RoundsAre
<1>11. Subs' = Subs
  <2>1. Subs = [s \in Signal |-> Live(recvs[s])]
    BY <1>4, SubsAtRest
  <2>2. Subs' = [s \in Signal |->
                   IF s = Top.sig THEN Live(SubSeq(recvs[s], 1, 0) \o Rest(recvs[s], 1))
                   ELSE Live(recvs[s])]
    BY <1>1, <1>5, SubsCompactingNext DEF Live, Rest
  <2>3. SubSeq(q, 1, 0) \o Rest(q, 1) = q
    <3>1. SubSeq(q, 1, 0) = <<>> /\ Rest(q, 1) = q
      BY <1>2, SubSeqEmpty, RestAll
    <3>2. QED
      BY <1>2, <3>1, ConcatEmptySeq
  <2>4. QED
    BY <2>1, <2>2, <2>3
<1>12. QED
  BY <1>4, <1>8, <1>10, <1>11 DEF Obs!Finish

(* An element appended before a sequence is one put in front of it.        *)
LEMMA AppendConcat ==
  ASSUME NEW T, NEW a \in Seq(T), NEW x \in T, NEW b \in Seq(T)
  PROVE  Append(a, x) \o b = a \o (<<x>> \o b)
<1>1. (a \o <<x>>) \o b = a \o (<<x>> \o b)
  OBVIOUS
<1>2. Append(a, x) = a \o <<x>>
  BY AppendIsConcat
<1>3. QED
  BY <1>1, <1>2

(* A receiver copied down, or a hole passed, leaves what the slots mean.   *)
LEMMA PassingKeeps ==
  ASSUME NEW q \in Seq(Slot), NEW p \in Seq(Slot), Len(p) = Len(q),
         NEW m \in 1 .. Len(q), NEW k \in Nat, k < m
  PROVE  /\ q[m] = NULL =>
              Live(SubSeq(q, 1, k) \o Rest(q, m + 1)) = Live(SubSeq(q, 1, k) \o Rest(q, m))
         /\ q[m] # NULL /\ (\A i \in 1 .. Len(q) :
                              p[i] = IF i = k + 1 THEN q[m] ELSE q[i]) =>
              Live(SubSeq(p, 1, k + 1) \o Rest(p, m + 1))
                = Live(SubSeq(q, 1, k) \o Rest(q, m))
<1> DEFINE a == SubSeq(q, 1, k)
           b == Rest(q, m + 1)
           x == q[m]
<1>1. /\ m \in Nat \ {0} /\ m + 1 \in Nat \ {0} /\ k <= Len(q)
      /\ k + 1 \in Nat /\ k + 1 <= Len(q) /\ k + 1 <= m
  OBVIOUS
<1>2. x \in Slot
  BY ElementOfSeq
<1>3. a \in Seq(Slot) /\ Len(a) = k /\ \A i \in 1 .. k : a[i] = q[i]
  BY <1>1, FirstSlots
<1>4. /\ Rest(q, m) \in Seq(Slot) /\ b \in Seq(Slot) /\ Live(b) \in Seq(Slot)
      /\ Live(Rest(q, m)) = IF x = NULL THEN Live(b) ELSE <<x>> \o Live(b)
  BY <1>1, RestSlots, LiveRest
<1> HIDE DEF a, b, x
<1>5. Live(a \o b) = Live(a) \o Live(b) /\ Live(a \o Rest(q, m)) = Live(a) \o Live(Rest(q, m))
  BY <1>3, <1>4, LiveConcat
<1>6. ASSUME x # NULL, \A i \in 1 .. Len(q) : p[i] = IF i = k + 1 THEN x ELSE q[i]
      PROVE  Live(SubSeq(p, 1, k + 1) \o Rest(p, m + 1)) = Live(a \o Rest(q, m))
  <2> DEFINE n == k + 1
             l == m + 1
             c == SubSeq(p, 1, n)
  <2>1. c = Append(a, x) /\ c \in Seq(Slot)
    <3>1. n \in Nat /\ n <= Len(p) /\ \A i \in 1 .. n : i \in 1 .. Len(q)
      BY <1>1
    <3>2. c \in Seq(Slot) /\ Len(c) = n /\ \A i \in 1 .. n : c[i] = p[i]
      <4> HIDE DEF n
      <4>1. QED
        BY <3>1, FirstSlots
    <3> HIDE DEF c
    <3>3. /\ Append(a, x) \in Seq(Slot) /\ Len(Append(a, x)) = Len(a) + 1
          /\ Append(a, x)[Len(a) + 1] = x
          /\ \A i \in 1 .. Len(a) : Append(a, x)[i] = a[i]
      BY <1>2, <1>3, AppendProperties
    <3>4. ASSUME NEW i \in 1 .. n
          PROVE  c[i] = Append(a, x)[i]
      <4>1. CASE i = k + 1
        <5>1. c[i] = x
          BY <1>6, <3>1, <3>2, <4>1
        <5>2. QED
          BY <1>3, <3>3, <4>1, <5>1
      <4>2. CASE i # k + 1
        <5>1. i \in 1 .. k
          BY <4>2
        <5>2. c[i] = q[i]
          BY <1>6, <3>1, <3>2, <4>2
        <5>3. QED
          BY <1>3, <3>3, <5>1, <5>2
      <4>3. QED
        BY <4>1, <4>2
    <3> DEFINE e == Append(a, x)
    <3>5. e \in Seq(Slot) /\ Len(e) = n /\ \A i \in 1 .. n : c[i] = e[i]
      BY <1>3, <3>3, <3>4
    <3> HIDE DEF e, n
    <3>6. c = e
      BY <3>2, <3>5, SeqEqual
    <3>7. QED
      BY <3>2, <3>6 DEF e
  <2>2. Rest(p, l) = Rest(q, l)
    <3>1. l \in Nat \ {0} /\ \A i \in 1 .. Len(q) : i >= l => i # k + 1
      BY <1>1
    <3>2. \A i \in 1 .. Len(q) : i >= l => p[i] = q[i]
      BY <1>6, <3>1
    <3> HIDE DEF l
    <3>3. QED
      BY <3>1, <3>2, RestSame
  <2> HIDE DEF c
  <2>3. Live(c \o b) = Live(c) \o Live(b) /\ Live(c) = Append(Live(a), x)
    BY <1>2, <1>3, <1>4, <1>6, <2>1, LiveConcat, LiveAppend
  <2>4. Append(Live(a), x) \o Live(b) = Live(a) \o (<<x>> \o Live(b))
    <3>1. Live(a) \in Seq(Slot) /\ x \in Slot /\ Live(b) \in Seq(Slot)
      BY <1>2, <1>3, <1>4, LiveType
    <3>2. QED
      BY ONLY <3>1, AppendConcat
  <2>5. QED
    BY <1>4, <1>5, <1>6, <2>2, <2>3, <2>4 DEF b, c
<1>7. QED
  BY <1>4, <1>5, <1>6 DEF a, b, x

(* The compaction shows in neither the subscriptions nor the rounds.       *)
LEMMA CompactSlotStutters ==
  ASSUME ObserverInv, TypeInv', CompactSlot
  PROVE  Subs' = Subs /\ Rounds' = Rounds
<1> DEFINE s == Top.sig
           q == recvs[s]
           m == Top.pos
           k == Top.kept
           p == recvs'[s]
<1>1. /\ TypeInv /\ TypeOK /\ TypeOK' /\ stack # <<>> /\ Top.pc = "compact" /\ Compacting
      /\ OneEmissionPerSignal
  BY DEF ObserverInv, SubscriptionInv, TypeInv, CompactSlot, EmitterAt, Compacting
<1>2. /\ m \in 1 .. Len(q) /\ k \in 0 .. (m - 1)
      /\ recvs' \in [Signal -> Seq(Slot)]
      /\ Len(p) = Len(q)
      /\ \A t \in Signal : t # s => recvs'[t] = recvs[t]
      /\ \/ /\ q[m] # NULL
            /\ MoveTo("compact", m + 1, k + 1)
            /\ \A i \in 1 .. Len(q) : p[i] = IF i = k + 1 THEN q[m] ELSE q[i]
         \/ /\ q[m] = NULL
            /\ MoveTo("compact", m + 1, k)
            /\ recvs' = recvs
  BY <1>1, CompactSlotCopies
<1>3. s \in Signal /\ q \in Seq(Slot) /\ p \in Seq(Slot) /\ Top \in Frame
  BY <1>1, <1>2, TopFrame
<1>4. m \in Nat \ {0} /\ k \in Nat /\ k < m /\ m + 1 \in Nat \ {0} /\ k + 1 \in Nat
  BY <1>2, <1>3 DEF Frame
<1>5. PICK j \in {k, k + 1} :
        /\ MoveTo("compact", m + 1, j)
        /\ Live(SubSeq(p, 1, j) \o Rest(p, m + 1)) = Live(SubSeq(q, 1, k) \o Rest(q, m))
  <2>1. CASE q[m] # NULL
    <3>1. /\ MoveTo("compact", m + 1, k + 1)
          /\ \A i \in 1 .. Len(q) : p[i] = IF i = k + 1 THEN q[m] ELSE q[i]
      BY <1>2, <2>1
    <3> HIDE DEF p, q, m, k
    <3>2. Live(SubSeq(p, 1, k + 1) \o Rest(p, m + 1)) = Live(SubSeq(q, 1, k) \o Rest(q, m))
      BY <1>2, <1>3, <1>4, <2>1, <3>1, PassingKeeps
    <3>3. QED
      BY <3>1, <3>2
  <2>2. CASE q[m] = NULL
    <3>1. MoveTo("compact", m + 1, k) /\ p = q
      BY <1>2, <2>2
    <3> HIDE DEF p, q, m, k
    <3>2. Live(SubSeq(q, 1, k) \o Rest(q, m + 1)) = Live(SubSeq(q, 1, k) \o Rest(q, m))
      BY <1>2, <1>3, <1>4, <2>2, PassingKeeps
    <3>3. QED
      BY <3>1, <3>2
  <2>3. QED
    BY <2>1, <2>2
<1>6. PICK n : n = Len(stack) - 1
  OBVIOUS
<1>7. j \in Nat /\ n \in Nat /\ n + 1 = Len(stack)
  BY <1>1, <1>4, <1>6, TopFrame
<1>8. /\ Len(stack') = n + 1 /\ Compacting'
      /\ Top' = [sig |-> s, pc |-> "compact", pos |-> m + 1, kept |-> j]
  <2>1. /\ Len(stack') = Len(stack) /\ stack' \in Seq(Frame)
        /\ Top' = [sig |-> s, pc |-> "compact", pos |-> m + 1, kept |-> j]
    BY <1>1, <1>4, <1>5, <1>7, TopMoves
  <2>2. stack' # <<>>
    BY <1>7, <2>1, EmptySeq
  <2>3. QED
    BY <1>7, <2>1, <2>2 DEF Compacting
<1>9. \A d \in DOMAIN stack : d # Len(stack) => recvs'[stack[d].sig] = recvs[stack[d].sig]
  <2>1. \A d \in DOMAIN stack : stack[d].sig \in Signal
    BY <1>1, FramesTyped
  <2>2. Len(stack) \in DOMAIN stack /\ s = stack[Len(stack)].sig
    BY <1>1, <1>7 DEF Top, TypeOK
  <2>3. QED
    BY <1>1, <1>2, <2>1, <2>2 DEF OneEmissionPerSignal
<1>10. \A d \in 1 .. n : stack'[d] = stack[d] /\ Owed(stack[d])' = Owed(stack[d])
  BY <1>1, <1>4, <1>5, <1>6, <1>7, <1>9, OthersOwe
<1>11. /\ RoundsShape /\ RoundsShape' /\ Len(Rounds) = n /\ Len(Rounds') = n
  BY <1>1, <1>6, <1>7, <1>8, RoundsShaped, RoundsShapedNext DEF RoundsShape
<1>12. Rounds' = Rounds
  BY <1>10, <1>11, RoundsSame
<1>13. Subs' = Subs
  <2>1. Subs = [t \in Signal |-> IF t = s
                                 THEN Live(SubSeq(recvs[t], 1, k) \o Rest(recvs[t], m))
                                 ELSE Live(recvs[t])]
    BY <1>1, SubsCompacting
  <2>2. Subs' = [t \in Signal |->
                   IF t = s THEN Live(SubSeq(recvs'[t], 1, j) \o Rest(recvs'[t], m + 1))
                   ELSE Live(recvs'[t])]
    BY <1>8, SubsCompactingNext DEF Live, Rest
  <2>3. QED
    BY <1>2, <1>5, <2>1, <2>2
<1>14. QED
  BY <1>12, <1>13

(* The cut at the end of a compaction shows in neither.                    *)
LEMMA ShrinkStutters ==
  ASSUME ObserverInv, TypeInv', Shrink
  PROVE  Subs' = Subs /\ Rounds' = Rounds
<1> DEFINE s == Top.sig
           q == recvs[s]
           k == Top.kept
<1>1. /\ TypeInv /\ TypeOK /\ TypeOK' /\ stack # <<>> /\ Top.pc = "compact" /\ Compacting
      /\ OneEmissionPerSignal
      /\ recvs' = [recvs EXCEPT ![s] = SubSeq(q, 1, k)]
  BY DEF ObserverInv, SubscriptionInv, TypeInv, Shrink, EmitterAt, Compacting
<1>2. /\ s \in Signal /\ k \in 0 .. Len(q) /\ Top.pos = Len(q) + 1
      /\ stack' = Front(stack)
  BY <1>1, ShrinkCuts
<1>3. q \in Seq(Slot) /\ recvs'[s] = SubSeq(q, 1, k)
      /\ \A t \in Signal : t # s => recvs'[t] = recvs[t]
  BY <1>1, <1>2 DEF TypeOK
<1>4. PICK n : n = Len(stack) - 1
  OBVIOUS
<1>5. /\ n \in Nat /\ Len(stack) = n + 1 /\ Len(stack') = n
      /\ \A d \in 1 .. n : stack'[d] = stack[d]
  BY <1>1, <1>2, <1>4, TopFrame
<1>6. (~Compacting)'
  <2>1. SUFFICES ASSUME stack' # <<>>, Top'.pc = "compact"  PROVE FALSE
    BY DEF Compacting
  <2>2. n \in 1 .. n
    <3>1. n # 0
      BY <1>1, <1>5, <2>1, EmptySeq DEF TypeOK
    <3>2. QED
      BY <1>5, <3>1
  <2>3. n \in DOMAIN stack /\ n < Len(stack) /\ Top' = stack[n]
    BY <1>1, <1>5, <2>2 DEF Top, TypeOK
  <2>4. QED
    BY <1>1, <2>1, <2>3 DEF TypeInv, OnlyTopMoves
<1>7. \A d \in 1 .. n : stack'[d] = stack[d] /\ Owed(stack[d])' = Owed(stack[d])
  <2>1. ASSUME NEW d \in 1 .. n
        PROVE  recvs'[stack[d].sig] = recvs[stack[d].sig]
    <3>1. d \in DOMAIN stack /\ Len(stack) \in DOMAIN stack /\ d # Len(stack)
      BY <1>1, <1>5 DEF TypeOK
    <3>2. s = stack[Len(stack)].sig /\ stack[d].sig \in Signal
      BY <1>1, <3>1, FramesTyped DEF Top
    <3>3. QED
      BY <1>1, <1>3, <3>1, <3>2 DEF OneEmissionPerSignal
  <2>2. QED
    BY <1>5, <2>1, OwedSame
<1>8. /\ RoundsShape /\ RoundsShape' /\ Len(Rounds) = n /\ Len(Rounds') = n
  BY <1>1, <1>4, <1>5, <1>6, RoundsShaped, RoundsShapedNext DEF RoundsShape
<1>9. Rounds' = Rounds
  BY <1>7, <1>8, RoundsSame
<1>10. Subs' = Subs
  <2>1. Subs = [t \in Signal |-> IF t = s
                                 THEN Live(SubSeq(recvs[t], 1, k) \o Rest(recvs[t], Top.pos))
                                 ELSE Live(recvs[t])]
    BY <1>1, SubsCompacting
  <2>2. Subs' = [t \in Signal |-> Live(recvs'[t])]
    BY <1>6, SubsAtRestNext
  <2>3. SubSeq(q, 1, k) \o Rest(q, Top.pos) = SubSeq(q, 1, k)
    <3> DEFINE a == SubSeq(q, 1, k)
               m == Top.pos
    <3>1. m \in Nat \ {0} /\ m > Len(q) /\ k \in Nat /\ k <= Len(q)
      BY <1>2, <1>3
    <3> HIDE DEF m, q, k
    <3>2. a \in Seq(Slot) /\ Rest(q, m) = <<>>
      BY <1>3, <3>1, FirstSlots, RestSlots
    <3> HIDE DEF a
    <3>3. a \o Rest(q, m) = a
      BY <3>2, ConcatEmptySeq
    <3>4. QED
      BY <3>3 DEF a, m, q, k
  <2>4. QED
    BY <1>3, <2>1, <2>2, <2>3
<1>11. QED
  BY <1>9, <1>10

-----------------------------------------------------------------------------
(* The refinement.                                                         *)

(* Every step is a step of the observer, or shows in nothing it sees.      *)
LEMMA ObserverStep ==
  ASSUME ObserverInv, ObserverInv', [Next]_vars
  PROVE  [Obs!Next]_(Obs!vars)
<1>1. TypeInv' /\ TypeInv /\ TypeOK /\ DeadIsEmpty
  BY DEF ObserverInv, SubscriptionInv, TypeInv
<1>2. SUFFICES Obs!Next \/ (Subs' = Subs /\ Rounds' = Rounds)
  BY DEF Obs!vars
<1>3. CASE UNCHANGED vars \/ CallHole
  BY <1>3, SeesTheSame DEF vars, CallHole
<1>4. ASSUME NEW s \in Signal, SignalInit(s)
      PROVE  Subs' = Subs /\ Rounds' = Rounds
  <2>1. stack' = stack /\ recvs' = [recvs EXCEPT ![s] = <<>>] /\ recvs[s] = <<>>
    BY <1>1, <1>4 DEF SignalInit, DeadIsEmpty
  <2>2. recvs' = recvs
    BY <1>1, <2>1 DEF TypeOK
  <2>3. QED
    BY <2>1, <2>2, SeesTheSame
<1>5. ASSUME NEW s \in Signal, DeinitHole(s)
      PROVE  Subs' = Subs /\ Rounds' = Rounds
  BY <1>5, SeesTheSame DEF DeinitHole
<1>6. ASSUME NEW s \in Signal, Deinit(s)
      PROVE  Obs!Next
  BY <1>1, <1>6, DeinitDissolves DEF Obs!Next
<1>7. ASSUME NEW s \in Signal, Emit(s)
      PROVE  Obs!Next
  BY <1>1, <1>7, EmitBegins DEF Obs!Next
<1>8. ASSUME NEW r \in Recv, ClientTurn, UNCHANGED stack, recvs' = Unset(r)
      PROVE  Obs!Next
  <2>1. recvs' = [t \in Signal |-> Unset(r)[t]]
    BY <1>1, <1>8, UnsetType
  <2>2. PICK J \in SUBSET Signal : J = {}
    OBVIOUS
  <2>3. recvs' = [t \in Signal |-> IF t \in J THEN Append(Unset(r)[t], r) ELSE Unset(r)[t]]
    BY <2>1, <2>2
  <2>4. /\ Subs' = [t \in Signal |-> Obs!Moved(Subs[t], r, t \in J)]
        /\ Rounds' = [d \in DOMAIN Rounds |->
                        [sig |-> Rounds[d].sig,
                         owed |-> Obs!Moved(Rounds[d].owed, r, Rounds[d].sig \in J)]]
    BY <1>1, <1>8, <2>2, <2>3, SubscriptionsMove
  <2>5. \A q, t : Obs!Moved(q, r, t \in J) = Obs!Without(q, r)
    BY <2>2 DEF Obs!Moved
  <2>6. Obs!Unsubscribe(r)
    BY <2>4, <2>5 DEF Obs!Unsubscribe
  <2>7. QED
    BY <2>6 DEF Obs!Next
<1>9. ASSUME NEW r \in Recv, NEW s \in Signal, RecvSet(r, s)
      PROVE  Obs!Next
  <2>1. PICK J \in SUBSET Signal : J = {s}
    OBVIOUS
  <2>2. /\ ClientTurn /\ UNCHANGED stack /\ \A t \in J : live[t]
        /\ recvs' = [Unset(r) EXCEPT ![s] = Append(Unset(r)[s], r)]
    BY <1>9, <2>1 DEF RecvSet, MayDetach
  <2>3. recvs' = [t \in Signal |-> IF t \in J THEN Append(Unset(r)[t], r) ELSE Unset(r)[t]]
    BY <1>1, <2>1, <2>2, UnsetType
  <2>4. /\ Subs' = [t \in Signal |-> Obs!Moved(Subs[t], r, t \in J)]
        /\ Rounds' = [d \in DOMAIN Rounds |->
                        [sig |-> Rounds[d].sig,
                         owed |-> Obs!Moved(Rounds[d].owed, r, Rounds[d].sig \in J)]]
    BY <1>1, <2>2, <2>3, SubscriptionsMove
  <2>5. \A q, t : Obs!Moved(q, r, t \in J) = Obs!Moved(q, r, t = s)
    BY <2>1 DEF Obs!Moved
  <2>6. Obs!Subscribe(r, s)
    BY <2>4, <2>5 DEF Obs!Subscribe
  <2>7. QED
    BY <2>6 DEF Obs!Next
<1>10. ASSUME NEW r \in Recv, RecvUnset(r) \/ \E s \in Signal : RecvSetFails(r, s)
       PROVE  Obs!Next
  BY <1>8, <1>10 DEF RecvUnset, RecvSetFails, MayDetach
<1>11. CASE Call
  BY <1>1, <1>11, CallDelivers DEF Obs!Next
<1>12. ASSUME NEW d \in 1 .. MaxDepth, Return(d)
       PROVE  Subs' = Subs /\ Rounds' = Rounds
  BY <1>1, <1>12, ReturnStutters
<1>13. CASE EndLoop
  BY <1>1, <1>13, EndLoopFinishes DEF Obs!Next
<1>14. CASE CompactSlot \/ Shrink
  BY <1>1, <1>14, CompactSlotStutters, ShrinkStutters
<1>15. QED
  BY <1>3, <1>4, <1>5, <1>6, <1>7, <1>9, <1>10, <1>11, <1>12, <1>13, <1>14
     DEF Next, Client, Library

(* Nothing is subscribed and no round is under way in the beginning.       *)
LEMMA ObserverStarts == Init => Obs!Init
<1> SUFFICES ASSUME Init  PROVE Obs!Init
  OBVIOUS
<1>1. stack = <<>> /\ recvs = [s \in Signal |-> <<>>] /\ Live(<<>>) = <<>>
  BY WithoutEmpty DEF Init, Live
<1>2. Subs = [s \in Signal |-> <<>>]
  BY <1>1 DEF Subs
<1>3. Rounds = <<>>
  <2>1. TypeInv
    BY TypeInit
  <2>2. Rounds \in Seq(LiveRound) /\ Len(Rounds) = 0
    <3>1. ~Compacting /\ Len(stack) = 0
      BY <1>1, EmptySeq DEF Compacting
    <3>2. QED
      BY <2>1, <3>1, RoundsShaped DEF RoundsShape
  <2>3. QED
    BY <2>2, EmptySeq
<1>4. QED
  BY <1>2, <1>3 DEF Obs!Init

(* util/signal.h implements the observer pattern for any clients that do   *)
(* not emit a signal from within its own emission: slots, holes, the flag  *)
(* and the compaction never show, whatever the callbacks do.               *)
THEOREM ImplementsObserver ==
  ASSUME ~Reentrant
  PROVE  Spec => ObserverSpec
<1>1. Init => ObserverInv /\ Obs!Init
  BY ObserverInvInit, ObserverStarts
<1>2. ObserverInv /\ [Next]_vars => ObserverInv'
  BY ObserverInvStep
<1>3. ObserverInv /\ ObserverInv' /\ [Next]_vars => [Obs!Next]_(Obs!vars)
  BY ObserverStep
<1>4. QED
  BY <1>1, <1>2, <1>3, PTL DEF Spec, ObserverSpec, Obs!Spec
===============================================================================
