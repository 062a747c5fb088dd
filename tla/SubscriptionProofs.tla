--------------------------- MODULE SubscriptionProofs ---------------------------
(***************************************************************************)
(* That the receivers and the slots of util/signal.h agree at every step,  *)
(* for any clients, any number of signals, receivers and slots, and any    *)
(* nesting of emissions, a signal's own among them.                        *)
(***************************************************************************)
EXTENDS SignalProofs

USE DEF Detached, FirstIndex, NextIndex, AtEnd, FlagCleared, Kept

(* No receiver has two slots in q.                                         *)
Distinct(q) ==
  \A i, j \in 1 .. Len(q) : q[i] = q[j] /\ q[i] # NULL => i = j

(* SubscriptionConsistent where no compaction is under way.                *)
Agreed ==
  /\ \A r \in Recv, s \in Signal : attached[r] = s <=> Contains(recvs[s], r)
  /\ \A s \in Signal : Distinct(recvs[s])

NoCompaction == \A d \in DOMAIN stack : stack[d].pc # "compact"

-----------------------------------------------------------------------------
(* Facts about arrays of slots.                                            *)

(* A receiver whose slot becomes a hole is in the array no more, and       *)
(* nothing else is changed.                                                *)
LEMMA HoleDropsOne ==
  ASSUME NEW q \in Seq(Slot), Distinct(q),
         NEW k \in 1 .. Len(q), q[k] # NULL,
         NEW p, p = [q EXCEPT ![k] = NULL]
  PROVE  /\ Distinct(p)
         /\ \A x \in Recv : Contains(p, x) <=> x # q[k] /\ Contains(q, x)
<1>1. /\ p \in Seq(Slot)
      /\ Len(p) = Len(q)
      /\ \A i \in 1 .. Len(q) : p[i] = IF i = k THEN NULL ELSE q[i]
  BY ExceptSeq DEF Slot
<1>2. Distinct(p)
  BY <1>1 DEF Distinct
<1>3. ASSUME NEW x \in Recv
      PROVE  Contains(p, x) <=> x # q[k] /\ Contains(q, x)
  <2>1. x # NULL
    BY NullAssumption
  <2>2. QED
    BY <1>1, <2>1 DEF Contains, Distinct
<1>4. QED
  BY <1>2, <1>3

(* So is one whose slot is removed.                                        *)
LEMMA RemovalDropsOne ==
  ASSUME NEW q \in Seq(Slot), Distinct(q),
         NEW k \in 1 .. Len(q), q[k] # NULL,
         NEW p, p = RemoveAt(q, k)
  PROVE  /\ Distinct(p)
         /\ \A x \in Recv : Contains(p, x) <=> x # q[k] /\ Contains(q, x)
<1> DEFINE From(j) == IF j < k THEN j ELSE j + 1
<1>1. /\ p \in Seq(Slot)
      /\ Len(p) = Len(q) - 1
      /\ \A j \in 1 .. (Len(q) - 1) : p[j] = IF j < k THEN q[j] ELSE q[j + 1]
  BY RemoveAtSlots
<1>2. ASSUME NEW j \in 1 .. Len(p)
      PROVE  From(j) \in 1 .. Len(q) /\ From(j) # k /\ p[j] = q[From(j)]
  <2>1. j \in 1 .. (Len(q) - 1) /\ Len(q) \in Nat
    BY <1>1
  <2>2. p[j] = q[From(j)]
    BY <1>1, <2>1
  <2>3. From(j) \in 1 .. Len(q) /\ From(j) # k
    BY <2>1
  <2>4. QED
    BY <2>2, <2>3
<1>3. \A i, j \in 1 .. Len(p) : From(i) = From(j) => i = j
  BY <1>1
<1>4. ASSUME NEW i \in 1 .. Len(q), i # k
      PROVE  \E j \in 1 .. Len(p) : p[j] = q[i]
  <2>1. CASE i < k
    <3>1. i \in 1 .. (Len(q) - 1)
      BY <2>1
    <3>2. QED
      BY <1>1, <2>1, <3>1
  <2>2. CASE i > k
    <3>1. i - 1 \in 1 .. (Len(q) - 1) /\ ~(i - 1 < k) /\ (i - 1) + 1 = i
      BY <2>2
    <3>2. p[i - 1] = q[i]
      BY <1>1, <3>1
    <3>3. QED
      BY <1>1, <3>1, <3>2
  <2>3. QED
    BY <1>4, <2>1, <2>2
<1> HIDE DEF From
<1>5. Distinct(p)
  <2> SUFFICES ASSUME NEW i \in 1 .. Len(p), NEW j \in 1 .. Len(p),
                      p[i] = p[j], p[i] # NULL
               PROVE  i = j
    BY DEF Distinct
  <2>1. From(i) = From(j)
    BY <1>2 DEF Distinct
  <2>2. QED
    BY <1>3, <2>1
<1>6. ASSUME NEW x \in Recv
      PROVE  Contains(p, x) <=> x # q[k] /\ Contains(q, x)
  <2>1. ASSUME Contains(p, x)
        PROVE  x # q[k] /\ Contains(q, x)
    <3>1. PICK j \in 1 .. Len(p) : p[j] = x
      BY <2>1 DEF Contains
    <3>2. q[From(j)] = x /\ From(j) \in 1 .. Len(q) /\ From(j) # k
      BY <1>2, <3>1
    <3>3. QED
      BY <3>2 DEF Contains, Distinct
  <2>2. ASSUME x # q[k], Contains(q, x)
        PROVE  Contains(p, x)
    BY <1>4, <2>2 DEF Contains
  <2>3. QED
    BY <2>1, <2>2
<1>7. QED
  BY <1>5, <1>6

(* A receiver that is not in the array is in it once after it is appended. *)
LEMMA AppendAddsOne ==
  ASSUME NEW q \in Seq(Slot), Distinct(q), NEW r \in Recv, ~Contains(q, r)
  PROVE  /\ Distinct(Append(q, r))
         /\ \A x \in Recv : Contains(Append(q, r), x) <=> x = r \/ Contains(q, x)
<1> DEFINE p == Append(q, r)
<1>1. r \in Slot
  BY DEF Slot
<1>2. /\ Len(p) = Len(q) + 1
      /\ \A i \in 1 .. Len(q) : p[i] = q[i]
      /\ p[Len(q) + 1] = r
  BY <1>1, AppendProperties
<1>3. Len(q) \in Nat /\ \A i \in 1 .. Len(p) : i \in 1 .. Len(q) \/ i = Len(q) + 1
  BY <1>2
<1>4. /\ \A i \in 1 .. Len(q) : i \in 1 .. Len(p)
      /\ Len(q) + 1 \in 1 .. Len(p)
  BY <1>2, <1>3
<1> HIDE DEF p
<1>5. Distinct(p)
  BY <1>2, <1>3 DEF Distinct, Contains
<1>6. \A x \in Recv : Contains(p, x) <=> x = r \/ Contains(q, x)
  BY <1>2, <1>3, <1>4 DEF Contains
<1>7. QED
  BY <1>5, <1>6 DEF p

-----------------------------------------------------------------------------
(* Pointers and slots.                                                     *)

(* Outside of compactions every slot counts.                               *)
LEMMA AllCount ==
  ASSUME TypeInv, NoCompaction
  PROVE  /\ \A s \in Signal : Counted(s) = 1 .. Len(recvs[s])
         /\ SubscriptionConsistent <=> Agreed
<1>1. \A s \in Signal : recvs[s] \in Seq(Slot) /\ DOMAIN recvs[s] = 1 .. Len(recvs[s])
  BY DEF TypeInv, TypeOK
<1>2. \A s \in Signal : Counted(s) = 1 .. Len(recvs[s])
  BY <1>1 DEF Counted, NoCompaction
<1>3. \A r \in Recv, s \in Signal : Holds(s, r) <=> Contains(recvs[s], r)
  BY <1>2 DEF Holds, Contains
<1>4. SubscriptionConsistent <=> Agreed
  BY <1>2, <1>3 DEF SubscriptionConsistent, Agreed, Distinct
<1>5. QED
  BY <1>2, <1>4

(* The same of the state after a step.                                     *)
LEMMA AllCountNext ==
  ASSUME TypeInv', NoCompaction', Agreed'
  PROVE  SubscriptionConsistent'
<1>1. \A s \in Signal :
        recvs'[s] \in Seq(Slot) /\ DOMAIN recvs'[s] = 1 .. Len(recvs'[s])
  BY DEF TypeInv, TypeOK
<1>2. \A s \in Signal : Counted(s)' = 1 .. Len(recvs'[s])
  BY <1>1 DEF Counted, NoCompaction
<1>3. \A r \in Recv, s \in Signal : Holds(s, r)' <=> Contains(recvs'[s], r)
  BY <1>2 DEF Holds, Contains
<1>4. QED
  BY <1>2, <1>3 DEF SubscriptionConsistent, Agreed, Distinct

(* Unsetting a receiver takes it out of the signal it points at, and so    *)
(* out of all of them.                                                     *)
LEMMA UnsetDropsOne ==
  ASSUME TypeOK, Agreed, NEW r \in Recv, NEW s \in Signal
  PROVE  /\ Unset(r)[s] \in Seq(Slot)
         /\ Distinct(Unset(r)[s])
         /\ \A x \in Recv : Contains(Unset(r)[s], x) <=> x # r /\ attached[x] = s
<1> DEFINE q == recvs[s]
           k == FirstSlot(q, r)
<1>1. q \in Seq(Slot) /\ Distinct(q) /\ Unset(r)[s] \in Seq(Slot)
  BY UnsetType DEF TypeOK, Agreed
<1>2. \A x \in Recv : Contains(q, x) <=> attached[x] = s
  BY DEF Agreed
<1>3. CASE attached[r] = s
  <2>1. Contains(q, r) /\ s # NULL /\ r # NULL
    BY <1>2, <1>3, NullAssumption
  <2>2. k \in 1 .. Len(q) /\ q[k] = r
    BY <1>1, <2>1, FirstSlotFound
  <2>3. Unset(r)[s] = IF emitting[s] THEN [q EXCEPT ![k] = NULL]
                                     ELSE RemoveAt(q, k)
    BY <1>3, <2>1 DEF Unset, TypeOK
  <2> HIDE DEF q, k
  <2>4. CASE emitting[s]
    <3>1. Unset(r)[s] = [q EXCEPT ![k] = NULL] /\ q[k] # NULL
      BY <2>1, <2>2, <2>3, <2>4
    <3>2. /\ Distinct(Unset(r)[s])
          /\ \A x \in Recv : Contains(Unset(r)[s], x) <=> x # q[k] /\ Contains(q, x)
      BY <1>1, <2>2, <3>1, HoleDropsOne
    <3>3. QED
      BY <1>1, <1>2, <2>2, <3>2
  <2>5. CASE ~emitting[s]
    <3>1. Unset(r)[s] = RemoveAt(q, k) /\ q[k] # NULL
      BY <2>1, <2>2, <2>3, <2>5
    <3>2. /\ Distinct(Unset(r)[s])
          /\ \A x \in Recv : Contains(Unset(r)[s], x) <=> x # q[k] /\ Contains(q, x)
      BY <1>1, <2>2, <3>1, RemovalDropsOne
    <3>3. QED
      BY <1>1, <1>2, <2>2, <3>2
  <2>6. QED
    BY <2>4, <2>5
<1>4. CASE attached[r] # s
  <2>1. Unset(r)[s] = q
    BY <1>4 DEF Unset, TypeOK
  <2>2. QED
    BY <1>1, <1>2, <1>4, <2>1
<1>5. QED
  BY <1>3, <1>4

(* While a compaction is under way only the innermost emission compacts.   *)
LEMMA CompactingSlots ==
  ASSUME TypeInv, stack # <<>>, Top.pc = "compact", NEW s \in Signal
  PROVE  Counted(s) = {i \in 1 .. Len(recvs[s]) :
                         s = Top.sig => i <= Top.kept \/ i >= Top.pos}
<1>1. Len(stack) \in DOMAIN stack /\ Top = stack[Len(stack)]
  BY TopFrame DEF TypeInv, TypeOK, Top
<1>2. \A d \in DOMAIN stack : stack[d].pc = "compact" => d = Len(stack)
  BY <1>1 DEF TypeInv, TypeOK, OnlyTopMoves
<1>3. DOMAIN recvs[s] = 1 .. Len(recvs[s])
  BY DEF TypeInv, TypeOK
<1>4. QED
  BY <1>1, <1>2, <1>3 DEF Counted

(* The same of the state after a step of the innermost emission.           *)
LEMMA CompactingSlotsNext ==
  ASSUME TypeInv, TypeInv', stack # <<>>,
         NEW pos \in Nat \ {0}, NEW kept \in Nat,
         MoveTo("compact", pos, kept), NEW s \in Signal
  PROVE  Counted(s)' = {i \in 1 .. Len(recvs'[s]) :
                          s = Top.sig => i <= kept \/ i >= pos}
<1>1. /\ DOMAIN stack' = DOMAIN stack
      /\ Len(stack) \in DOMAIN stack
      /\ stack'[Len(stack)] =
           [sig |-> Top.sig, pc |-> "compact", pos |-> pos, kept |-> kept]
      /\ \A d \in DOMAIN stack : d # Len(stack) => stack'[d] = stack[d]
  BY TopMovesOnly
<1>2. \A d \in DOMAIN stack : d # Len(stack) => stack'[d].pc = "inside"
  BY <1>1 DEF TypeInv, TypeOK, OnlyTopMoves
<1>3. DOMAIN recvs'[s] = 1 .. Len(recvs'[s])
  BY DEF TypeInv, TypeOK
<1>4. QED
  BY <1>1, <1>2, <1>3 DEF Counted

(* What the compaction of one slot does to the slots that count: each has  *)
(* come from one that counted, no two from the same, and no receiver's is  *)
(* left out.                                                               *)
LEMMA CompactionCarries ==
  ASSUME TypeInv, TypeInv', CompactSlot, NEW s \in Signal
  PROVE  \E From \in [Counted(s)' -> Counted(s)] :
           /\ \A i \in Counted(s)' : recvs'[s][i] = recvs[s][From[i]]
           /\ \A i, j \in Counted(s)' : From[i] = From[j] => i = j
           /\ \A j \in Counted(s) :
                recvs[s][j] # NULL => \E i \in Counted(s)' : From[i] = j
<1> DEFINE q == recvs[Top.sig]
<1>1. /\ stack # <<>> /\ Top.pc = "compact"
  BY DEF CompactSlot, EmitterAt
<1>2. /\ Top.pos \in 1 .. Len(q)
      /\ Top.kept \in 0 .. (Top.pos - 1)
      /\ Len(recvs'[Top.sig]) = Len(q)
      /\ \A t \in Signal : t # Top.sig => recvs'[t] = recvs[t]
      /\ Len(q) \in Nat
  BY <1>1, CompactSlotCopies, TopFrame DEF TypeInv
<1>3. Counted(s) = {i \in 1 .. Len(recvs[s]) :
                      s = Top.sig => i <= Top.kept \/ i >= Top.pos}
  BY <1>1, CompactingSlots
<1>4. Top.pos + 1 \in Nat \ {0} /\ Top.kept \in Nat /\ Top.kept + 1 \in Nat
  BY <1>2
<1>5. PICK k \in {Top.kept, Top.kept + 1} :
        /\ MoveTo("compact", Top.pos + 1, k)
        /\ k = Top.kept => recvs[Top.sig][Top.pos] = NULL /\ recvs' = recvs
        /\ k = Top.kept + 1 =>
             \A i \in 1 .. Len(q) :
               recvs'[Top.sig][i] = IF i = Top.kept + 1 THEN q[Top.pos] ELSE q[i]
  <2>1. Top.kept # Top.kept + 1
    BY <1>4
  <2>2. QED
    BY <2>1, CompactSlotCopies
<1>6. Counted(s)' = {i \in 1 .. Len(recvs'[s]) :
                       s = Top.sig => i <= k \/ i >= Top.pos + 1}
  BY <1>1, <1>4, <1>5, CompactingSlotsNext
<1>7. CASE s # Top.sig
  <2>1. Counted(s)' = Counted(s) /\ recvs'[s] = recvs[s]
    BY <1>2, <1>3, <1>6, <1>7
  <2>2. [i \in Counted(s)' |-> i] \in [Counted(s)' -> Counted(s)]
    BY <2>1
  <2>3. QED
    BY <2>1, <2>2
<1>8. CASE s = Top.sig /\ k = Top.kept
  <2>1. recvs'[s] = recvs[s] /\ recvs[s][Top.pos] = NULL
    BY <1>5, <1>8
  <2>2. Counted(s)' \subseteq Counted(s)
    BY <1>2, <1>3, <1>6, <1>8, <2>1
  <2>3. \A j \in Counted(s) : j = Top.pos \/ j \in Counted(s)'
    BY <1>2, <1>3, <1>6, <1>8, <2>1
  <2>4. [i \in Counted(s)' |-> i] \in [Counted(s)' -> Counted(s)]
    BY <2>2
  <2>5. QED
    BY <2>1, <2>3, <2>4
<1>9. CASE s = Top.sig /\ k = Top.kept + 1
  <2> DEFINE From == [i \in Counted(s)' |-> IF i = Top.kept + 1 THEN Top.pos ELSE i]
  <2>1. Top.pos \in Counted(s)
    BY <1>2, <1>3, <1>9
  <2>2. \A i \in Counted(s)' : i # Top.kept + 1 => i \in Counted(s) /\ i # Top.pos
    BY <1>2, <1>3, <1>6, <1>9
  <2>3. From \in [Counted(s)' -> Counted(s)]
    BY <2>1, <2>2
  <2>4. \A i \in Counted(s)' : recvs'[s][i] = recvs[s][From[i]]
    BY <1>2, <1>5, <1>6, <1>9
  <2>5. \A i, j \in Counted(s)' : From[i] = From[j] => i = j
    BY <2>2
  <2>6. ASSUME NEW j \in Counted(s)
        PROVE  \E i \in Counted(s)' : From[i] = j
    <3>1. Top.kept + 1 \in Counted(s)'
      BY <1>2, <1>6, <1>9
    <3>2. CASE j = Top.pos
      BY <3>1, <3>2
    <3>3. CASE j # Top.pos
      <4>1. j \in Counted(s)' /\ j # Top.kept + 1
        BY <1>2, <1>3, <1>6, <1>9, <3>3
      <4>2. QED
        BY <4>1
    <3>4. QED
      BY <3>2, <3>3
  <2> HIDE DEF From
  <2>7. QED
    BY <2>3, <2>4, <2>5, <2>6
<1>10. QED
  BY <1>7, <1>8, <1>9

-----------------------------------------------------------------------------
(* Each step keeps the invariant.                                          *)

(* A signal that is not initialised gets no slots.                         *)
LEMMA DeadStaysEmpty ==
  ASSUME SubscriptionInv, [Next]_vars
  PROVE  DeadIsEmpty'
<1>1. /\ TypeOK /\ TypeInv /\ TypeInv' /\ DeadIsEmpty
      /\ Len(<<>>) = 0
  BY TypeStep, EmptySeq DEF SubscriptionInv, TypeInv
<1>2. \A s \in Signal : ~live[s] => Len(recvs[s]) = 0
  BY <1>1 DEF DeadIsEmpty
<1>3. CASE UNCHANGED vars
  BY <1>1, <1>3 DEF vars, DeadIsEmpty
<1>4. ASSUME NEW s \in Signal,
             SignalInit(s) \/ Deinit(s) \/ DeinitHole(s) \/ Emit(s)
      PROVE  DeadIsEmpty'
  BY <1>1, <1>4 DEF SignalInit, Deinit, DeinitHole, Emit, DeadIsEmpty, TypeOK
<1>5. ASSUME NEW r \in Recv, NEW s \in Signal, ~live[s]
      PROVE  Unset(r)[s] = <<>>
  <2>1. ~Contains(recvs[s], r)
    BY <1>2, <1>5 DEF Contains
  <2>2. Unset(r)[s] = recvs[s]
    BY <1>1, <2>1 DEF Unset, TypeOK
  <2>3. QED
    BY <1>1, <1>5, <2>2 DEF DeadIsEmpty
<1>6. ASSUME NEW r \in Recv, RecvUnset(r)
      PROVE  DeadIsEmpty'
  BY <1>5, <1>6 DEF RecvUnset, DeadIsEmpty
<1>7. ASSUME NEW r \in Recv, NEW s \in Signal, RecvSet(r, s) \/ RecvSetFails(r, s)
      PROVE  DeadIsEmpty'
  <2>1. Unset(r) \in [Signal -> Seq(Slot)]
    BY <1>1, UnsetType
  <2>2. QED
    BY <1>5, <1>7, <2>1 DEF RecvSet, RecvSetFails, DeadIsEmpty
<1>8. CASE Call \/ CallHole \/ EndLoop \/ \E d \in 1 .. MaxDepth : Return(d)
  BY <1>1, <1>8 DEF Call, CallHole, EndLoop, Return, DeadIsEmpty
<1>9. CASE CompactSlot
  <2>1. /\ live' = live
        /\ Top.pos \in 1 .. Len(recvs[Top.sig])
        /\ \A t \in Signal : t # Top.sig => recvs'[t] = recvs[t]
    BY <1>1, <1>9, CompactSlotCopies DEF CompactSlot
  <2>2. ~ \E p \in 1 .. 0 : TRUE
    OBVIOUS
  <2>3. \A t \in Signal : ~live[t] => t # Top.sig
    BY <1>2, <2>1, <2>2
  <2>4. QED
    BY <1>1, <2>1, <2>3 DEF DeadIsEmpty
<1>10. CASE Shrink
  <2>1. /\ live' = live
        /\ recvs' \in [Signal -> Seq(Slot)]
        /\ Top.kept \in 0 .. Len(recvs[Top.sig])
        /\ Len(recvs'[Top.sig]) = Top.kept
        /\ \A t \in Signal : t # Top.sig => recvs'[t] = recvs[t]
    BY <1>1, <1>10, ShrinkCuts DEF Shrink
  <2>2. ASSUME NEW t \in Signal, ~live[t]
        PROVE  Len(recvs'[t]) = 0
    BY <1>2, <2>1, <2>2
  <2>3. \A t \in Signal : ~live[t] => recvs'[t] = <<>>
    BY <2>1, <2>2, EmptySeq
  <2>4. QED
    BY <2>1, <2>3 DEF DeadIsEmpty
<1>11. QED
  BY <1>3, <1>4, <1>6, <1>7, <1>8, <1>9, <1>10 DEF Next, Client, Library

(* Pointers and slots go on to agree.                                      *)
LEMMA SubscriptionStep ==
  ASSUME SubscriptionInv, [Next]_vars
  PROVE  SubscriptionInv'
<1>1. /\ TypeOK /\ TypeInv /\ TypeInv' /\ DeadIsEmpty /\ DeadIsEmpty'
      /\ SubscriptionConsistent
  BY TypeStep, DeadStaysEmpty DEF SubscriptionInv, TypeInv
<1>2. SUFFICES SubscriptionConsistent'
  BY <1>1 DEF SubscriptionInv
<1>3. ClientTurn => NoCompaction /\ Agreed
  <2>1. ClientTurn => NoCompaction
    BY <1>1, ClientTurnInside DEF NoCompaction
  <2>2. QED
    BY <1>1, <2>1, AllCount
<1>4. ASSUME ClientTurn, UNCHANGED stack, Agreed'
      PROVE  SubscriptionConsistent'
  BY <1>1, <1>3, <1>4, AllCountNext DEF NoCompaction
<1>5. CASE UNCHANGED vars \/ CallHole
  BY <1>1, <1>5 DEF vars, CallHole, SubscriptionConsistent, Holds, Counted
<1>6. ASSUME NEW s \in Signal, SignalInit(s)
      PROVE  SubscriptionConsistent'
  <2>1. ClientTurn /\ ~live[s] /\ UNCHANGED <<stack, attached>>
        /\ recvs' = [recvs EXCEPT ![s] = <<>>]
    BY <1>6 DEF SignalInit
  <2>2. recvs' = recvs
    BY <1>1, <2>1 DEF DeadIsEmpty, TypeOK
  <2>3. Agreed'
    BY <1>3, <2>1, <2>2 DEF Agreed
  <2>4. QED
    BY <1>4, <2>1, <2>3
<1>7. ASSUME NEW s \in Signal, Deinit(s)
      PROVE  SubscriptionConsistent'
  <2>1. /\ ClientTurn /\ UNCHANGED stack
        /\ recvs' = [recvs EXCEPT ![s] = <<>>]
        /\ attached' = [r \in Recv |->
                          IF r \in ToSet(recvs[s]) THEN NULL ELSE attached[r]]
    BY <1>7 DEF Deinit, MayDeinit
  <2>2. \A r \in Recv : r \in ToSet(recvs[s]) <=> attached[r] = s
    <3>1. recvs[s] \in Seq(Slot)
      BY <1>1 DEF TypeOK
    <3>2. \A r \in Recv : r \in ToSet(recvs[s]) <=> Contains(recvs[s], r)
      BY <3>1 DEF ToSet, Contains
    <3>3. QED
      BY <1>3, <2>1, <3>2 DEF Agreed
  <2>3. Len(<<>>) = 0
    BY EmptySeq
  <2>4. ASSUME NEW t \in Signal
        PROVE  /\ Distinct(recvs'[t])
               /\ \A r \in Recv : attached'[r] = t <=> Contains(recvs'[t], r)
    <3>1. t # NULL
      BY NullAssumption
    <3>2. CASE t = s
      <4>1. recvs'[t] = <<>>
        BY <1>1, <2>1, <3>2 DEF TypeOK
      <4>2. \A r \in Recv : attached'[r] # t
        BY <2>1, <2>2, <3>1, <3>2
      <4>3. QED
        BY <2>3, <4>1, <4>2 DEF Distinct, Contains
    <3>3. CASE t # s
      <4>1. recvs'[t] = recvs[t]
        BY <1>1, <2>1, <3>3 DEF TypeOK
      <4>2. \A r \in Recv : attached'[r] = t <=> attached[r] = t
        BY <2>1, <2>2, <3>1, <3>3
      <4>3. QED
        BY <1>3, <2>1, <4>1, <4>2 DEF Agreed
    <3>4. QED
      BY <3>2, <3>3
  <2>5. Agreed'
    BY <2>4 DEF Agreed
  <2>6. QED
    BY <1>4, <2>1, <2>5
<1>8. ASSUME NEW s \in Signal, DeinitHole(s)
      PROVE  SubscriptionConsistent'
  BY <1>1, <1>8 DEF DeinitHole, SubscriptionConsistent, Holds, Counted
<1>9. ASSUME NEW r \in Recv, ClientTurn, UNCHANGED stack,
             recvs' = Unset(r), attached' = [attached EXCEPT ![r] = NULL]
      PROVE  SubscriptionConsistent'
  <2>1. ASSUME NEW s \in Signal
        PROVE  /\ Distinct(recvs'[s])
               /\ \A x \in Recv : attached'[x] = s <=> Contains(recvs'[s], x)
    <3>1. /\ Distinct(recvs'[s])
          /\ \A x \in Recv : Contains(recvs'[s], x) <=> x # r /\ attached[x] = s
      BY <1>1, <1>3, <1>9, UnsetDropsOne
    <3>2. s # NULL
      BY NullAssumption
    <3>3. \A x \in Recv : attached'[x] = s <=> x # r /\ attached[x] = s
      BY <1>1, <1>9, <3>2 DEF TypeOK
    <3>4. QED
      BY <3>1, <3>3
  <2>2. Agreed'
    BY <2>1 DEF Agreed
  <2>3. QED
    BY <1>4, <1>9, <2>2
<1>10. ASSUME NEW r \in Recv, RecvUnset(r)
       PROVE  SubscriptionConsistent'
  BY <1>9, <1>10 DEF RecvUnset, MayDetach
<1>11. ASSUME NEW r \in Recv, NEW s \in Signal, RecvSetFails(r, s)
       PROVE  SubscriptionConsistent'
  BY <1>9, <1>11 DEF RecvSetFails, MayDetach
<1>12. ASSUME NEW r \in Recv, NEW s \in Signal, RecvSet(r, s)
       PROVE  SubscriptionConsistent'
  <2>1. /\ ClientTurn /\ UNCHANGED stack
        /\ recvs' = [Unset(r) EXCEPT ![s] = Append(@, r)]
        /\ attached' = [attached EXCEPT ![r] = s]
    BY <1>12 DEF RecvSet, MayDetach
  <2>2. Unset(r) \in [Signal -> Seq(Slot)]
    BY <1>1, UnsetType
  <2>3. ASSUME NEW t \in Signal
        PROVE  /\ Distinct(recvs'[t])
               /\ \A x \in Recv : attached'[x] = t <=> Contains(recvs'[t], x)
    <3> DEFINE q == Unset(r)[t]
    <3>1. /\ q \in Seq(Slot) /\ Distinct(q)
          /\ \A x \in Recv : Contains(q, x) <=> x # r /\ attached[x] = t
      BY <1>1, <1>3, <2>1, UnsetDropsOne
    <3>2. \A x \in Recv : attached'[x] = IF x = r THEN s ELSE attached[x]
      BY <1>1, <2>1 DEF TypeOK
    <3>3. CASE t = s
      <4>1. recvs'[t] = Append(q, r)
        BY <2>1, <2>2, <3>3
      <4> HIDE DEF q
      <4>2. /\ Distinct(recvs'[t])
            /\ \A x \in Recv : Contains(recvs'[t], x) <=> x = r \/ Contains(q, x)
        BY <3>1, <4>1, AppendAddsOne
      <4>3. QED
        BY <3>1, <3>2, <3>3, <4>2
    <3>4. CASE t # s
      <4>1. recvs'[t] = q
        BY <2>1, <2>2, <3>4
      <4> HIDE DEF q
      <4>2. QED
        BY <3>1, <3>2, <3>4, <4>1
    <3>5. QED
      BY <3>3, <3>4
  <2>4. Agreed'
    BY <2>3 DEF Agreed
  <2>5. QED
    BY <1>4, <2>1, <2>4
<1>13. ASSUME NEW s \in Signal, Emit(s)
       PROVE  SubscriptionConsistent'
  <2> DEFINE f == [sig |-> s, pc |-> "loop", pos |-> 1, kept |-> 0]
  <2>1. ClientTurn /\ stack' = Append(stack, f) /\ UNCHANGED <<recvs, attached>>
    BY <1>13 DEF Emit
  <2>2. NoCompaction'
    <3>1. f \in Frame /\ f.pc # "compact"
      BY DEF Frame
    <3> HIDE DEF f
    <3>2. /\ \A d \in DOMAIN stack' : d \in DOMAIN stack \/ d = Len(stack) + 1
          /\ \A d \in DOMAIN stack : stack'[d] = stack[d]
          /\ stack'[Len(stack) + 1] = f
      BY <1>1, <2>1, <3>1, AppendProperties DEF TypeOK
    <3>3. QED
      BY <1>3, <2>1, <3>1, <3>2 DEF NoCompaction
  <2>3. Agreed'
    BY <1>3, <2>1 DEF Agreed
  <2>4. QED
    BY <1>1, <2>2, <2>3, AllCountNext
<1>14. ASSUME NEW pc \in {"loop", "inside"}, NEW pos \in Nat \ {0}, NEW kept \in Nat,
              stack # <<>>, Top.pc # "compact", MoveTo(pc, pos, kept),
              UNCHANGED <<recvs, attached>>
       PROVE  SubscriptionConsistent'
  <2>1. /\ DOMAIN stack' = DOMAIN stack
        /\ Len(stack) \in DOMAIN stack /\ stack[Len(stack)] = Top
        /\ \A d \in DOMAIN stack : d # Len(stack) => stack'[d] = stack[d]
        /\ stack'[Len(stack)] =
              [sig |-> Top.sig, pc |-> pc, pos |-> pos, kept |-> kept]
    BY <1>1, <1>14, TopMovesOnly
  <2>2. NoCompaction /\ NoCompaction'
    BY <1>1, <1>14, <2>1 DEF NoCompaction, TypeInv, OnlyTopMoves, TypeOK
  <2>3. Agreed'
    BY <1>1, <1>14, <2>2, AllCount DEF Agreed
  <2>4. QED
    BY <1>1, <2>2, <2>3, AllCountNext
<1>15. CASE Call
  <2>1. /\ stack # <<>> /\ Top.pc = "loop" /\ MoveTo("inside", Top.pos, Top.kept)
        /\ UNCHANGED <<recvs, attached>>
    BY <1>15 DEF Call, EmitterAt
  <2>2. Top.pos \in Nat \ {0} /\ Top.kept \in Nat
    BY <1>1, <2>1, TopFrame DEF Frame
  <2>3. QED
    BY <1>14, <2>1, <2>2
<1>16. ASSUME NEW d \in 1 .. MaxDepth, Return(d)
       PROVE  SubscriptionConsistent'
  <2>1. /\ stack # <<>> /\ Top.pc = "inside" /\ MoveTo("loop", Top.pos + 1, Top.kept)
        /\ UNCHANGED <<recvs, attached>>
    BY <1>16 DEF Return, EmitterAt
  <2>2. Top.pos + 1 \in Nat \ {0} /\ Top.kept \in Nat
    BY <1>1, <2>1, TopFrame DEF Frame
  <2>3. QED
    BY <1>14, <2>1, <2>2
<1>17. CASE EndLoop
  <2>1. /\ stack # <<>> /\ Top.pc = "loop" /\ MoveTo("compact", 1, 0)
        /\ UNCHANGED <<recvs, attached>>
    BY <1>17 DEF EndLoop, EmitterAt
  <2>2. NoCompaction
    <3>1. /\ Len(stack) \in DOMAIN stack /\ stack[Len(stack)] = Top
          /\ \A d \in DOMAIN stack : d = Len(stack) \/ d < Len(stack)
      BY <1>1, <2>1, TopFrame DEF TypeOK, Top
    <3>2. QED
      BY <1>1, <2>1, <3>1 DEF NoCompaction, TypeInv, OnlyTopMoves
  <2>3. 1 \in Nat \ {0} /\ 0 \in Nat
    OBVIOUS
  <2>4. ASSUME NEW s \in Signal
        PROVE  Counted(s)' = Counted(s)
    <3>1. Counted(s)' = {i \in 1 .. Len(recvs'[s]) :
                           s = Top.sig => i <= 0 \/ i >= 1}
      BY <1>1, <2>1, <2>3, CompactingSlotsNext
    <3>2. Counted(s) = 1 .. Len(recvs[s])
      BY <1>1, <2>2, AllCount
    <3>3. QED
      BY <2>1, <3>1, <3>2
  <2>5. QED
    BY <1>1, <2>1, <2>4 DEF SubscriptionConsistent, Holds
<1>18. CASE CompactSlot
  <2>1. attached' = attached
    BY <1>18 DEF CompactSlot
  <2>2. ASSUME NEW s \in Signal
        PROVE  /\ \A r \in Recv : attached'[r] = s <=> Holds(s, r)'
               /\ \A i, j \in Counted(s)' :
                    recvs'[s][i] = recvs'[s][j] /\ recvs'[s][i] # NULL => i = j
    <3>1. PICK From \in [Counted(s)' -> Counted(s)] :
            /\ \A i \in Counted(s)' : recvs'[s][i] = recvs[s][From[i]]
            /\ \A i, j \in Counted(s)' : From[i] = From[j] => i = j
            /\ \A j \in Counted(s) :
                 recvs[s][j] # NULL => \E i \in Counted(s)' : From[i] = j
      BY <1>1, <1>18, CompactionCarries
    <3>2. \A i \in Counted(s)' : From[i] \in Counted(s)
      OBVIOUS
    <3>3. ASSUME NEW r \in Recv
          PROVE  Holds(s, r)' <=> Holds(s, r)
      <4>1. r # NULL
        BY NullAssumption
      <4>2. QED
        BY <3>1, <3>2, <4>1 DEF Holds
    <3>4. \A i, j \in Counted(s)' :
            recvs'[s][i] = recvs'[s][j] /\ recvs'[s][i] # NULL => i = j
      <4>1. \A i, j \in Counted(s) :
              recvs[s][i] = recvs[s][j] /\ recvs[s][i] # NULL => i = j
        BY <1>1 DEF SubscriptionConsistent
      <4>2. QED
        BY <3>1, <3>2, <4>1
    <3>5. QED
      BY <1>1, <2>1, <3>3, <3>4 DEF SubscriptionConsistent
  <2>3. QED
    BY <2>2 DEF SubscriptionConsistent
<1>19. CASE Shrink
  <2>1. /\ stack # <<>> /\ Top.pc = "compact" /\ attached' = attached
    BY <1>19 DEF Shrink, EmitterAt
  <2>2. /\ Top.sig \in Signal /\ stack' = Front(stack)
        /\ Top.kept \in 0 .. Len(recvs[Top.sig])
        /\ Top.pos = Len(recvs[Top.sig]) + 1
        /\ Len(recvs'[Top.sig]) = Top.kept
        /\ \A i \in 1 .. Top.kept : recvs'[Top.sig][i] = recvs[Top.sig][i]
        /\ \A t \in Signal : t # Top.sig => recvs'[t] = recvs[t]
        /\ recvs[Top.sig] \in Seq(Slot)
    BY <1>1, <1>19, <2>1, ShrinkCuts, TopFrame
  <2>3. NoCompaction'
    <3>1. /\ Len(stack) \in Nat \ {0}
          /\ stack' \in Seq(Frame) /\ Len(stack') = Len(stack) - 1
          /\ \A d \in 1 .. (Len(stack) - 1) : stack'[d] = stack[d]
      BY <1>1, <2>1, <2>2, TopFrame
    <3>2. DOMAIN stack' = 1 .. (Len(stack) - 1) /\ DOMAIN stack = 1 .. Len(stack)
      BY <1>1, <3>1 DEF TypeOK
    <3>3. \A d \in DOMAIN stack' :
            d \in DOMAIN stack /\ d < Len(stack) /\ stack'[d] = stack[d]
      BY <3>1, <3>2
    <3>4. QED
      BY <1>1, <3>3 DEF NoCompaction, TypeInv, OnlyTopMoves
  <2>4. ASSUME NEW s \in Signal
        PROVE  /\ Counted(s) = 1 .. Len(recvs'[s])
               /\ \A i \in 1 .. Len(recvs'[s]) : recvs'[s][i] = recvs[s][i]
    <3>1. Counted(s) = {i \in 1 .. Len(recvs[s]) :
                          s = Top.sig => i <= Top.kept \/ i >= Top.pos}
      BY <1>1, <2>1, CompactingSlots
    <3>2. QED
      BY <2>2, <3>1
  <2>5. \A r \in Recv, s \in Signal : Contains(recvs'[s], r) <=> Holds(s, r)
    BY <2>4 DEF Contains, Holds
  <2>6. Agreed'
    BY <1>1, <2>1, <2>4, <2>5 DEF Agreed, Distinct, SubscriptionConsistent
  <2>7. QED
    BY <1>1, <2>3, <2>6, AllCountNext
<1>20. QED
  BY <1>5, <1>6, <1>7, <1>8, <1>10, <1>11, <1>12, <1>13, <1>15, <1>16, <1>17,
     <1>18, <1>19 DEF Next, Client, Library

(* Whatever the clients do, and however emissions nest, a receiver has one *)
(* slot in the signal it points at and none in any other, in and between   *)
(* callbacks and at every step of a compaction.                            *)
THEOREM PointersAndSlotsAgree == Spec => []SubscriptionConsistent
<1>1. Init => SubscriptionInv
  <2> SUFFICES ASSUME Init PROVE SubscriptionInv
    OBVIOUS
  <2>1. /\ TypeInv /\ DOMAIN stack = {} /\ Len(<<>>) = 0
        /\ \A s \in Signal : recvs[s] = <<>>
        /\ \A r \in Recv : attached[r] = NULL
    BY TypeInit, EmptySeq DEF Init
  <2>2. NoCompaction
    BY <2>1 DEF NoCompaction
  <2>3. Agreed
    BY <2>1, NullAssumption DEF Agreed, Distinct, Contains
  <2>4. QED
    BY <2>1, <2>2, <2>3, AllCount DEF SubscriptionInv, DeadIsEmpty
<1>2. SubscriptionInv /\ [Next]_vars => SubscriptionInv'
  BY SubscriptionStep
<1>3. SubscriptionInv => SubscriptionConsistent
  BY DEF SubscriptionInv
<1>4. QED
  BY <1>1, <1>2, <1>3, PTL DEF Spec
=============================================================================
