---------------------------- MODULE SignalProofs -----------------------------
(***************************************************************************)
(* What holds of util/signal.h for any number of signals, receivers, slots *)
(* and nested emissions.                                                   *)
(***************************************************************************)
EXTENDS Signal, TLAPS, SequenceTheorems, WellFoundedInduction

USE DEF Detached, FirstIndex, NextIndex, AtEnd, FlagCleared, Kept

-----------------------------------------------------------------------------
(* Facts about the operators the model is built from.                      *)

(* A set of naturals that is not empty has a least element.                *)
LEMMA LeastNatural ==
  ASSUME NEW S \in SUBSET Nat, S # {}
  PROVE  \E m \in S : \A k \in S : m <= k
<1> DEFINE R == {p \in Nat \X Nat : p[1] < p[2]}
<1>1. IsWellFoundedOn(R, Nat)
  BY NatLessThanWellFounded DEF OpToRel
<1>2. PICK m \in S : \A k \in S : <<k, m>> \notin R
  <2> HIDE DEF R
  <2> QED  BY <1>1, WFMin
<1>3. ASSUME NEW k \in S
      PROVE  m <= k
  <2>1. ~(k < m)
    BY <1>2
  <2>2. m \in Nat /\ k \in Nat
    OBVIOUS
  <2>3. QED
    BY <2>1, <2>2
<1>4. QED
  BY <1>3

(* nf7util_signal_recvs_find() finds a receiver that has a slot.           *)
LEMMA FirstSlotFound ==
  ASSUME NEW T, NEW q \in Seq(T), NEW r, Contains(q, r)
  PROVE  /\ FirstSlot(q, r) \in 1 .. Len(q)
         /\ q[FirstSlot(q, r)] = r
<1> DEFINE At == {i \in 1 .. Len(q) : q[i] = r}
<1>1. At \in SUBSET Nat /\ At # {}
  BY DEF Contains
<1>2. PICK i \in At : \A j \in At : i <= j
  BY <1>1, LeastNatural
<1>3. i \in DOMAIN q /\ q[i] = r /\ \A j \in 1 .. (i - 1) : q[j] # r
  BY <1>2
<1>4. QED
  BY <1>3 DEF FirstSlot

(* What the removal of a slot does to an array.                            *)
LEMMA RemoveAtSlots ==
  ASSUME NEW T, NEW q \in Seq(T), NEW i \in 1 .. Len(q)
  PROVE  /\ RemoveAt(q, i) \in Seq(T)
         /\ Len(RemoveAt(q, i)) = Len(q) - 1
         /\ \A j \in 1 .. (Len(q) - 1) :
              RemoveAt(q, i)[j] = IF j < i THEN q[j] ELSE q[j + 1]
<1> DEFINE a == SubSeq(q, 1, i - 1)
           b == SubSeq(q, i + 1, Len(q))
<1>1. /\ a \in Seq(T)
      /\ Len(a) = i - 1
      /\ \A j \in 1 .. (i - 1) : a[j] = q[j]
  BY SubSeqProperties
<1>2. /\ b \in Seq(T)
      /\ Len(b) = Len(q) - i
      /\ \A j \in 1 .. (Len(q) - i) : b[j] = q[i + j]
  BY SubSeqProperties
<1>3. RemoveAt(q, i) = a \o b
  BY DEF RemoveAt
<1> HIDE DEF a, b
<1>4. /\ a \o b \in Seq(T)
      /\ Len(a \o b) = Len(a) + Len(b)
      /\ \A j \in 1 .. Len(a) + Len(b) :
           (a \o b)[j] = IF j <= Len(a) THEN a[j] ELSE b[j - Len(a)]
  BY <1>1, <1>2, ConcatProperties
<1>5. ASSUME NEW j \in 1 .. (Len(q) - 1)
      PROVE  (a \o b)[j] = IF j < i THEN q[j] ELSE q[j + 1]
  <2> j \in 1 .. Len(a) + Len(b)
    BY <1>1, <1>2
  <2>1. CASE j < i
    BY <2>1, <1>1, <1>4
  <2>2. CASE j >= i
    <3>1. j - (i - 1) \in 1 .. (Len(q) - i)
      BY <2>2
    <3>2. b[j - (i - 1)] = q[j + 1]
      BY <3>1, <1>2
    <3>3. (a \o b)[j] = b[j - (i - 1)]
      BY <2>2, <1>1, <1>4
    <3>4. QED
      BY <2>2, <3>2, <3>3
  <2>3. QED
    BY <2>1, <2>2
<1>6. QED
  BY <1>1, <1>2, <1>3, <1>4, <1>5

(* The slots of each signal after an unset are slots.                      *)
LEMMA UnsetType ==
  ASSUME TypeOK, NEW r \in Recv
  PROVE  Unset(r) \in [Signal -> Seq(Slot)]
<1> DEFINE s == attached[r]
           q == recvs[s]
<1>1. CASE s = NULL \/ ~Contains(q, r)
  BY <1>1 DEF Unset, TypeOK
<1>2. CASE s # NULL /\ Contains(q, r)
  <2>1. s \in Signal /\ q \in Seq(Slot)
    BY <1>2 DEF TypeOK
  <2>2. FirstSlot(q, r) \in 1 .. Len(q)
    BY <1>2, <2>1, FirstSlotFound
  <2>3. RemoveAt(q, FirstSlot(q, r)) \in Seq(Slot)
    BY <2>1, <2>2, RemoveAtSlots
  <2>4. [q EXCEPT ![FirstSlot(q, r)] = NULL] \in Seq(Slot)
    BY <2>1, <2>2, ExceptSeq DEF Slot
  <2>5. Unset(r) = [recvs EXCEPT ![s] =
                      IF emitting[s] THEN [q EXCEPT ![FirstSlot(q, r)] = NULL]
                                     ELSE RemoveAt(q, FirstSlot(q, r))]
    BY <1>2, <2>1 DEF Unset, TypeOK
  <2>6. QED
    BY <2>1, <2>3, <2>4, <2>5 DEF TypeOK
<1>3. QED
  BY <1>1, <1>2

-----------------------------------------------------------------------------
(* What the emission's steps do to the stack.                              *)

(* Every frame is one, of a signal whose slots are slots.                  *)
LEMMA FramesTyped ==
  ASSUME TypeOK, NEW d \in DOMAIN stack
  PROVE  /\ stack[d] \in Frame
         /\ stack[d].sig \in Signal
         /\ recvs[stack[d].sig] \in Seq(Slot)
<1>1. stack[d] \in Frame
  BY ElementOfSeq DEF TypeOK
<1>2. QED
  BY <1>1 DEF TypeOK, Frame

(* The innermost emission, and the stack once it has returned.             *)
LEMMA TopFrame ==
  ASSUME TypeOK, stack # <<>>
  PROVE  /\ Len(stack) \in Nat \ {0}
         /\ Top \in Frame
         /\ Top.sig \in Signal
         /\ recvs[Top.sig] \in Seq(Slot)
         /\ Front(stack) \in Seq(Frame)
         /\ Len(Front(stack)) = Len(stack) - 1
         /\ \A d \in 1 .. (Len(stack) - 1) : Front(stack)[d] = stack[d]
<1>1. Len(stack) \in 1 .. Len(stack)
  BY EmptySeq DEF TypeOK
<1>2. Top \in Frame
  BY <1>1, ElementOfSeq DEF TypeOK, Top
<1>3. /\ Front(stack) \in Seq(Frame)
      /\ Len(Front(stack)) = Len(stack) - 1
      /\ \A d \in 1 .. (Len(stack) - 1) : Front(stack)[d] = stack[d]
  <2>1. \A d \in 1 .. (Len(stack) - 1) : stack[d] \in Frame
    BY <1>1, ElementOfSeq DEF TypeOK
  <2> DEFINE n == Len(stack) - 1
  <2>2. n \in Nat /\ \A d \in 1 .. n : stack[d] \in Frame
    BY <1>1, <2>1
  <2> HIDE DEF n
  <2>3. /\ SubSeq(stack, 1, n) \in Seq(Frame)
        /\ Len(SubSeq(stack, 1, n)) = n
        /\ \A d \in 1 .. n : SubSeq(stack, 1, n)[d] = stack[d]
    BY <2>2, SubSeqProperties
  <2>4. QED
    BY <2>3 DEF Front, n
<1>4. Top.sig \in Signal
  BY <1>2 DEF Frame
<1>5. QED
  BY <1>1, <1>2, <1>3, <1>4 DEF TypeOK

(* Moving the innermost emission on leaves frames, of the same signals.    *)
LEMMA TopMoves ==
  ASSUME TypeOK, stack # <<>>,
         NEW pc \in {"loop", "inside", "compact"},
         NEW pos \in Nat \ {0}, NEW kept \in Nat,
         MoveTo(pc, pos, kept)
  PROVE  /\ stack' \in Seq(Frame)
         /\ Len(stack') = Len(stack)
         /\ \A d \in 1 .. (Len(stack) - 1) : stack'[d] = stack[d]
         /\ Top' = [sig |-> Top.sig, pc |-> pc, pos |-> pos, kept |-> kept]
<1> DEFINE g == [sig |-> Top.sig, pc |-> pc, pos |-> pos, kept |-> kept]
<1>1. Len(stack) \in 1 .. Len(stack) /\ g \in Frame
  BY TopFrame DEF Frame
<1>2. stack' = [stack EXCEPT ![Len(stack)] = g]
  BY DEF MoveTo
<1>3. /\ stack' \in Seq(Frame)
      /\ Len(stack') = Len(stack)
      /\ \A d \in 1 .. Len(stack) :
           stack'[d] = IF d = Len(stack) THEN g ELSE stack[d]
  <2> HIDE DEF g
  <2> QED  BY <1>1, <1>2, ExceptSeq DEF TypeOK
<1>4. QED
  BY <1>1, <1>3 DEF Top
(* One step of the compaction either copies a receiver down or skips a     *)
(* hole, within the array.                                                 *)
LEMMA CompactSlotCopies ==
  ASSUME TypeInv, CompactSlot
  PROVE  LET s == Top.sig
         IN  /\ Top.pos \in 1 .. Len(recvs[s])
             /\ Top.kept \in 0 .. (Top.pos - 1)
             /\ recvs' \in [Signal -> Seq(Slot)]
             /\ Len(recvs'[s]) = Len(recvs[s])
             /\ \A t \in Signal : t # s => recvs'[t] = recvs[t]
             /\ \/ /\ recvs[s][Top.pos] # NULL
                   /\ MoveTo("compact", Top.pos + 1, Top.kept + 1)
                   /\ \A i \in 1 .. Len(recvs[s]) :
                        recvs'[s][i] = IF i = Top.kept + 1 THEN recvs[s][Top.pos]
                                                           ELSE recvs[s][i]
                \/ /\ recvs[s][Top.pos] = NULL
                   /\ MoveTo("compact", Top.pos + 1, Top.kept)
                   /\ recvs' = recvs
<1> DEFINE s == Top.sig
<1>1. /\ stack # <<>> /\ Top.pc = "compact"
      /\ Top.pos <= Len(recvs[s])
  BY DEF CompactSlot, EmitterAt
<1>2. /\ Top \in Frame /\ s \in Signal /\ recvs[s] \in Seq(Slot)
      /\ Len(stack) \in DOMAIN stack
  BY <1>1, TopFrame DEF TypeInv, TypeOK
<1>3. /\ Top.pos \in 1 .. Len(recvs[s])
      /\ Top.kept \in 0 .. (Top.pos - 1)
  BY <1>1, <1>2 DEF TypeInv, CompactsDownwards, Frame, Top
<1>4. recvs \in [Signal -> Seq(Slot)]
  BY DEF TypeInv, TypeOK
<1>5. CASE recvs[s][Top.pos] # NULL
  <2> DEFINE q == [recvs[s] EXCEPT ![Top.kept + 1] = recvs[s][Top.pos]]
  <2>1. /\ MoveTo("compact", Top.pos + 1, Top.kept + 1)
        /\ recvs' = [recvs EXCEPT ![s] = q]
    BY <1>5 DEF CompactSlot
  <2>2. recvs[s][Top.pos] \in Slot /\ Top.kept + 1 \in 1 .. Len(recvs[s])
    BY SMTT(30), <1>2, <1>3, ElementOfSeq
  <2>3. /\ q \in Seq(Slot)
        /\ Len(q) = Len(recvs[s])
        /\ \A i \in 1 .. Len(recvs[s]) :
             q[i] = IF i = Top.kept + 1 THEN recvs[s][Top.pos] ELSE recvs[s][i]
    BY <1>2, <2>2, ExceptSeq
  <2> HIDE DEF q
  <2>4. recvs'[s] = q /\ recvs' \in [Signal -> Seq(Slot)]
    BY <1>2, <1>4, <2>1, <2>3
  <2>5. \A t \in Signal : t # s => recvs'[t] = recvs[t]
    BY <1>4, <2>1
  <2>6. QED
    BY <1>3, <1>5, <2>1, <2>3, <2>4, <2>5
<1>6. CASE recvs[s][Top.pos] = NULL
  <2>1. MoveTo("compact", Top.pos + 1, Top.kept) /\ recvs' = recvs
    BY <1>6 DEF CompactSlot
  <2>2. QED
    BY <1>3, <1>4, <1>6, <2>1
<1>7. QED
  BY <1>5, <1>6

(* The last step of an emission keeps exactly what was copied.             *)
LEMMA ShrinkCuts ==
  ASSUME TypeInv, Shrink
  PROVE  LET s == Top.sig
         IN  /\ s \in Signal
             /\ Top.kept \in 0 .. Len(recvs[s])
             /\ Top.pos = Len(recvs[s]) + 1
             /\ stack' = Front(stack)
             /\ recvs' \in [Signal -> Seq(Slot)]
             /\ Len(recvs'[s]) = Top.kept
             /\ \A i \in 1 .. Top.kept : recvs'[s][i] = recvs[s][i]
             /\ \A t \in Signal : t # s => recvs'[t] = recvs[t]
<1> DEFINE s == Top.sig
           q == SubSeq(recvs[s], 1, Top.kept)
<1>1. /\ stack # <<>> /\ Top.pc = "compact" /\ Top.pos > Len(recvs[s])
      /\ stack' = Front(stack)
      /\ recvs' = [recvs EXCEPT ![s] = q]
  BY DEF Shrink, EmitterAt
<1>2. /\ Top \in Frame /\ s \in Signal /\ recvs[s] \in Seq(Slot)
      /\ Len(stack) \in DOMAIN stack
  BY <1>1, TopFrame DEF TypeInv, TypeOK
<1>3. Top.kept \in 0 .. Len(recvs[s]) /\ Top.pos = Len(recvs[s]) + 1
  <2>1. Top.kept < Top.pos /\ Top.pos <= Len(recvs[s]) + 1
    BY <1>1, <1>2 DEF TypeInv, CompactsDownwards, Top
  <2>2. Top.kept \in Nat /\ Top.pos \in Nat /\ Len(recvs[s]) \in Nat
    BY <1>2 DEF Frame
  <2> HIDE DEF s
  <2>3. QED
    BY <1>1, <2>1, <2>2
<1>4. /\ q \in Seq(Slot)
      /\ Len(q) = Top.kept
      /\ \A i \in 1 .. Top.kept : q[i] = recvs[s][i]
  <2>1. \A i \in 1 .. Top.kept : recvs[s][i] \in Slot
    BY <1>2, <1>3, ElementOfSeq
  <2>2. Top.kept \in Nat
    BY <1>3
  <2>3. QED
    BY <2>1, <2>2, SubSeqProperties
<1> HIDE DEF q
<1>5. recvs \in [Signal -> Seq(Slot)]
  BY DEF TypeInv, TypeOK
<1>6. /\ recvs'[s] = q /\ recvs' \in [Signal -> Seq(Slot)]
      /\ \A t \in Signal : t # s => recvs'[t] = recvs[t]
  BY <1>1, <1>2, <1>4, <1>5
<1>7. QED
  BY <1>1, <1>2, <1>3, <1>4, <1>6

-----------------------------------------------------------------------------
(* Type correctness.                                                       *)

(* While the client has the control every emission is inside a callback.   *)
LEMMA ClientTurnInside ==
  ASSUME TypeInv, ClientTurn, NEW d \in DOMAIN stack
  PROVE  stack[d].pc = "inside"
<1>1. Len(stack) \in Nat /\ d \in 1 .. Len(stack) /\ stack # <<>>
  BY EmptySeq DEF TypeInv, TypeOK
<1>2. QED
  BY <1>1 DEF TypeInv, OnlyTopMoves, ClientTurn, Top

(* Each step of a client, of a callback or of an emission keeps the types. *)
LEMMA TypeStep ==
  ASSUME TypeInv, [Next]_vars
  PROVE  TypeInv'
<1> USE DEF TypeInv
<1>1. CASE UNCHANGED vars
  BY <1>1 DEF vars, TypeOK, OnlyTopMoves, CompactsDownwards
<1>2. ASSUME ClientTurn, UNCHANGED stack, TypeOK'
      PROVE  TypeInv'
  BY <1>2, ClientTurnInside DEF OnlyTopMoves, CompactsDownwards
<1>3. ASSUME NEW s \in Signal, SignalInit(s) \/ Deinit(s) \/ DeinitHole(s)
      PROVE  TypeInv'
  <2>1. ClientTurn /\ UNCHANGED stack
    BY <1>3 DEF SignalInit, Deinit, DeinitHole, MayDeinit
  <2>2. <<>> \in Seq(Slot)
    BY EmptySeq
  <2>3. TypeOK'
    BY <1>3, <2>2 DEF SignalInit, Deinit, DeinitHole, TypeOK
  <2>4. QED
    BY <1>2, <2>1, <2>3
<1>4. ASSUME NEW r \in Recv, NEW s \in Signal,
             RecvSet(r, s) \/ RecvSetFails(r, s)
      PROVE  TypeInv'
  <2>1. ClientTurn /\ UNCHANGED stack
    BY <1>4 DEF RecvSet, RecvSetFails, MayDetach
  <2>2. Unset(r) \in [Signal -> Seq(Slot)]
    BY UnsetType
  <2>3. Append(Unset(r)[s], r) \in Seq(Slot)
    BY <2>2, AppendProperties DEF Slot
  <2>4. TypeOK'
    BY <1>4, <2>2, <2>3 DEF RecvSet, RecvSetFails, TypeOK
  <2>5. QED
    BY <1>2, <2>1, <2>4
<1>13. ASSUME NEW r \in Recv, RecvUnset(r)
       PROVE  TypeInv'
  <2>1. ClientTurn /\ UNCHANGED stack
    BY <1>13 DEF RecvUnset, MayDetach
  <2>2. TypeOK'
    BY <1>13, UnsetType DEF RecvUnset, TypeOK
  <2>3. QED
    BY <1>2, <2>1, <2>2
<1>5. ASSUME NEW s \in Signal, Emit(s)
      PROVE  TypeInv'
  <2> DEFINE f == [sig |-> s, pc |-> "loop", pos |-> 1, kept |-> 0]
  <2>1. f \in Frame
    BY DEF Frame
  <2>2. /\ stack' \in Seq(Frame)
        /\ Len(stack') = Len(stack) + 1
        /\ \A d \in 1 .. Len(stack) : stack'[d] = stack[d]
        /\ stack'[Len(stack) + 1] = f
    <3>1. stack' = Append(stack, f) /\ stack \in Seq(Frame)
      BY <1>5 DEF Emit, TypeOK
    <3> HIDE DEF f
    <3>2. QED
      BY <2>1, <3>1, AppendProperties
  <2>3. TypeOK'
    BY <1>5, <2>2 DEF TypeOK, Emit
  <2>4. \A d \in 1 .. Len(stack) : stack'[d].pc = "inside"
    BY <1>5, <2>2, ClientTurnInside DEF Emit, TypeOK
  <2>5. \A d \in DOMAIN stack' : d \in 1 .. Len(stack) \/ d = Len(stack) + 1
    BY <2>2 DEF TypeOK
  <2>6. QED
    BY <2>2, <2>3, <2>4, <2>5 DEF OnlyTopMoves, CompactsDownwards
<1>6. ASSUME NEW pc \in {"loop", "inside", "compact"},
             NEW pos \in Nat \ {0}, NEW kept \in Nat,
             stack # <<>>, MoveTo(pc, pos, kept), TypeOK',
             pc = "compact" => kept < pos /\ pos <= Len(recvs'[Top.sig]) + 1
      PROVE  TypeInv'
  <2>1. /\ Len(stack') = Len(stack) /\ Len(stack) \in Nat \ {0}
        /\ \A d \in 1 .. (Len(stack) - 1) : stack'[d].pc = "inside"
        /\ stack'[Len(stack)] =
              [sig |-> Top.sig, pc |-> pc, pos |-> pos, kept |-> kept]
    BY SMTT(30), <1>6, TopFrame, TopMoves DEF TypeOK, OnlyTopMoves, Top
  <2>2. QED
    BY <1>6, <2>1 DEF OnlyTopMoves, CompactsDownwards, TypeOK
<1>7. CASE Call
  <2>1. stack # <<>> /\ MoveTo("inside", Top.pos, Top.kept)
    BY <1>7 DEF Call, EmitterAt
  <2>2. Top.pos \in Nat \ {0} /\ Top.kept \in Nat
    BY <2>1, TopFrame DEF Frame
  <2>3. TypeOK'
    BY <1>7, <2>1, <2>2, TopMoves DEF Call, TypeOK
  <2>4. QED
    BY <1>6, <2>1, <2>2, <2>3
<1>8. CASE CallHole
  BY <1>8 DEF TypeOK, OnlyTopMoves, CompactsDownwards, CallHole
<1>9. ASSUME NEW d \in 1 .. MaxDepth, Return(d)
      PROVE  TypeInv'
  <2>1. stack # <<>> /\ MoveTo("loop", Top.pos + 1, Top.kept)
    BY <1>9 DEF Return, EmitterAt
  <2>2. Top.pos + 1 \in Nat \ {0} /\ Top.kept \in Nat
    BY <2>1, TopFrame DEF Frame
  <2>3. TypeOK'
    BY <1>9, <2>1, <2>2, TopMoves DEF Return, TypeOK
  <2>4. QED
    BY <1>6, <2>1, <2>2, <2>3
<1>10. CASE EndLoop
  <2>1. stack # <<>> /\ MoveTo("compact", 1, 0)
    BY <1>10 DEF EndLoop, EmitterAt
  <2>2. TypeOK'
    <3>1. 1 \in Nat \ {0} /\ 0 \in Nat
      OBVIOUS
    <3>2. stack' \in Seq(Frame)
      BY <2>1, <3>1, TopMoves
    <3>3. QED
      BY <1>10, <3>2 DEF EndLoop, TypeOK
  <2>3. Len(recvs'[Top.sig]) \in Nat
    BY <1>10, <2>1, TopFrame DEF EndLoop
  <2>4. QED
    BY <1>6, <2>1, <2>2, <2>3
<1>11. CASE CompactSlot
  <2>1. stack # <<>>
    BY <1>11 DEF CompactSlot, EmitterAt
  <2>2. PICK k \in {Top.kept, Top.kept + 1} : MoveTo("compact", Top.pos + 1, k)
    BY <1>11, CompactSlotCopies
  <2>3. /\ Top.pos + 1 \in Nat \ {0} /\ k \in Nat /\ k < Top.pos + 1
        /\ Top.pos + 1 <= Len(recvs'[Top.sig]) + 1
    <3>1. /\ Top.pos \in 1 .. Len(recvs[Top.sig])
          /\ Top.kept \in 0 .. (Top.pos - 1)
          /\ Len(recvs'[Top.sig]) = Len(recvs[Top.sig])
      BY <1>11, CompactSlotCopies
    <3>2. Len(recvs[Top.sig]) \in Nat
      BY <2>1, TopFrame
    <3>3. QED
      BY <3>1, <3>2
  <2>4. TypeOK'
    BY <1>11, <2>1, <2>2, <2>3, TopMoves, CompactSlotCopies
       DEF CompactSlot, TypeOK
  <2>5. QED
    BY <1>6, <2>1, <2>2, <2>3, <2>4
<1>12. CASE Shrink
  <2>1. stack # <<>>
    BY <1>12 DEF Shrink, EmitterAt
  <2>2. /\ stack' \in Seq(Frame) /\ Len(stack') = Len(stack) - 1
        /\ Len(stack) \in Nat \ {0}
        /\ \A d \in 1 .. (Len(stack) - 1) :
             stack'[d] = stack[d] /\ stack'[d].pc = "inside"
    BY <1>12, <2>1, TopFrame, ShrinkCuts DEF OnlyTopMoves, TypeOK
  <2>3. TypeOK'
    BY <1>12, <2>2, ShrinkCuts DEF Shrink, TypeOK
  <2>4. DOMAIN stack' = 1 .. (Len(stack) - 1)
    BY <2>2
  <2>5. QED
    BY <2>2, <2>3, <2>4 DEF OnlyTopMoves, CompactsDownwards
<1>14. QED
  BY <1>1, <1>3, <1>4, <1>5, <1>7, <1>8, <1>9, <1>10, <1>11, <1>12,
     <1>13 DEF Next, Client, Library

(* The variables have their types in the first state.                      *)
LEMMA TypeInit == Init => TypeInv
<1> SUFFICES ASSUME Init PROVE TypeInv
  OBVIOUS
<1>1. <<>> \in Seq(Slot) /\ <<>> \in Seq(Frame)
  BY EmptySeq
<1>2. TypeOK
  BY <1>1 DEF Init, TypeOK
<1>3. DOMAIN stack = {}
  BY EmptySeq DEF Init
<1>4. QED
  BY <1>2, <1>3 DEF TypeInv, OnlyTopMoves, CompactsDownwards

(* The variables keep their types whatever the clients do: Contract and    *)
(* Reentrant may have any value.                                           *)
THEOREM TypeCorrect == Spec => []TypeOK
<1>1. Init => TypeInv
  BY TypeInit
<1>2. TypeInv /\ [Next]_vars => TypeInv'
  BY TypeStep
<1>3. TypeInv => TypeOK
  BY DEF TypeInv
<1>4. QED
  BY <1>1, <1>2, <1>3, PTL DEF Spec

-----------------------------------------------------------------------------
(* No null dereference.                                                    *)

(* What an unset does to the slots of one signal: during an emission they  *)
(* stay where they are, and only the receiver's own becomes a hole; at     *)
(* rest no slot appears that was not there.                                *)
LEMMA UnsetSlots ==
  ASSUME TypeOK, NEW r \in Recv, NEW t \in Signal
  PROVE  /\ Unset(r)[t] \in Seq(Slot)
         /\ emitting[t] =>
              /\ Len(Unset(r)[t]) = Len(recvs[t])
              /\ \A i \in 1 .. Len(recvs[t]) :
                   \/ Unset(r)[t][i] = recvs[t][i]
                   \/ recvs[t][i] = r /\ Unset(r)[t][i] = NULL
         /\ ~emitting[t] =>
              \A i \in 1 .. Len(Unset(r)[t]) :
                 \E j \in 1 .. Len(recvs[t]) : Unset(r)[t][i] = recvs[t][j]
<1> DEFINE q == recvs[t]
           i0 == FirstSlot(q, r)
<1>0. q \in Seq(Slot) /\ Unset(r)[t] \in Seq(Slot)
  BY UnsetType DEF TypeOK
<1>1. CASE attached[r] = t /\ Contains(q, r)
  <2>1. t # NULL
    BY NullAssumption
  <2>2. Unset(r)[t] = IF emitting[t] THEN [q EXCEPT ![i0] = NULL]
                                     ELSE RemoveAt(q, i0)
    BY <1>1, <2>1 DEF Unset, TypeOK
  <2>3. i0 \in 1 .. Len(q) /\ q[i0] = r
    BY <1>0, <1>1, FirstSlotFound
  <2> HIDE DEF i0, q
  <2>4. CASE emitting[t]
    <3>1. /\ Len([q EXCEPT ![i0] = NULL]) = Len(q)
          /\ \A i \in 1 .. Len(q) :
               [q EXCEPT ![i0] = NULL][i] = IF i = i0 THEN NULL ELSE q[i]
      BY <1>0, <2>3, ExceptSeq DEF Slot
    <3>2. QED
      BY <1>0, <2>2, <2>3, <2>4, <3>1 DEF q
  <2>5. CASE ~emitting[t]
    <3>1. /\ Len(RemoveAt(q, i0)) = Len(q) - 1
          /\ \A j \in 1 .. (Len(q) - 1) :
               RemoveAt(q, i0)[j] = IF j < i0 THEN q[j] ELSE q[j + 1]
      BY <1>0, <2>3, RemoveAtSlots
    <3>2. ASSUME NEW i \in 1 .. (Len(q) - 1)
          PROVE  \E j \in 1 .. Len(q) : RemoveAt(q, i0)[i] = q[j]
      <4>1. /\ RemoveAt(q, i0)[i] = IF i < i0 THEN q[i] ELSE q[i + 1]
            /\ i \in 1 .. Len(q) /\ i + 1 \in 1 .. Len(q)
        BY <1>0, <3>1
      <4>2. QED
        BY <4>1
    <3>3. QED
      BY <1>0, <2>2, <2>5, <3>1, <3>2 DEF q
  <2>6. QED
    BY <2>4, <2>5
<1>2. CASE ~(attached[r] = t /\ Contains(q, r))
  <2>1. Unset(r)[t] = q
    BY <1>2 DEF Unset, TypeOK
  <2>2. QED
    BY <1>0, <2>1
<1>3. QED
  BY <1>1, <1>2

(* A subscription that begins or ends, for a receiver that no emission is  *)
(* still to call, puts no hole ahead of a loop and leaves none at rest.    *)
LEMMA SafetyOfSubscriptions ==
  ASSUME SafetyInv, ClientTurn, NEW r \in Recv, ~Pending(r),
         UNCHANGED <<emitting, stack, fault>>, TypeInv',
         \A t \in Signal : \/ recvs'[t] = Unset(r)[t]
                          \/ recvs'[t] = Append(Unset(r)[t], r)
  PROVE  SafetyInv'
<1> USE DEF SafetyInv
<1>1. TypeOK /\ TypeInv
  BY DEF TypeInv
<1>2. \A d \in DOMAIN stack : stack[d].pc = "inside" /\ stack[d] \in Frame
  BY <1>1, ClientTurnInside, ElementOfSeq DEF TypeOK
<1>3. r # NULL
  BY NullAssumption
<1>4. /\ OneEmissionPerSignal'
      /\ NoNullDereference'
      /\ FlagTellsIteration'
      /\ NoHoleKept'
  BY <1>2 DEF OneEmissionPerSignal, NoNullDereference, FlagTellsIteration,
              Iterating, NoHoleKept
<1>5. NoHoleAhead'
  <2> SUFFICES ASSUME NEW d \in DOMAIN stack, NEW i \in Ahead(stack[d])'
               PROVE  recvs'[stack[d].sig][i] # NULL
    BY DEF NoHoleAhead
  <2> DEFINE s == stack[d].sig
             new == Unset(r)[s]
  <2>1. /\ s \in Signal /\ stack[d].pos \in Nat \ {0}
        /\ stack[d].pc = "inside" /\ emitting[s]
    BY <1>2 DEF Frame, FlagTellsIteration, Iterating
  <2>2. i \in (stack[d].pos + 1) .. Len(recvs'[s])
    <3>1. recvs'[s] \in Seq(Slot)
      BY <2>1 DEF TypeInv, TypeOK
    <3>2. i \in DOMAIN recvs'[s] /\ i > stack[d].pos
      BY <2>1 DEF Ahead
    <3>3. QED
      BY <2>1, <3>1, <3>2
  <2>3. /\ new \in Seq(Slot) /\ recvs[s] \in Seq(Slot)
        /\ Len(new) = Len(recvs[s])
        /\ \A j \in 1 .. Len(recvs[s]) :
             new[j] = recvs[s][j] \/ recvs[s][j] = r
    BY <1>1, <2>1, UnsetSlots DEF TypeOK
  <2>4. ASSUME NEW j \in (stack[d].pos + 1) .. Len(recvs[s])
        PROVE  new[j] # NULL
    <3>1. j \in Ahead(stack[d]) /\ j \in 1 .. Len(recvs[s])
      BY <2>1, <2>3 DEF Ahead
    <3>2. recvs[s][j] # NULL /\ recvs[s][j] # r
      BY <3>1 DEF NoHoleAhead, Pending
    <3>3. QED
      BY <2>3, <3>1, <3>2
  <2>5. CASE recvs'[s] = new
    BY <2>2, <2>3, <2>4, <2>5
  <2>6. CASE recvs'[s] = Append(new, r)
    <3> HIDE DEF new
    <3>1. /\ Len(recvs'[s]) = Len(new) + 1
          /\ recvs'[s][Len(new) + 1] = r
          /\ \A j \in 1 .. Len(new) : recvs'[s][j] = new[j]
      <4>1. r \in Slot
        BY DEF Slot
      <4>2. QED
        BY <2>3, <2>6, <4>1, AppendProperties
    <3>2. CASE i = Len(new) + 1
      BY <1>3, <3>1, <3>2
    <3>3. CASE i # Len(new) + 1
      <4>1. i \in (stack[d].pos + 1) .. Len(recvs[s]) /\ i \in 1 .. Len(new)
        BY <2>1, <2>2, <2>3, <3>1, <3>3
      <4>2. QED
        BY <2>4, <3>1, <4>1
    <3>4. QED
      BY <3>2, <3>3
  <2>7. QED
    BY <2>1, <2>5, <2>6
<1>6. HolesOnlyDuringEmission'
  <2> SUFFICES ASSUME NEW s \in Signal, ~Emitted(s)', NEW i \in DOMAIN recvs'[s]
               PROVE  recvs'[s][i] # NULL
    BY DEF HolesOnlyDuringEmission
  <2> DEFINE new == Unset(r)[s]
  <2>1. ~Emitted(s) /\ ~emitting[s]
    BY <1>1 DEF Emitted, FlagTellsIteration, Iterating, TypeOK
  <2>2. /\ new \in Seq(Slot) /\ recvs[s] \in Seq(Slot)
        /\ \A j \in 1 .. Len(new) :
             \E k \in 1 .. Len(recvs[s]) : new[j] = recvs[s][k]
    BY <1>1, <2>1, UnsetSlots DEF TypeOK
  <2>3. \A j \in 1 .. Len(new) : new[j] # NULL
    BY <2>1, <2>2 DEF HolesOnlyDuringEmission
  <2> HIDE DEF new
  <2>4. CASE recvs'[s] = new
    BY <2>2, <2>3, <2>4
  <2>5. CASE recvs'[s] = Append(new, r)
    <3>1. /\ Len(recvs'[s]) = Len(new) + 1
          /\ recvs'[s][Len(new) + 1] = r
          /\ \A j \in 1 .. Len(new) : recvs'[s][j] = new[j]
      <4>1. r \in Slot
        BY DEF Slot
      <4>2. QED
        BY <2>2, <2>5, <4>1, AppendProperties
    <3>2. i = Len(new) + 1 \/ i \in 1 .. Len(new)
      <4>1. recvs'[s] \in Seq(Slot)
        BY DEF TypeInv, TypeOK
      <4>2. i \in 1 .. (Len(new) + 1) /\ Len(new) \in Nat
        BY <2>2, <3>1, <4>1
      <4>3. QED
        BY <4>2
    <3>3. QED
      BY <1>3, <2>3, <3>1, <3>2
  <2>6. QED
    BY <2>4, <2>5 DEF new
<1>7. QED
  BY <1>4, <1>5, <1>6
(* What a step of the innermost emission leaves as it was: the signals     *)
(* being emitted, and every frame below.                                   *)
LEMMA TopMovesOnly ==
  ASSUME TypeInv, stack # <<>>,
         NEW pc \in {"loop", "inside", "compact"},
         NEW pos \in Nat \ {0}, NEW kept \in Nat,
         MoveTo(pc, pos, kept)
  PROVE  /\ DOMAIN stack' = DOMAIN stack
         /\ Len(stack) \in DOMAIN stack /\ Len(stack') = Len(stack)
         /\ \A d \in DOMAIN stack : d # Len(stack) => stack'[d] = stack[d]
         /\ stack[Len(stack)] = Top
         /\ stack'[Len(stack)] =
               [sig |-> Top.sig, pc |-> pc, pos |-> pos, kept |-> kept]
         /\ \A d \in DOMAIN stack : stack'[d].sig = stack[d].sig
         /\ \A s \in Signal : Emitted(s)' <=> Emitted(s)
<1> USE DEF TypeInv
<1>1. /\ stack' \in Seq(Frame)
      /\ Len(stack') = Len(stack)
      /\ \A d \in 1 .. (Len(stack) - 1) : stack'[d] = stack[d]
      /\ Top' = [sig |-> Top.sig, pc |-> pc, pos |-> pos, kept |-> kept]
      /\ Len(stack) \in Nat \ {0}
  BY TopMoves, TopFrame
<1>2. /\ DOMAIN stack' = DOMAIN stack /\ DOMAIN stack = 1 .. Len(stack)
      /\ Len(stack) \in DOMAIN stack
  BY <1>1 DEF TypeOK
<1>3. /\ \A d \in DOMAIN stack : d # Len(stack) => stack'[d] = stack[d]
      /\ stack[Len(stack)] = Top
      /\ stack'[Len(stack)] =
            [sig |-> Top.sig, pc |-> pc, pos |-> pos, kept |-> kept]
  BY <1>1, <1>2 DEF Top
<1>4. \A d \in DOMAIN stack : stack'[d].sig = stack[d].sig
  BY <1>3
<1>5. QED
  BY <1>1, <1>2, <1>3, <1>4 DEF Emitted

(* Under the contract, each step keeps the strengthened invariant.         *)
LEMMA SafetyStep ==
  ASSUME SafetyInv, [Next]_vars, Contract, ~Reentrant
  PROVE  SafetyInv'
<1> USE DEF SafetyInv
<1>1. TypeOK /\ TypeInv /\ TypeInv'
  BY TypeStep DEF TypeInv
<1>2. CASE UNCHANGED vars
  BY <1>1, <1>2 DEF vars, OneEmissionPerSignal, FlagTellsIteration, Iterating,
                    NoHoleAhead, Ahead, NoHoleKept, HolesOnlyDuringEmission,
                    Emitted, NoNullDereference
<1>3. ASSUME NEW s \in Signal, SignalInit(s) \/ Deinit(s)
      PROVE  SafetyInv'
  <2>1. /\ ~Emitted(s) /\ UNCHANGED <<emitting, stack, fault>>
        /\ recvs' = [recvs EXCEPT ![s] = <<>>]
    BY <1>3 DEF SignalInit, Deinit, MayDeinit
  <2>2. \A t \in Signal : recvs'[t] = IF t = s THEN <<>> ELSE recvs[t]
    BY <1>1, <2>1 DEF TypeOK
  <2>3. \A d \in DOMAIN stack :
           stack[d].sig \in Signal /\ recvs'[stack[d].sig] = recvs[stack[d].sig]
    BY <1>1, <2>1, <2>2, FramesTyped DEF Emitted
  <2>4. \A d \in DOMAIN stack : Ahead(stack[d])' = Ahead(stack[d])
    BY <2>1, <2>3 DEF Ahead
  <2>5. HolesOnlyDuringEmission'
    BY <2>1, <2>2 DEF HolesOnlyDuringEmission, Emitted
  <2>6. QED
    BY <1>1, <2>1, <2>3, <2>4, <2>5
       DEF OneEmissionPerSignal, FlagTellsIteration, Iterating, NoHoleAhead,
           NoHoleKept, NoNullDereference
<1>4. ASSUME NEW s \in Signal, DeinitHole(s)
      PROVE  FALSE
  <2>1. ~Emitted(s) /\ NULL \in ToSet(recvs[s])
    BY <1>4 DEF DeinitHole, MayDeinit
  <2>2. QED
    BY <2>1 DEF HolesOnlyDuringEmission, ToSet
<1>5. ASSUME NEW r \in Recv, RecvUnset(r)
      PROVE  SafetyInv'
  <2>1. /\ ClientTurn /\ ~Pending(r)
        /\ UNCHANGED <<emitting, stack, fault>>
        /\ recvs' = Unset(r)
    BY <1>5 DEF RecvUnset, MayDetach
  <2>2. QED
    BY <1>1, <2>1, SafetyOfSubscriptions
<1>6. ASSUME NEW r \in Recv, NEW s \in Signal, RecvSet(r, s) \/ RecvSetFails(r, s)
      PROVE  SafetyInv'
  <2>1. /\ ClientTurn /\ ~Pending(r)
        /\ UNCHANGED <<emitting, stack, fault>>
        /\ \/ recvs' = [Unset(r) EXCEPT ![s] = Append(@, r)]
           \/ recvs' = Unset(r)
    BY <1>6 DEF RecvSet, RecvSetFails, MayDetach
  <2>2. \A t \in Signal : \/ recvs'[t] = Unset(r)[t]
                         \/ recvs'[t] = Append(Unset(r)[t], r)
    BY <1>1, <2>1, UnsetType
  <2>3. QED
    BY <1>1, <2>1, <2>2, SafetyOfSubscriptions
<1>7. ASSUME NEW s \in Signal, Emit(s)
      PROVE  SafetyInv'
  <2> DEFINE f == [sig |-> s, pc |-> "loop", pos |-> 1, kept |-> 0]
             n == Len(stack) + 1
  <2>1. /\ ~Emitted(s) /\ stack' = Append(stack, f)
        /\ emitting' = [emitting EXCEPT ![s] = TRUE]
        /\ UNCHANGED <<recvs, fault>>
    BY <1>7 DEF Emit
  <2>2. /\ DOMAIN stack' = 1 .. n /\ DOMAIN stack = 1 .. Len(stack)
        /\ Len(stack) \in Nat
        /\ \A d \in DOMAIN stack : stack'[d] = stack[d] /\ d # n
        /\ stack'[n] = f
    <3>1. f \in Frame
      BY DEF Frame
    <3> HIDE DEF f
    <3>2. QED
      BY <1>1, <2>1, <3>1, AppendProperties DEF TypeOK
  <2>3. \A d \in DOMAIN stack' : d = n \/ d \in DOMAIN stack
    BY <2>2
  <2>4. OneEmissionPerSignal'
    BY <2>1, <2>2, <2>3 DEF OneEmissionPerSignal, Emitted
  <2>5. FlagTellsIteration'
    BY <1>1, <2>1, <2>2, <2>3 DEF FlagTellsIteration, Iterating, TypeOK
  <2>6. NoHoleAhead'
    <3> SUFFICES ASSUME NEW d \in DOMAIN stack', NEW i \in Ahead(stack[d])'
                 PROVE  recvs[stack'[d].sig][i] # NULL
      BY <2>1 DEF NoHoleAhead
    <3>1. CASE d = n
      <4>1. i \in 1 .. Len(recvs[s]) /\ recvs[s] \in Seq(Slot)
        BY <1>1, <2>1, <2>2, <3>1 DEF Ahead, TypeOK
      <4>2. QED
        BY <2>1, <2>2, <3>1, <4>1 DEF HolesOnlyDuringEmission
    <3>2. CASE d \in DOMAIN stack
      BY <2>1, <2>2, <3>2 DEF NoHoleAhead, Ahead
    <3>3. QED
      BY <2>3, <3>1, <3>2
  <2>7. NoHoleKept'
    BY <2>1, <2>2, <2>3 DEF NoHoleKept
  <2>8. HolesOnlyDuringEmission'
    BY <2>1, <2>2 DEF HolesOnlyDuringEmission, Emitted
  <2>9. QED
    BY <1>1, <2>1, <2>4, <2>5, <2>6, <2>7, <2>8 DEF NoNullDereference
<1>8. CASE Call
  <2>1. /\ stack # <<>> /\ Top.pc = "loop"
        /\ MoveTo("inside", Top.pos, Top.kept)
        /\ UNCHANGED <<emitting, recvs, fault>>
    BY <1>8 DEF Call, EmitterAt
  <2>2. Top.pos \in Nat \ {0} /\ Top.kept \in Nat
    BY <1>1, <2>1, TopFrame DEF Frame
  <2>3. /\ DOMAIN stack' = DOMAIN stack
        /\ Len(stack) \in DOMAIN stack /\ stack[Len(stack)] = Top
        /\ \A d \in DOMAIN stack : d # Len(stack) => stack'[d] = stack[d]
        /\ stack'[Len(stack)] =
              [sig |-> Top.sig, pc |-> "inside", pos |-> Top.pos, kept |-> Top.kept]
        /\ \A d \in DOMAIN stack : stack'[d].sig = stack[d].sig
        /\ \A s \in Signal : Emitted(s)' <=> Emitted(s)
    BY <1>1, <2>1, <2>2, TopMovesOnly
  <2>4. OneEmissionPerSignal' /\ NoNullDereference' /\ HolesOnlyDuringEmission'
    BY <2>1, <2>3 DEF OneEmissionPerSignal, NoNullDereference,
                      HolesOnlyDuringEmission
  <2>5. FlagTellsIteration'
    BY <2>1, <2>3 DEF FlagTellsIteration, Iterating
  <2>6. NoHoleAhead'
    <3> SUFFICES ASSUME NEW e \in DOMAIN stack, NEW i \in Ahead(stack[e])'
                 PROVE  recvs[stack[e].sig][i] # NULL
      BY <2>1, <2>3 DEF NoHoleAhead
    <3>1. CASE e # Len(stack)
      BY <2>1, <2>3, <3>1 DEF NoHoleAhead, Ahead
    <3>2. CASE e = Len(stack)
      <4>1. /\ i \in DOMAIN recvs[Top.sig]
            /\ recvs[Top.sig] \in Seq(Slot)
            /\ Top.pos \in Nat
        BY <1>1, <2>1, <2>3, <3>2, TopFrame DEF Ahead, Frame
      <4>2. i \in Ahead(stack[e])
        BY <2>1, <2>3, <3>2, <4>1 DEF Ahead
      <4>3. QED
        BY <2>3, <4>2 DEF NoHoleAhead
    <3>3. QED
      BY <3>1, <3>2
  <2>7. NoHoleKept'
    BY <2>1, <2>3 DEF NoHoleKept
  <2>8. QED
    BY <1>1, <2>4, <2>5, <2>6, <2>7
<1>9. CASE CallHole
  <2>1. /\ stack # <<>> /\ Top.pc = "loop" /\ Top.pos <= Len(recvs[Top.sig])
        /\ recvs[Top.sig][Top.pos] = NULL
    BY <1>9 DEF CallHole, EmitterAt
  <2>2. /\ Len(stack) \in DOMAIN stack /\ Top = stack[Len(stack)]
        /\ Top.pos \in DOMAIN recvs[Top.sig] /\ Top.pos \in Nat
    BY <1>1, <2>1, TopFrame DEF Top, TypeOK, Frame
  <2>3. Top.pos \in Ahead(Top)
    BY <2>1, <2>2 DEF Ahead
  <2>4. QED
    BY <2>1, <2>2, <2>3 DEF NoHoleAhead
<1>10. ASSUME NEW d \in 1 .. MaxDepth, Return(d)
       PROVE  SafetyInv'
  <2>1. /\ stack # <<>> /\ Top.pc = "inside"
        /\ MoveTo("loop", Top.pos + 1, Top.kept)
        /\ UNCHANGED <<emitting, recvs, fault>>
    BY <1>10 DEF Return, EmitterAt
  <2>2. Top.pos + 1 \in Nat \ {0} /\ Top.kept \in Nat
    BY <1>1, <2>1, TopFrame DEF Frame
  <2>3. /\ DOMAIN stack' = DOMAIN stack
        /\ Len(stack) \in DOMAIN stack /\ stack[Len(stack)] = Top
        /\ \A e \in DOMAIN stack : e # Len(stack) => stack'[e] = stack[e]
        /\ stack'[Len(stack)] =
              [sig |-> Top.sig, pc |-> "loop", pos |-> Top.pos + 1, kept |-> Top.kept]
        /\ \A e \in DOMAIN stack : stack'[e].sig = stack[e].sig
        /\ \A s \in Signal : Emitted(s)' <=> Emitted(s)
    BY <1>1, <2>1, <2>2, TopMovesOnly
  <2>4. OneEmissionPerSignal' /\ NoNullDereference' /\ HolesOnlyDuringEmission'
    BY <2>1, <2>3 DEF OneEmissionPerSignal, NoNullDereference,
                      HolesOnlyDuringEmission
  <2>5. FlagTellsIteration'
    BY <2>1, <2>3 DEF FlagTellsIteration, Iterating
  <2>6. NoHoleAhead'
    <3> SUFFICES ASSUME NEW e \in DOMAIN stack, NEW i \in Ahead(stack[e])'
                 PROVE  recvs[stack[e].sig][i] # NULL
      BY <2>1, <2>3 DEF NoHoleAhead
    <3>1. CASE e # Len(stack)
      BY <2>1, <2>3, <3>1 DEF NoHoleAhead, Ahead
    <3>2. CASE e = Len(stack)
      <4>1. /\ i \in DOMAIN recvs[Top.sig]
            /\ recvs[Top.sig] \in Seq(Slot)
            /\ Top.pos \in Nat
        BY <1>1, <2>1, <2>3, <3>2, TopFrame DEF Ahead, Frame
      <4>2. i \in Ahead(stack[e])
        BY <2>1, <2>3, <3>2, <4>1 DEF Ahead
      <4>3. QED
        BY <2>3, <4>2 DEF NoHoleAhead
    <3>3. QED
      BY <3>1, <3>2
  <2>7. NoHoleKept'
    BY <2>1, <2>3 DEF NoHoleKept
  <2>8. QED
    BY <1>1, <2>4, <2>5, <2>6, <2>7
<1>11. CASE EndLoop
  <2>1. /\ stack # <<>> /\ Top.pc = "loop" /\ MoveTo("compact", 1, 0)
        /\ emitting' = [emitting EXCEPT ![Top.sig] = FALSE]
        /\ UNCHANGED <<recvs, fault>>
    BY <1>11 DEF EndLoop, EmitterAt
  <2>2. 1 \in Nat \ {0} /\ 0 \in Nat
    OBVIOUS
  <2>3. /\ DOMAIN stack' = DOMAIN stack
        /\ Len(stack) \in DOMAIN stack /\ stack[Len(stack)] = Top
        /\ \A d \in DOMAIN stack : d # Len(stack) => stack'[d] = stack[d]
        /\ stack'[Len(stack)] =
              [sig |-> Top.sig, pc |-> "compact", pos |-> 1, kept |-> 0]
        /\ \A d \in DOMAIN stack : stack'[d].sig = stack[d].sig
        /\ \A s \in Signal : Emitted(s)' <=> Emitted(s)
    BY <1>1, <2>1, <2>2, TopMovesOnly
  <2>4. OneEmissionPerSignal' /\ HolesOnlyDuringEmission' /\ NoNullDereference'
    BY <2>1, <2>3 DEF OneEmissionPerSignal, HolesOnlyDuringEmission,
                      NoNullDereference
  <2>5. NoHoleAhead'
    BY <2>1, <2>3 DEF NoHoleAhead, Ahead
  <2>6. NoHoleKept'
    BY <2>1, <2>3 DEF NoHoleKept
  <2>7. FlagTellsIteration'
    <3> SUFFICES ASSUME NEW s \in Signal
                 PROVE  emitting'[s] <=> Iterating(s)'
      BY DEF FlagTellsIteration
    <3>1. CASE s = Top.sig
      <4>1. ~emitting'[s]
        BY <1>1, <2>1, <3>1 DEF TypeOK
      <4>2. ~Iterating(s)'
        BY <2>3, <3>1 DEF Iterating, OneEmissionPerSignal
      <4>3. QED
        BY <4>1, <4>2
    <3>2. CASE s # Top.sig
      <4>1. emitting'[s] = emitting[s]
        BY <1>1, <2>1, <3>2 DEF TypeOK
      <4>2. Iterating(s)' <=> Iterating(s)
        BY <2>3, <3>2 DEF Iterating
      <4>3. QED
        BY <4>1, <4>2 DEF FlagTellsIteration
    <3>3. QED
      BY <3>1, <3>2
  <2>8. QED
    BY <1>1, <2>4, <2>5, <2>6, <2>7
<1>12. CASE CompactSlot
  <2>1. /\ stack # <<>> /\ Top.pc = "compact" /\ UNCHANGED <<emitting, fault>>
    BY <1>12 DEF CompactSlot, EmitterAt
  <2>2. /\ Top.pos \in 1 .. Len(recvs[Top.sig])
        /\ Top.kept \in 0 .. (Top.pos - 1)
        /\ Len(recvs'[Top.sig]) = Len(recvs[Top.sig])
        /\ \A t \in Signal : t # Top.sig => recvs'[t] = recvs[t]
    BY <1>1, <1>12, CompactSlotCopies
  <2>3. PICK k \in Nat :
          /\ MoveTo("compact", Top.pos + 1, k)
          /\ \A i \in 1 .. Len(recvs[Top.sig]) :
               recvs'[Top.sig][i] # recvs[Top.sig][i]
                 => recvs'[Top.sig][i] # NULL
          /\ \A i \in 1 .. k :
               i \in 1 .. Top.kept \/ recvs'[Top.sig][i] # NULL
          /\ k <= Len(recvs[Top.sig])
    <3>1. CASE recvs[Top.sig][Top.pos] # NULL
      <4>1. /\ MoveTo("compact", Top.pos + 1, Top.kept + 1)
            /\ \A i \in 1 .. Len(recvs[Top.sig]) :
                 recvs'[Top.sig][i] = IF i = Top.kept + 1
                                      THEN recvs[Top.sig][Top.pos]
                                      ELSE recvs[Top.sig][i]
        BY <1>1, <1>12, <3>1, CompactSlotCopies
      <4>2. /\ Top.kept + 1 \in Nat /\ Top.kept + 1 <= Len(recvs[Top.sig])
            /\ Top.kept + 1 \in 1 .. Len(recvs[Top.sig])
        BY <2>2
      <4>3. \A i \in 1 .. (Top.kept + 1) :
              i \in 1 .. Top.kept \/ i = Top.kept + 1
        BY <2>2
      <4>4. QED
        BY <3>1, <4>1, <4>2, <4>3
    <3>2. CASE recvs[Top.sig][Top.pos] = NULL
      <4>1. MoveTo("compact", Top.pos + 1, Top.kept) /\ recvs' = recvs
        BY <1>1, <1>12, <3>2, CompactSlotCopies
      <4>2. Top.kept \in Nat /\ Top.kept <= Len(recvs[Top.sig])
        BY <2>2
      <4>3. QED
        BY <4>1, <4>2
    <3>3. QED
      BY <3>1, <3>2
  <2>4. Top.pos + 1 \in Nat \ {0} /\ Top.sig \in Signal
    BY <1>1, <2>1, <2>2, TopFrame
  <2>5. /\ DOMAIN stack' = DOMAIN stack
        /\ Len(stack) \in DOMAIN stack /\ stack[Len(stack)] = Top
        /\ \A d \in DOMAIN stack : d # Len(stack) => stack'[d] = stack[d]
        /\ stack'[Len(stack)] =
              [sig |-> Top.sig, pc |-> "compact", pos |-> Top.pos + 1, kept |-> k]
        /\ \A d \in DOMAIN stack : stack'[d].sig = stack[d].sig
        /\ \A s \in Signal : Emitted(s)' <=> Emitted(s)
    BY <1>1, <2>1, <2>3, <2>4, TopMovesOnly
  <2>6. OneEmissionPerSignal' /\ NoNullDereference' /\ FlagTellsIteration'
    BY <2>1, <2>5 DEF OneEmissionPerSignal, NoNullDereference,
                      FlagTellsIteration, Iterating
  <2>7. \A d \in DOMAIN stack :
          d # Len(stack) => /\ stack[d].sig \in Signal
                            /\ recvs'[stack[d].sig] = recvs[stack[d].sig]
    BY <1>1, <2>2, <2>5, FramesTyped DEF OneEmissionPerSignal
  <2>8. NoHoleAhead'
    BY <2>5, <2>7 DEF NoHoleAhead, Ahead
  <2>9. NoHoleKept'
    <3>1. \A i \in 1 .. Top.kept : recvs[Top.sig][i] # NULL
      BY <2>1, <2>5 DEF NoHoleKept
    <3>2. \A i \in 1 .. Top.kept : i \in 1 .. Len(recvs[Top.sig])
      BY <2>2
    <3>3. \A i \in 1 .. k : recvs'[Top.sig][i] # NULL
      BY <2>3, <3>1, <3>2
    <3>4. QED
      BY <2>5, <2>7, <3>3 DEF NoHoleKept
  <2>10. HolesOnlyDuringEmission'
    BY <2>2, <2>5 DEF HolesOnlyDuringEmission, Emitted
  <2>11. QED
    BY <1>1, <2>6, <2>8, <2>9, <2>10
<1>13. CASE Shrink
  <2>1. /\ stack # <<>> /\ Top.pc = "compact" /\ UNCHANGED <<emitting, fault>>
    BY <1>13 DEF Shrink, EmitterAt
  <2>2. /\ Top.sig \in Signal /\ stack' = Front(stack)
        /\ Top.kept \in 0 .. Len(recvs[Top.sig])
        /\ Len(recvs'[Top.sig]) = Top.kept
        /\ \A i \in 1 .. Top.kept : recvs'[Top.sig][i] = recvs[Top.sig][i]
        /\ \A t \in Signal : t # Top.sig => recvs'[t] = recvs[t]
    BY <1>1, <1>13, ShrinkCuts
  <2>3. /\ DOMAIN stack' = 1 .. (Len(stack) - 1)
        /\ DOMAIN stack = 1 .. Len(stack)
        /\ Len(stack) \in DOMAIN stack /\ stack[Len(stack)] = Top
        /\ \A d \in DOMAIN stack' : stack'[d] = stack[d] /\ d # Len(stack)
        /\ \A d \in DOMAIN stack : d # Len(stack) => d \in DOMAIN stack'
        /\ \A d \in DOMAIN stack' : d \in DOMAIN stack
    <3>1. /\ Len(stack) \in Nat \ {0} /\ DOMAIN stack = 1 .. Len(stack)
          /\ stack' \in Seq(Frame) /\ Len(stack') = Len(stack) - 1
          /\ \A d \in 1 .. (Len(stack) - 1) : stack'[d] = stack[d]
      BY <1>1, <2>1, <2>2, TopFrame DEF TypeOK
    <3>2. DOMAIN stack' = 1 .. (Len(stack) - 1)
      BY <3>1
    <3>3. QED
      BY <3>1, <3>2 DEF Top
  <2>4. \A d \in DOMAIN stack' :
          /\ stack[d].sig # Top.sig /\ stack[d].sig \in Signal
          /\ recvs'[stack[d].sig] = recvs[stack[d].sig]
    BY <1>1, <2>2, <2>3, FramesTyped DEF OneEmissionPerSignal
  <2>5. OneEmissionPerSignal' /\ NoNullDereference' /\ NoHoleAhead' /\ NoHoleKept'
    <3>1. OneEmissionPerSignal' /\ NoNullDereference'
      BY <2>1, <2>3 DEF OneEmissionPerSignal, NoNullDereference
    <3>2. NoHoleAhead'
      BY <2>3, <2>4 DEF NoHoleAhead, Ahead
    <3>3. NoHoleKept'
      BY <2>3, <2>4 DEF NoHoleKept
    <3>4. QED
      BY <3>1, <3>2, <3>3
  <2>6. FlagTellsIteration'
    BY <2>1, <2>3, <2>4 DEF FlagTellsIteration, Iterating, OneEmissionPerSignal
  <2>7. HolesOnlyDuringEmission'
    <3> SUFFICES ASSUME NEW s \in Signal, ~Emitted(s)',
                        NEW i \in DOMAIN recvs'[s]
                 PROVE  recvs'[s][i] # NULL
      BY DEF HolesOnlyDuringEmission
    <3>1. CASE s = Top.sig
      <4>1. i \in 1 .. Top.kept
        BY <1>1, <2>2, <3>1 DEF TypeInv, TypeOK
      <4>2. NoHoleKept
        BY <1>1
      <4>3. \A j \in 1 .. stack[Len(stack)].kept :
              recvs[stack[Len(stack)].sig][j] # NULL
        BY <2>1, <2>3, <4>2 DEF NoHoleKept
      <4>4. recvs[Top.sig][i] # NULL
        BY <2>3, <4>1, <4>3
      <4>5. QED
        BY <2>2, <3>1, <4>1, <4>4
    <3>2. CASE s # Top.sig
      <4>1. ~Emitted(s)
        BY <2>3, <3>2 DEF Emitted
      <4>2. QED
        BY <2>2, <3>2, <4>1 DEF HolesOnlyDuringEmission
    <3>3. QED
      BY <3>1, <3>2
  <2>8. QED
    BY <1>1, <2>5, <2>6, <2>7
<1>14. QED
  BY <1>2, <1>3, <1>4, <1>5, <1>6, <1>7, <1>8, <1>9, <1>10, <1>11, <1>12,
     <1>13 DEF Next, Client, Library

(* The strengthened invariant holds of clients that keep to the contract   *)
(* and do not emit a signal from within its own emission.                  *)
LEMMA SafetyHolds ==
  ASSUME Contract, ~Reentrant
  PROVE  Spec => []SafetyInv
<1>1. Init => SafetyInv
  <2> SUFFICES ASSUME Init PROVE SafetyInv
    OBVIOUS
  <2>1. DOMAIN stack = {} /\ \A s \in Signal : DOMAIN recvs[s] = {}
    BY EmptySeq DEF Init
  <2>2. QED
    BY <2>1, TypeInit
       DEF Init, SafetyInv, OneEmissionPerSignal, FlagTellsIteration,
           Iterating, NoHoleAhead, NoHoleKept, HolesOnlyDuringEmission,
           NoNullDereference
<1>2. SafetyInv /\ [Next]_vars => SafetyInv'
  BY SafetyStep
<1>3. QED
  BY <1>1, <1>2, PTL DEF Spec

(* For any number of signals, receivers, slots and nested emissions: if    *)
(* clients never detach a receiver that an emission has still to call, do  *)
(* not deinit a signal being emitted and do not emit a signal from within  *)
(* its own emission, then no loop ever calls or writes through a hole.     *)
THEOREM NeverDereferencesNull ==
  ASSUME Contract, ~Reentrant
  PROVE  Spec => []NoNullDereference
<1>1. SafetyInv => NoNullDereference
  BY DEF SafetyInv
<1>2. QED
  BY <1>1, SafetyHolds, PTL

(* Under the same contract no hole outlives the emission it was made in.   *)
THEOREM HolesEndWithEmission ==
  ASSUME Contract, ~Reentrant
  PROVE  Spec => []HolesOnlyDuringEmission
<1>1. SafetyInv => HolesOnlyDuringEmission
  BY DEF SafetyInv
<1>2. QED
  BY <1>1, SafetyHolds, PTL

(* Under the same contract the flag nf7util_signal_recv_unset() decides by *)
(* is set exactly while a loop runs over the slots.                        *)
THEOREM FlagIsExact ==
  ASSUME Contract, ~Reentrant
  PROVE  Spec => []FlagTellsIteration
<1>1. SafetyInv => FlagTellsIteration
  BY DEF SafetyInv
<1>2. QED
  BY <1>1, SafetyHolds, PTL

-----------------------------------------------------------------------------
(* Slots stay where they are under a loop.                                 *)

(* What an array of slots may become while a loop runs over it.            *)
LEMMA PinnedBySubscriptions ==
  ASSUME TypeOK, NEW r \in Recv, NEW s \in Signal, emitting[s],
         \/ recvs'[s] = Unset(r)[s]
         \/ recvs'[s] = Append(Unset(r)[s], r)
  PROVE  /\ Len(recvs'[s]) >= Len(recvs[s])
         /\ \A i \in DOMAIN recvs[s] : recvs'[s][i] \in {recvs[s][i], NULL}
<1> DEFINE q == Unset(r)[s]
<1>1. /\ q \in Seq(Slot) /\ recvs[s] \in Seq(Slot)
      /\ Len(q) = Len(recvs[s])
      /\ \A i \in 1 .. Len(recvs[s]) : q[i] \in {recvs[s][i], NULL}
  BY UnsetSlots DEF TypeOK
<1> HIDE DEF q
<1>2. CASE recvs'[s] = q
  BY <1>1, <1>2
<1>3. CASE recvs'[s] = Append(q, r)
  <2>1. r \in Slot
    BY DEF Slot
  <2>2. /\ Len(recvs'[s]) = Len(q) + 1
        /\ \A i \in 1 .. Len(q) : recvs'[s][i] = q[i]
    BY <1>1, <1>3, <2>1, AppendProperties
  <2>3. QED
    BY <1>1, <2>2
<1>4. QED
  BY <1>2, <1>3 DEF q

(* A step that leaves the slots of s alone pins them.                      *)
LEMMA PinnedUnchanged ==
  ASSUME TypeOK, NEW s \in Signal, recvs'[s] = recvs[s]
  PROVE  /\ Len(recvs'[s]) >= Len(recvs[s])
         /\ \A i \in DOMAIN recvs[s] : recvs'[s][i] \in {recvs[s][i], NULL}
<1>1. recvs[s] \in Seq(Slot)
  BY DEF TypeOK
<1>2. QED
  BY <1>1

(* Under the contract, no step moves or takes away a slot of a signal that *)
(* a loop runs over, before and after the step.                            *)
LEMMA PinnedStep ==
  ASSUME SafetyInv, [Next]_vars, Contract,
         NEW s \in Signal, Iterating(s), Iterating(s)', live'[s]
  PROVE  /\ Len(recvs'[s]) >= Len(recvs[s])
         /\ \A i \in DOMAIN recvs[s] : recvs'[s][i] \in {recvs[s][i], NULL}
<1>1. TypeOK /\ TypeInv
  BY DEF SafetyInv, TypeInv
<1>2. Emitted(s) /\ emitting[s]
  BY DEF SafetyInv, FlagTellsIteration, Iterating, Emitted
<1>3. ASSUME recvs'[s] = recvs[s]
      PROVE  /\ Len(recvs'[s]) >= Len(recvs[s])
             /\ \A i \in DOMAIN recvs[s] : recvs'[s][i] \in {recvs[s][i], NULL}
  BY <1>1, <1>3, PinnedUnchanged
<1>4. CASE UNCHANGED vars \/ CallHole \/ Call \/ EndLoop
  BY <1>3, <1>4 DEF vars, CallHole, Call, EndLoop
<1>5. ASSUME NEW t \in Signal, SignalInit(t) \/ Deinit(t)
      PROVE  recvs'[s] = recvs[s]
  <2>1. ~Emitted(t) /\ recvs' = [recvs EXCEPT ![t] = <<>>]
    BY <1>5 DEF SignalInit, Deinit, MayDeinit
  <2>2. QED
    BY <1>1, <1>2, <2>1 DEF TypeOK
<1>6. ASSUME NEW t \in Signal, DeinitHole(t) \/ Emit(t)
      PROVE  recvs'[s] = recvs[s]
  BY <1>6 DEF DeinitHole, Emit
<1>7. ASSUME NEW d \in 1 .. MaxDepth, Return(d)
      PROVE  recvs'[s] = recvs[s]
  BY <1>7 DEF Return
<1>8. ASSUME NEW r \in Recv, RecvUnset(r)
      PROVE  recvs'[s] = Unset(r)[s]
  BY <1>8 DEF RecvUnset
<1>9. ASSUME NEW r \in Recv, NEW t \in Signal, RecvSet(r, t) \/ RecvSetFails(r, t)
      PROVE  recvs'[s] = Unset(r)[s] \/ recvs'[s] = Append(Unset(r)[s], r)
  BY <1>1, <1>9, UnsetType DEF RecvSet, RecvSetFails
<1>10. CASE CompactSlot \/ Shrink
  <2>1. stack # <<>> /\ Top.pc = "compact"
    BY <1>10 DEF CompactSlot, Shrink, EmitterAt
  <2>2. Len(stack) \in DOMAIN stack /\ Top = stack[Len(stack)]
    BY <1>1, <2>1, TopFrame DEF TypeOK, Top
  <2>3. s # Top.sig
    BY <2>1, <2>2 DEF SafetyInv, OneEmissionPerSignal, Iterating
  <2>4. recvs'[s] = recvs[s]
    BY <1>1, <1>10, <2>3, CompactSlotCopies, ShrinkCuts
  <2>5. QED
    BY <1>3, <2>4
<1>11. QED
  BY <1>1, <1>2, <1>3, <1>4, <1>5, <1>6, <1>7, <1>8, <1>9, <1>10,
     PinnedBySubscriptions DEF Next, Client, Library

(* Under the contract the index of the loop in nf7util_signal_emit() goes  *)
(* on to mean the same slot whatever its callbacks do.                     *)
THEOREM LoopsKeepTheirPlace ==
  ASSUME Contract, ~Reentrant
  PROVE  Spec => SlotsPinned
<1> DEFINE Pinned ==
      \A s \in Signal :
        Iterating(s) /\ Iterating(s)' /\ live'[s] =>
          /\ Len(recvs'[s]) >= Len(recvs[s])
          /\ \A i \in DOMAIN recvs[s] : recvs'[s][i] \in {recvs[s][i], NULL}
<1>1. SafetyInv /\ [Next]_vars => [Pinned]_vars
  BY PinnedStep
<1>2. [][Pinned]_vars => SlotsPinned
  BY PTL DEF SlotsPinned
<1>3. QED
  BY <1>1, <1>2, SafetyHolds, PTL DEF Spec
=============================================================================
