------------------------------ MODULE Sdl2Proofs ------------------------------
(***************************************************************************)
(* Theorems about Sdl2, for any finite set of windows and any number of    *)
(* slots.  The event signal is an instance of Signal, so that what is      *)
(* proved of Signal, for clients that keep no contract, is cited here by   *)
(* instance: "S" is that instance with its proofs.                         *)
(***************************************************************************)
EXTENDS Sdl2, TLAPS, FiniteSetTheorems, SequenceTheorems

S == INSTANCE SubscriptionProofs WITH
       Signal <- {Event}, Recv <- Win, MaxDepth <- 1,
       Contract <- FALSE, Reentrant <- FALSE

-----------------------------------------------------------------------------
(* The instances agree in what they say of a state.                        *)

LEMMA SignalAssumptions ==
  S!NullAssumption /\ S!BoundAssumption /\ S!SwitchAssumption
BY NullAssumption, BoundAssumption
   DEF S!NullAssumption, S!BoundAssumption, S!SwitchAssumption

LEMMA SameInit == Sig!Init => S!Init
BY DEF Sig!Init, S!Init

LEMMA SameInv == Sig!SubscriptionInv <=> S!SubscriptionInv
BY DEF Sig!SubscriptionInv, S!SubscriptionInv, Sig!TypeInv, S!TypeInv,
       Sig!TypeOK, S!TypeOK, Sig!OnlyTopMoves, S!OnlyTopMoves,
       Sig!CompactsDownwards, S!CompactsDownwards, Sig!Slot, S!Slot,
       Sig!Frame, S!Frame, Sig!DeadIsEmpty, S!DeadIsEmpty,
       Sig!SubscriptionConsistent, S!SubscriptionConsistent,
       Sig!Holds, S!Holds, Sig!Counted, S!Counted

LEMMA SameUnset == ASSUME NEW w \in Win PROVE Sig!Unset(w) = S!Unset(w)
BY DEF Sig!Unset, S!Unset, Sig!FirstSlot, S!FirstSlot, Sig!Contains, S!Contains,
       Sig!RemoveAt, S!RemoveAt

LEMMA SameTop == Sig!Top = S!Top
BY DEF Sig!Top, S!Top

LEMMA SameTurn == Sig!ClientTurn <=> S!ClientTurn
BY SameTop DEF Sig!ClientTurn, S!ClientTurn

LEMMA SameRecvSet ==
  ASSUME NEW w \in Win
  PROVE  /\ Sig!RecvSet(w, Event) => S!RecvSet(w, Event)
         /\ Sig!RecvSetFails(w, Event) => S!RecvSetFails(w, Event)
         /\ Sig!RecvUnset(w) => S!RecvUnset(w)
BY SameUnset, SameTurn
   DEF Sig!RecvSet, S!RecvSet, Sig!RecvSetFails, S!RecvSetFails, Sig!RecvUnset, S!RecvUnset,
       Sig!MayDetach, S!MayDetach, Sig!Detached, S!Detached

LEMMA SameDeinit == Sig!Deinit(Event) => S!Deinit(Event)
BY SameTurn DEF Sig!Deinit, S!Deinit, Sig!MayDeinit, S!MayDeinit, Sig!ToSet, S!ToSet

LEMMA SameEmission ==
  /\ Sig!SignalInit(Event) => S!SignalInit(Event)
  /\ Sig!Emit(Event) => S!Emit(Event)
  /\ Sig!Call => S!Call
  /\ Sig!CallHole => S!CallHole
  /\ Sig!Return(1) => S!Return(1)
  /\ Sig!EndLoop => S!EndLoop
  /\ Sig!CompactSlot => S!CompactSlot
  /\ Sig!Shrink => S!Shrink
<1> USE SameTop, SameTurn DEF Sig!EmitterAt, S!EmitterAt, Sig!MoveTo, S!MoveTo
<1>1. Sig!SignalInit(Event) => S!SignalInit(Event)
  BY DEF Sig!SignalInit, S!SignalInit, Sig!Emitted, S!Emitted
<1>2. Sig!Emit(Event) => S!Emit(Event)
  BY DEF Sig!Emit, S!Emit, Sig!Emitted, S!Emitted, Sig!FirstIndex, S!FirstIndex
<1>3. (Sig!Call => S!Call) /\ (Sig!CallHole => S!CallHole)
  BY DEF Sig!Call, S!Call, Sig!CallHole, S!CallHole
<1>4. Sig!Return(1) => S!Return(1)
  BY DEF Sig!Return, S!Return, Sig!NextIndex, S!NextIndex
<1>5. Sig!EndLoop => S!EndLoop
  BY DEF Sig!EndLoop, S!EndLoop, Sig!AtEnd, S!AtEnd, Sig!FlagCleared, S!FlagCleared
<1>6. Sig!CompactSlot => S!CompactSlot
  BY DEF Sig!CompactSlot, S!CompactSlot
<1>7. Sig!Shrink => S!Shrink
  BY DEF Sig!Shrink, S!Shrink, Sig!Kept, S!Kept, Sig!Front, S!Front
<1>8. QED
  BY <1>1, <1>2, <1>3, <1>4, <1>5, <1>6, <1>7

-----------------------------------------------------------------------------
(* What the invariant says of clients that have the control.               *)

LEMMA InvOfSignal ==
  ASSUME WindowsInv
  PROVE  /\ S!SubscriptionInv /\ S!TypeInv /\ S!TypeOK
         /\ recvs \in [{Event} -> Seq(Win \cup {NULL})]
         /\ recvs[Event] \in Seq(Win \cup {NULL})
         /\ DOMAIN recvs[Event] = 1 .. Len(recvs[Event])
         /\ attached \in [Win -> {Event, NULL}]
<1>1. S!SubscriptionInv
  BY SameInv DEF WindowsInv
<1>2. S!TypeInv /\ S!TypeOK
  BY <1>1 DEF S!SubscriptionInv, S!TypeInv
<1>3. recvs \in [{Event} -> Seq(Win \cup {NULL})] /\ attached \in [Win -> {Event, NULL}]
  BY <1>2 DEF S!TypeOK, S!Slot
<1>4. QED
  BY <1>1, <1>2, <1>3

(* The innermost emission is the only one.                                 *)
LEMMA OneFrame ==
  ASSUME WindowsInv, stack # <<>>
  PROVE  DOMAIN stack = {1} /\ stack[1] = Sig!Top /\ S!Top = Sig!Top
         /\ Sig!Top.sig = Event /\ Len(stack) = 1
<1>1. Len(stack) = 1 /\ DOMAIN stack = 1 .. Len(stack)
  <2>1. Len(stack) = 1
    BY DEF WindowsInv, EmissionsArePolls
  <2>2. stack \in Seq(S!Frame)
    BY InvOfSignal DEF S!TypeOK
  <2>3. QED
    BY <2>1, <2>2
<1>2. Sig!Top = stack[1]
  BY <1>1 DEF Sig!Top
<1>3. S!Top.sig \in {Event}
  BY SignalAssumptions, InvOfSignal, S!TopFrame
<1>4. QED
  BY <1>1, <1>2, <1>3, SameTop

LEMMA FrameTyped ==
  ASSUME WindowsInv, stack # <<>>
  PROVE  Sig!Top.sig = Event /\ Sig!Top.pos \in Nat \ {0} /\ Sig!Top.kept \in Nat
<1>1. S!Top \in S!Frame
  BY SignalAssumptions, InvOfSignal, S!TopFrame
<1>2. QED
  BY <1>1, OneFrame DEF S!Frame

(* No compaction is under way, so that every slot counts.                  *)
LEMMA ClientsSeeAllSlots ==
  ASSUME WindowsInv, stack = <<>> \/ inside
  PROVE  S!NoCompaction /\ S!Agreed
<1>1. S!NoCompaction
  <2>1. CASE stack = <<>>
    BY <2>1, EmptySeq DEF S!NoCompaction
  <2>2. CASE inside
    BY <2>2, OneFrame DEF WindowsInv, EmissionsArePolls, S!NoCompaction
  <2>3. QED
    BY <2>1, <2>2
<1>2. S!SubscriptionConsistent /\ S!TypeInv
  BY InvOfSignal DEF S!SubscriptionInv
<1>3. QED
  BY <1>1, <1>2, SignalAssumptions, S!AllCount

(* Memory that win_init() may be given is in no slot.                      *)
LEMMA FreshWindow ==
  ASSUME WindowsInv, NEW w \in Win, MayInit(w)
  PROVE  /\ phase = "loop" /\ win[w] # "open" /\ attached[w] = NULL
         /\ stack = <<>> \/ inside
         /\ \A i \in DOMAIN recvs[Event] : recvs[Event][i] # w
         /\ Sig!Unset(w) = recvs
<1>1. phase = "loop" /\ win[w] # "open" /\ (stack = <<>> \/ inside)
  BY DEF MayInit, ClientTurn, WindowsInv, EmissionsArePolls
<1>2. S!Agreed
  BY <1>1, ClientsSeeAllSlots
<1>3. attached[w] \in {Event, NULL} /\ w # NULL /\ Event # NULL
  BY InvOfSignal, NullAssumption
<1>4. \A x \in Win : attached[x] = Event
                       <=> \E i \in DOMAIN recvs[Event] : recvs[Event][i] = x
  BY <1>2, InvOfSignal DEF S!Agreed, S!Contains
<1>5. attached[w] = NULL
  BY <1>3, <1>4 DEF MayInit, WindowsInv, SlotsAreWindows
<1>6. \A i \in DOMAIN recvs[Event] : recvs[Event][i] # w
  BY <1>3, <1>4, <1>5
<1>7. Sig!Unset(w) = recvs
  BY <1>5 DEF Sig!Unset
<1>8. QED
  BY <1>1, <1>5, <1>6, <1>7

(* The count tells whether a window is the last owner.                     *)
LEMMA Owners ==
  ASSUME WindowsInv
  PROVE  /\ IsFiniteSet(OpenWindows) /\ Cardinality(OpenWindows) \in Nat
         /\ Cardinality(OpenWindows) = 0 <=> OpenWindows = {}
         /\ refcnt = Cardinality(OpenWindows) + (IF mainRef THEN 1 ELSE 0)
<1>1. IsFiniteSet(OpenWindows)
  BY FiniteAssumption, FS_Subset DEF OpenWindows
<1>2. QED
  BY <1>1, FS_CardinalityType, FS_EmptySet DEF WindowsInv, OwnersCounted

(* A window that is given up is subscribed, and if it is the last owner of *)
(* the module no emission is in progress.                                  *)
LEMMA LeavingWindow ==
  ASSUME WindowsInv, NEW w \in Win, win[w] = "open", MayDeinit(w)
  PROVE  /\ attached[w] = Event
         /\ stack = <<>> \/ inside
         /\ refcnt > 0 /\ (refcnt = 1 => OpenWindows = {w} /\ ~mainRef /\ stack = <<>>)
<1>1. stack = <<>> \/ inside
  BY DEF MayDeinit, ClientTurn, WindowsInv, EmissionsArePolls, PhasesOrdered
<1>2. attached[w] = Event
  BY DEF WindowsInv, SlotsAreWindows, OpenWindows
<1>3. refcnt > 0 /\ (refcnt = 1 => OpenWindows = {w} /\ ~mainRef)
  <2>1. w \in OpenWindows /\ refcnt = Cardinality(OpenWindows) + (IF mainRef THEN 1 ELSE 0)
    BY Owners DEF OpenWindows
  <2>2. Cardinality(OpenWindows \ {w}) = Cardinality(OpenWindows) - 1
    BY <2>1, Owners, FS_RemoveElement
  <2>3. /\ Cardinality(OpenWindows \ {w}) \in Nat
        /\ Cardinality(OpenWindows \ {w}) = 0 => OpenWindows \ {w} = {}
    <3>1. IsFiniteSet(OpenWindows \ {w})
      BY Owners, FS_RemoveElement
    <3>2. QED
      BY <3>1, FS_CardinalityType, FS_EmptySet
  <2>4. mainRef \in BOOLEAN
    BY DEF WindowsInv, TypeOK
  <2>5. QED
    BY <2>1, <2>2, <2>3, <2>4, Owners
<1>4. refcnt = 1 => stack = <<>>
  BY <1>3 DEF WindowsInv, EmissionsArePolls, PhasesOrdered
<1>5. QED
  BY <1>1, <1>2, <1>3, <1>4

-----------------------------------------------------------------------------
(* Every step is one of Signal, or leaves the signal alone.                *)

LEMMA WindowStepIsSignals ==
  ASSUME NEW w \in Win,
         WinInit(w) \/ WinInitNotHeard(w) \/ WinInitNotShown(w) \/ WinDeinit(w)
  PROVE  S!Next
<1>1. \/ Sig!RecvSet(w, Event) \/ Sig!RecvSetFails(w, Event) \/ Sig!RecvUnset(w)
      \/ Sig!Deinit(Event)
  BY DEF WinInit, WinInitNotHeard, WinInitNotShown, WinDeinit, Unref, Unheard
<1>2. \/ S!RecvSet(w, Event) \/ S!RecvSetFails(w, Event) \/ S!RecvUnset(w)
      \/ S!Deinit(Event)
  BY <1>1, SameRecvSet, SameDeinit
<1>3. QED
  BY <1>2 DEF S!Next, S!Client

LEMMA StepIsSignals ==
  ASSUME [Next]_vars
  PROVE  [S!Next]_(S!vars)
<1>1. ASSUME Load \/ \E e \in WinId : PollEvent(e)
      PROVE  S!Next
  <2>1. S!SignalInit(Event) \/ S!Emit(Event)
    BY <1>1, SameEmission DEF Load, PollEvent
  <2>2. QED
    BY <2>1 DEF S!Next, S!Client
<1>2. ASSUME Emission \/ HandleReturns
      PROVE  S!Next
  <2>1. \/ S!Call \/ S!CallHole \/ S!EndLoop \/ S!CompactSlot \/ S!Shrink
        \/ S!Return(1)
    BY <1>2, SameEmission DEF Emission, Dispatch, Crash, EmitEnds, EventDone, HandleReturns
  <2>2. 1 \in 1 .. 1
    OBVIOUS
  <2>3. QED
    BY <2>1, <2>2 DEF S!Next, S!Library
<1>3. ASSUME Unload
      PROVE  S!Next \/ UNCHANGED signalVars
  <2>1. Sig!Deinit(Event) \/ UNCHANGED signalVars
    BY <1>3 DEF Unload, Unref
  <2>2. QED
    BY <2>1, SameDeinit DEF S!Next, S!Client
<1>4. ASSUME \/ ClientIdle \/ LoopEnds \/ Walk \/ PollCloses \/ Exit \/ Terminated
             \/ PollFires \/ PollReturns \/ UNCHANGED vars
      PROVE  UNCHANGED signalVars
  BY <1>4 DEF ClientIdle, LoopEnds, Walk, PollCloses, Exit, Terminated, PollFires,
              PollReturns, vars
<1>5. S!Next \/ UNCHANGED signalVars
  BY WindowStepIsSignals, <1>1, <1>2, <1>3, <1>4 DEF Next, Client, Program
<1>6. QED
  BY <1>5 DEF signalVars, S!vars

LEMMA SignalStep ==
  ASSUME WindowsInv, [Next]_vars
  PROVE  Sig!SubscriptionInv' /\ Sig!TypeOK'
<1>1. S!SubscriptionInv'
  BY StepIsSignals, SignalAssumptions, InvOfSignal, S!SubscriptionStep
<1>2. Sig!SubscriptionInv'
  BY <1>1, SameInv, PTL
<1>3. QED
  BY <1>2 DEF Sig!SubscriptionInv, Sig!TypeInv

-----------------------------------------------------------------------------
(* Slots and windows.                                                      *)

(* An emission only moves slots down or drops them.                        *)
LEMMA EmissionKeepsSlots ==
  ASSUME WindowsInv, Emission
  PROVE  /\ attached' = attached /\ win' = win
         /\ \A i \in DOMAIN recvs'[Event] :
              \E j \in DOMAIN recvs[Event] : recvs'[Event][i] = recvs[Event][j]
<1>1. CASE Dispatch \/ Crash \/ (Sig!EndLoop /\ EmitEnds)
  BY <1>1 DEF Dispatch, Crash, EmitEnds, Sig!Call, Sig!CallHole, Sig!EndLoop, windowVars
<1>2. CASE Sig!CompactSlot /\ EmitEnds
  <2>1. S!CompactSlot /\ S!TypeInv /\ stack # <<>> /\ attached' = attached /\ win' = win
    BY <1>2, SameEmission, InvOfSignal DEF EmitEnds, Sig!CompactSlot, Sig!EmitterAt,
       windowVars
  <2>2. S!Top.sig = Event
    BY <2>1, OneFrame
  <2>3. /\ S!Top.pos \in 1 .. Len(recvs[Event])
        /\ recvs' \in [{Event} -> Seq(S!Slot)]
        /\ Len(recvs'[Event]) = Len(recvs[Event])
        /\ \/ \A i \in 1 .. Len(recvs[Event]) :
                recvs'[Event][i] = IF i = S!Top.kept + 1 THEN recvs[Event][S!Top.pos]
                                                         ELSE recvs[Event][i]
           \/ recvs' = recvs
    BY <2>1, <2>2, SignalAssumptions, S!CompactSlotCopies
  <2>4. DOMAIN recvs'[Event] = DOMAIN recvs[Event]
    <3>1. recvs'[Event] \in Seq(S!Slot)
      BY <2>3
    <3>2. QED
      BY <2>3, <3>1, InvOfSignal
  <2>5. QED
    BY <2>1, <2>3, <2>4, InvOfSignal
<1>3. CASE EventDone
  <2>1. S!Shrink /\ S!TypeInv /\ stack # <<>> /\ attached' = attached /\ win' = win
    BY <1>3, SameEmission, InvOfSignal DEF EventDone, Sig!Shrink, Sig!EmitterAt,
       windowVars
  <2>2. S!Top.sig = Event
    BY <2>1, OneFrame
  <2>3. /\ S!Top.kept \in 0 .. Len(recvs[Event])
        /\ recvs' \in [{Event} -> Seq(S!Slot)]
        /\ Len(recvs'[Event]) = S!Top.kept
        /\ \A i \in 1 .. S!Top.kept : recvs'[Event][i] = recvs[Event][i]
    BY <2>1, <2>2, SignalAssumptions, S!ShrinkCuts
  <2>4. DOMAIN recvs'[Event] = 1 .. S!Top.kept
    <3>1. recvs'[Event] \in Seq(S!Slot)
      BY <2>3
    <3>2. QED
      BY <2>3, <3>1
  <2>5. Len(recvs[Event]) \in Nat
    BY InvOfSignal
  <2>6. QED
    BY <2>1, <2>3, <2>4, <2>5, InvOfSignal
<1>4. \/ Dispatch \/ Crash \/ (Sig!EndLoop /\ EmitEnds) \/ (Sig!CompactSlot /\ EmitEnds)
      \/ EventDone
  BY DEF Emission, EmitEnds
<1>5. QED
  BY <1>1, <1>2, <1>3, <1>4, Zenon

(* What win_init() does to the slots.                                      *)
LEMMA InitAppends ==
  ASSUME WindowsInv, NEW w \in Win, MayInit(w),
         Sig!RecvSet(w, Event)
  PROVE  /\ attached' = [attached EXCEPT ![w] = Event]
         /\ recvs'[Event] = Append(recvs[Event], w)
         /\ DOMAIN recvs'[Event] = 1 .. (Len(recvs[Event]) + 1)
         /\ \A i \in DOMAIN recvs[Event] :
              i \in DOMAIN recvs'[Event] /\ recvs'[Event][i] = recvs[Event][i]
         /\ recvs'[Event][Len(recvs[Event]) + 1] = w
<1>1. Sig!Unset(w) = recvs
  BY FreshWindow
<1>2. /\ recvs' = [recvs EXCEPT ![Event] = Append(@, w)]
      /\ attached' = [attached EXCEPT ![w] = Event]
  BY <1>1 DEF Sig!RecvSet
<1>3. recvs'[Event] = Append(recvs[Event], w)
  BY <1>2, InvOfSignal
<1>4. w \in Win \cup {NULL}
  OBVIOUS
<1>5. /\ Len(Append(recvs[Event], w)) = Len(recvs[Event]) + 1
      /\ Append(recvs[Event], w) \in Seq(Win \cup {NULL})
      /\ \A i \in 1 .. Len(recvs[Event]) : Append(recvs[Event], w)[i] = recvs[Event][i]
      /\ Append(recvs[Event], w)[Len(recvs[Event]) + 1] = w
  BY <1>4, InvOfSignal, AppendProperties
<1>6. Len(recvs[Event]) \in Nat
  BY InvOfSignal
<1>7. DOMAIN recvs'[Event] = 1 .. (Len(recvs[Event]) + 1)
  BY <1>3, <1>5
<1>8. QED
  BY <1>2, <1>3, <1>5, <1>6, <1>7, InvOfSignal

(* What win_deinit() does to them.                                         *)
LEMMA DeinitDrops ==
  ASSUME WindowsInv, NEW w \in Win, win[w] = "open", MayDeinit(w),
         Sig!RecvUnset(w)
  PROVE  /\ attached' = [attached EXCEPT ![w] = NULL]
         /\ \A i \in DOMAIN recvs'[Event] :
              recvs'[Event][i] # NULL =>
                /\ recvs'[Event][i] # w
                /\ \E j \in DOMAIN recvs[Event] : recvs'[Event][i] = recvs[Event][j]
<1>1. S!Agreed /\ S!TypeOK
  BY LeavingWindow, ClientsSeeAllSlots, InvOfSignal
<1>2. recvs' = S!Unset(w) /\ attached' = [attached EXCEPT ![w] = NULL]
  BY SameUnset DEF Sig!RecvUnset, Sig!Detached
<1>3. /\ S!Unset(w)[Event] \in Seq(S!Slot)
      /\ \A x \in Win : S!Contains(S!Unset(w)[Event], x) <=> x # w /\ attached[x] = Event
  BY <1>1, SignalAssumptions, S!UnsetDropsOne
<1>4. ASSUME NEW i \in DOMAIN recvs'[Event], recvs'[Event][i] # NULL
      PROVE  /\ recvs'[Event][i] # w
             /\ \E j \in DOMAIN recvs[Event] : recvs'[Event][i] = recvs[Event][j]
  <2> DEFINE x == recvs'[Event][i]
  <2>1. recvs'[Event] \in Seq(S!Slot)
    BY <1>2, <1>3
  <2>2. i \in 1 .. Len(recvs'[Event])
    BY <2>1
  <2>3. x \in Win
    BY <1>4, <2>1, <2>2, ElementOfSeq DEF S!Slot
  <2>4. S!Contains(recvs'[Event], x)
    BY <2>2 DEF S!Contains
  <2>5. x # w /\ attached[x] = Event
    BY <1>2, <1>3, <2>3, <2>4
  <2>6. S!Contains(recvs[Event], x)
    BY <1>1, <2>3, <2>5 DEF S!Agreed
  <2>7. QED
    BY <2>5, <2>6, InvOfSignal DEF S!Contains
<1>5. QED
  BY <1>2, <1>4

LEMMA DeinitEmpties ==
  ASSUME WindowsInv, Sig!Deinit(Event)
  PROVE  recvs'[Event] = <<>> /\ DOMAIN recvs'[Event] = {} /\ live' = [live EXCEPT ![Event] = FALSE]
         /\ stack' = stack
<1>1. recvs' = [recvs EXCEPT ![Event] = <<>>]
  BY DEF Sig!Deinit
<1>2. recvs'[Event] = <<>>
  BY <1>1, InvOfSignal
<1>3. QED
  BY <1>2, EmptySeq DEF Sig!Deinit

(* Windows that are open are subscribed, and slots are windows, after any  *)
(* step.                                                                   *)
LEMMA SlotsStep ==
  ASSUME WindowsInv, DeinitsFailed = FALSE, [Next]_vars
  PROVE  SlotsAreWindows'
<1>1. /\ \A w \in Win : win[w] = "open" => attached[w] = Event
      /\ \A i \in DOMAIN recvs[Event] :
           recvs[Event][i] # NULL => win[recvs[Event][i]] # "none"
  BY DEF WindowsInv, SlotsAreWindows, OpenWindows
<1>2. win \in [Win -> {"none", "open", "failed"}]
  BY DEF WindowsInv, TypeOK
<1>3. attached \in [Win -> {Event, NULL}] /\ NULL # Event
  BY InvOfSignal, NullAssumption
<1>4. ASSUME NEW w \in Win, WinInit(w) \/ WinInitNotShown(w)
      PROVE  SlotsAreWindows'
  <2>1. /\ MayInit(w) /\ Sig!RecvSet(w, Event)
        /\ \E o \in {"open", "failed"} : win' = [win EXCEPT ![w] = o]
    BY <1>4 DEF WinInit, WinInitNotShown
  <2>2. /\ attached' = [attached EXCEPT ![w] = Event]
        /\ DOMAIN recvs'[Event] = 1 .. (Len(recvs[Event]) + 1)
        /\ DOMAIN recvs[Event] = 1 .. Len(recvs[Event])
        /\ Len(recvs[Event]) \in Nat
        /\ \A i \in DOMAIN recvs[Event] : recvs'[Event][i] = recvs[Event][i]
        /\ recvs'[Event][Len(recvs[Event]) + 1] = w
    BY <2>1, InitAppends, InvOfSignal
  <2>3. \A x \in Win : win'[x] = "open" => attached'[x] = Event
    BY <1>1, <1>2, <1>3, <2>1, <2>2
  <2>4. \A x \in Win : win[x] # "none" => win'[x] # "none"
    BY <1>2, <2>1
  <2>5. win'[w] # "none"
    BY <1>2, <2>1
  <2>6. ASSUME NEW i \in DOMAIN recvs'[Event], recvs'[Event][i] # NULL
        PROVE  win'[recvs'[Event][i]] # "none"
    <3>1. CASE i = Len(recvs[Event]) + 1
      BY <2>2, <2>5, <3>1
    <3>2. CASE i # Len(recvs[Event]) + 1
      <4>1. i \in 1 .. Len(recvs[Event])
        BY <2>2, <3>2
      <4>2. recvs'[Event][i] = recvs[Event][i] /\ recvs[Event][i] \in Win
        BY <2>2, <2>6, <4>1, InvOfSignal, ElementOfSeq
      <4>3. win[recvs[Event][i]] # "none"
        BY <1>1, <2>2, <2>6, <4>1, <4>2
      <4>4. QED
        BY <2>4, <4>2, <4>3
    <3>3. QED
      BY <3>1, <3>2
  <2>7. QED
    BY <2>3, <2>6 DEF SlotsAreWindows, OpenWindows
<1>5. ASSUME NEW w \in Win, WinInitNotHeard(w)
      PROVE  SlotsAreWindows'
  <2>1. /\ MayInit(w) /\ Sig!RecvSetFails(w, Event) /\ win' = [win EXCEPT ![w] = "failed"]
    BY <1>5 DEF WinInitNotHeard
  <2>2. recvs' = recvs /\ attached' = [attached EXCEPT ![w] = NULL]
    BY <2>1, FreshWindow DEF Sig!RecvSetFails, Sig!Detached
  <2>3. \A x \in Win : win'[x] = "open" => attached'[x] = Event
    BY <1>1, <1>2, <1>3, <2>1, <2>2
  <2>4. \A x \in Win : win[x] # "none" => win'[x] # "none"
    BY <1>2, <2>1
  <2>5. ASSUME NEW i \in DOMAIN recvs[Event], recvs[Event][i] # NULL
        PROVE  win'[recvs[Event][i]] # "none"
    <3>1. recvs[Event][i] \in Win
      BY <2>5, InvOfSignal, ElementOfSeq
    <3>2. QED
      BY <1>1, <2>4, <2>5, <3>1
  <2>6. QED
    BY <2>2, <2>3, <2>5 DEF SlotsAreWindows, OpenWindows
<1>6. ASSUME NEW w \in Win, WinDeinit(w)
      PROVE  SlotsAreWindows'
  <2>1. /\ MayDeinit(w) /\ win[w] = "open" /\ win' = [win EXCEPT ![w] = "none"]
        /\ refcnt = 1 => Sig!Deinit(Event)
        /\ refcnt # 1 => Sig!RecvUnset(w)
    BY <1>6 DEF WinDeinit, MayDeinit, Unheard, Unref, IsLast
  <2>2. \A x \in Win : x # w => win'[x] = win[x]
    BY <1>2, <2>1
  <2>3. win'[w] # "open"
    BY <1>2, <2>1
  <2>4. CASE refcnt = 1
    <3>1. OpenWindows = {w}
      BY <2>1, <2>4, LeavingWindow
    <3>2. \A x \in Win : win'[x] # "open"
      BY <2>2, <2>3, <3>1 DEF OpenWindows
    <3>3. DOMAIN recvs'[Event] = {}
      BY <2>1, <2>4, DeinitEmpties
    <3>4. QED
      BY <3>2, <3>3 DEF SlotsAreWindows, OpenWindows
  <2>5. CASE refcnt # 1
    <3>1. /\ attached' = [attached EXCEPT ![w] = NULL]
          /\ \A i \in DOMAIN recvs'[Event] :
               recvs'[Event][i] # NULL =>
                 /\ recvs'[Event][i] # w
                 /\ \E j \in DOMAIN recvs[Event] : recvs'[Event][i] = recvs[Event][j]
      BY <2>1, <2>5, DeinitDrops
    <3>2. \A x \in Win : win'[x] = "open" => attached'[x] = Event
      BY <1>1, <1>3, <2>2, <2>3, <3>1
    <3>3. ASSUME NEW i \in DOMAIN recvs'[Event], recvs'[Event][i] # NULL
          PROVE  win'[recvs'[Event][i]] # "none"
      <4>1. PICK j \in DOMAIN recvs[Event] : recvs'[Event][i] = recvs[Event][j]
        BY <3>1, <3>3
      <4>2. recvs[Event][j] \in Win /\ recvs[Event][j] # w
        BY <3>1, <3>3, <4>1, InvOfSignal, ElementOfSeq
      <4>3. QED
        BY <1>1, <2>2, <3>3, <4>1, <4>2
    <3>4. QED
      BY <3>2, <3>3 DEF SlotsAreWindows, OpenWindows
  <2>6. QED
    BY <2>4, <2>5
<1>7. CASE Load
  <2>1. win' = win /\ OpenWindows = {} /\ recvs' = [recvs EXCEPT ![Event] = <<>>]
    BY <1>7 DEF Load, Sig!SignalInit, WindowsInv, PhasesOrdered, windowVars
  <2>2. DOMAIN recvs'[Event] = {}
    BY <2>1, InvOfSignal, EmptySeq
  <2>3. QED
    BY <2>1, <2>2 DEF SlotsAreWindows, OpenWindows
<1>8. CASE Unload
  <2>1. /\ win' = win /\ mainRef
        /\ refcnt = 1 => Sig!Deinit(Event)
        /\ refcnt # 1 => UNCHANGED signalVars
    BY <1>8 DEF Unload, Unref, IsLast, windowVars
  <2>2. CASE refcnt = 1
    <3>1. OpenWindows = {}
      BY <2>1, <2>2, Owners
    <3>2. DOMAIN recvs'[Event] = {}
      BY <2>1, <2>2, DeinitEmpties
    <3>3. QED
      BY <2>1, <3>1, <3>2 DEF SlotsAreWindows, OpenWindows
  <2>3. CASE refcnt # 1
    BY <1>1, <2>1, <2>3 DEF SlotsAreWindows, OpenWindows, signalVars
  <2>4. QED
    BY <2>2, <2>3
<1>9. CASE Emission
  <2>1. /\ attached' = attached /\ win' = win
        /\ \A i \in DOMAIN recvs'[Event] :
             \E j \in DOMAIN recvs[Event] : recvs'[Event][i] = recvs[Event][j]
    BY <1>9, EmissionKeepsSlots
  <2>2. \A i \in DOMAIN recvs'[Event] :
          recvs'[Event][i] # NULL => win'[recvs'[Event][i]] # "none"
    BY <1>1, <2>1
  <2>3. QED
    BY <1>1, <2>1, <2>2 DEF SlotsAreWindows, OpenWindows
<1>10. CASE \/ HandleReturns \/ \E e \in WinId : PollEvent(e)
            \/ ClientIdle \/ LoopEnds \/ Walk \/ PollCloses \/ Exit \/ Terminated
            \/ PollFires \/ PollReturns \/ UNCHANGED vars
  <2>1. UNCHANGED <<attached, recvs, win>>
    BY <1>10 DEF HandleReturns, PollEvent, ClientIdle, LoopEnds, Walk, PollCloses, Exit,
                 Terminated, PollFires, PollReturns, vars, signalVars, windowVars, Sig!Return,
                 Sig!Emit
  <2>2. QED
    BY <1>1, <2>1 DEF SlotsAreWindows, OpenWindows
<1>11. QED
  BY <1>4, <1>5, <1>6, <1>7, <1>8, <1>9, <1>10 DEF Next, Client, Program

-----------------------------------------------------------------------------
(* The count.                                                              *)

LEMMA OwnersStep ==
  ASSUME WindowsInv, DeinitsFailed = FALSE, [Next]_vars
  PROVE  OwnersCounted'
<1> DEFINE c == Cardinality(OpenWindows)
           one(b) == IF b THEN 1 ELSE 0
<1>1. /\ IsFiniteSet(OpenWindows) /\ c \in Nat /\ (c = 0 <=> OpenWindows = {})
      /\ refcnt = c + one(mainRef)
  BY Owners
<1>2. /\ live[Event] <=> refcnt > 0
      /\ timer \in {"started", "stopped"} <=> live[Event]
      /\ win \in [Win -> {"none", "open", "failed"}] /\ mainRef \in BOOLEAN
      /\ refcnt \in Nat
  BY DEF WindowsInv, OwnersCounted, TypeOK
<1>3. live \in [{Event} -> BOOLEAN]
  BY InvOfSignal DEF S!TypeOK
<1>4. ASSUME NEW w \in Win, WinInit(w)
      PROVE  OwnersCounted'
  <2>1. /\ MayInit(w) /\ Sig!RecvSet(w, Event) /\ win' = [win EXCEPT ![w] = "open"]
        /\ refcnt' = refcnt + 1 /\ UNCHANGED <<timer, mainRef>>
    BY <1>4 DEF WinInit, CountedOnce, pollVars, mainVars
  <2>2. w \notin OpenWindows
    BY <2>1, FreshWindow DEF OpenWindows
  <2>3. OpenWindows' = OpenWindows \cup {w}
    BY <1>2, <2>1 DEF OpenWindows
  <2>4. Cardinality(OpenWindows') = c + 1
    BY <1>1, <2>2, <2>3, FS_AddElement
  <2>5. live' = live /\ live[Event]
    BY <2>1 DEF Sig!RecvSet
  <2> HIDE DEF c
  <2>6. refcnt' = (c + 1) + one(mainRef') /\ refcnt' > 0
    BY <1>1, <1>2, <2>1
  <2>7. QED
    BY <1>2, <2>1, <2>4, <2>5, <2>6 DEF OwnersCounted
<1>5. ASSUME NEW w \in Win, WinInitNotHeard(w) \/ WinInitNotShown(w)
      PROVE  OwnersCounted'
  <2>1. /\ MayInit(w) /\ win' = [win EXCEPT ![w] = "failed"]
        /\ UNCHANGED <<refcnt, timer, mainRef, live>>
    BY <1>5 DEF WinInitNotHeard, WinInitNotShown, pollVars, mainVars, Sig!RecvSet,
                Sig!RecvSetFails
  <2>2. OpenWindows' = OpenWindows
    BY <1>2, <2>1, FreshWindow DEF OpenWindows
  <2>3. QED
    BY <1>1, <1>2, <2>1, <2>2 DEF OwnersCounted
<1>6. ASSUME NEW w \in Win, WinDeinit(w)
      PROVE  OwnersCounted'
  <2>1. /\ MayDeinit(w) /\ win[w] = "open" /\ win' = [win EXCEPT ![w] = "none"]
        /\ refcnt' = refcnt - 1 /\ mainRef' = mainRef
        /\ refcnt = 1 => Sig!Deinit(Event) /\ timer' = "closing"
        /\ refcnt # 1 => Sig!RecvUnset(w) /\ timer' = timer
    BY <1>6 DEF WinDeinit, MayDeinit, Unheard, Unref, IsLast, mainVars
  <2>2. w \in OpenWindows /\ OpenWindows' = OpenWindows \ {w}
    BY <1>2, <2>1 DEF OpenWindows
  <2>3. Cardinality(OpenWindows') = c - 1
    BY <1>1, <2>2, FS_RemoveElement
  <2>4. refcnt > 0
    BY <2>1, LeavingWindow
  <2> HIDE DEF c
  <2>5. refcnt' = (c - 1) + one(mainRef')
    BY <1>1, <1>2, <2>1
  <2>6. CASE refcnt = 1
    <3>1. live'[Event] = FALSE /\ refcnt' = 0
      BY <1>3, <2>1, <2>6, DeinitEmpties
    <3>2. QED
      BY <2>1, <2>3, <2>5, <2>6, <3>1 DEF OwnersCounted
  <2>7. CASE refcnt # 1
    <3>1. live' = live /\ live[Event] /\ refcnt' > 0
      BY <1>2, <2>1, <2>4, <2>7 DEF Sig!RecvUnset
    <3>2. QED
      BY <1>2, <2>1, <2>3, <2>5, <2>7, <3>1 DEF OwnersCounted
  <2>8. QED
    BY <2>6, <2>7
<1>7. CASE Load
  <2>1. /\ live' = [live EXCEPT ![Event] = TRUE] /\ win' = win /\ refcnt' = 1
        /\ mainRef' = TRUE /\ timer' = "started" /\ OpenWindows = {}
    BY <1>7 DEF Load, PollNew, Sig!SignalInit, WindowsInv, PhasesOrdered, windowVars
  <2>2. Cardinality(OpenWindows') = 0
    BY <1>1, <2>1 DEF OpenWindows
  <2>3. live'[Event]
    BY <1>3, <2>1
  <2>4. QED
    BY <2>1, <2>2, <2>3 DEF OwnersCounted
<1>8. CASE Unload
  <2>1. /\ win' = win /\ mainRef /\ mainRef' = FALSE /\ refcnt' = refcnt - 1
        /\ refcnt = 1 => Sig!Deinit(Event) /\ timer' = "closing"
        /\ refcnt # 1 => live' = live /\ timer' = timer
    BY <1>8 DEF Unload, Unref, IsLast, signalVars, windowVars
  <2>2. OpenWindows' = OpenWindows
    BY <2>1 DEF OpenWindows
  <2> HIDE DEF c
  <2>3. refcnt' = c + 0 /\ refcnt > 0
    BY <1>1, <2>1
  <2>4. CASE refcnt = 1
    <3>1. live'[Event] = FALSE /\ refcnt' = 0
      BY <1>3, <2>1, <2>4, DeinitEmpties
    <3>2. QED
      BY <2>1, <2>2, <2>3, <2>4, <3>1 DEF OwnersCounted, c
  <2>5. CASE refcnt # 1
    <3>1. refcnt' > 0
      BY <1>2, <2>1, <2>3, <2>5
    <3>2. QED
      BY <1>2, <2>1, <2>2, <2>3, <2>5, <3>1 DEF OwnersCounted, c
  <2>6. QED
    BY <2>4, <2>5
<1>9. CASE Walk
  <2>1. /\ UNCHANGED <<win, refcnt, mainRef, live>> /\ ~mainRef
        /\ \A w \in Win : win[w] # "open"
        /\ timer' \in {"closing", "orphan"}
    BY <1>9 DEF Walk, signalVars, windowVars
  <2>2. OpenWindows' = OpenWindows /\ OpenWindows = {}
    BY <2>1 DEF OpenWindows
  <2>3. refcnt = 0 /\ Cardinality(OpenWindows') = 0
    BY <1>1, <2>1, <2>2
  <2>4. ~(live[Event]) /\ timer' \notin {"started", "stopped"}
    BY <1>2, <2>1, <2>3
  <2>5. QED
    BY <2>1, <2>3, <2>4 DEF OwnersCounted
<1>10. CASE \/ Emission \/ HandleReturns \/ \E e \in WinId : PollEvent(e)
            \/ ClientIdle \/ LoopEnds \/ PollCloses \/ Exit \/ Terminated
            \/ PollFires \/ PollReturns \/ UNCHANGED vars
  <2>1. UNCHANGED <<win, refcnt, mainRef, live>>
    BY <1>10 DEF Emission, Dispatch, Crash, EmitEnds, EventDone, HandleReturns, PollEvent,
                 ClientIdle, LoopEnds, PollCloses, Exit, Terminated, PollFires,
                 PollReturns, vars, signalVars, windowVars, pollVars, mainVars, Sig!Call,
                 Sig!CallHole, Sig!EndLoop, Sig!CompactSlot, Sig!Shrink, Sig!Return, Sig!Emit
  <2>2. \/ timer' = timer
        \/ timer \in {"started", "stopped"} /\ timer' \in {"started", "stopped"}
        \/ timer = "closing" /\ timer' = "closed"
    BY <1>10 DEF Emission, Dispatch, Crash, EmitEnds, EventDone, HandleReturns, PollEvent,
                 ClientIdle, LoopEnds, PollCloses, Exit, Terminated, PollFires,
                 PollReturns, vars, pollVars
  <2>3. OpenWindows' = OpenWindows
    BY <2>1 DEF OpenWindows
  <2>4. timer' \in {"started", "stopped"} <=> timer \in {"started", "stopped"}
    BY <2>2
  <2>5. QED
    BY <1>1, <1>2, <2>1, <2>3, <2>4 DEF OwnersCounted
<1>11. QED
  BY <1>4, <1>5, <1>6, <1>7, <1>8, <1>9, <1>10 DEF Next, Client, Program

-----------------------------------------------------------------------------
(* Phases and types.                                                       *)

LEMMA PhasesStep ==
  ASSUME WindowsInv, DeinitsFailed = FALSE, [Next]_vars
  PROVE  PhasesOrdered'
<1>1. /\ polling => phase = "loop"
      /\ phase = "loop" => mainRef
      /\ phase = "load" => ~mainRef /\ OpenWindows = {}
  BY DEF WindowsInv, PhasesOrdered
<1>2. ASSUME phase' = phase, polling' = polling, mainRef' = mainRef,
             phase # "load" \/ win' = win
      PROVE  PhasesOrdered'
  BY <1>1, <1>2 DEF PhasesOrdered, OpenWindows
<1>3. ASSUME NEW w \in Win,
             WinInit(w) \/ WinInitNotHeard(w) \/ WinInitNotShown(w) \/ WinDeinit(w)
      PROVE  PhasesOrdered'
  <2>1. phase' = phase /\ polling' = polling /\ mainRef' = mainRef
    BY <1>3 DEF WinInit, WinInitNotHeard, WinInitNotShown, WinDeinit, pollVars, mainVars
  <2>2. phase # "load"
    <3>1. CASE WinInit(w) \/ WinInitNotHeard(w) \/ WinInitNotShown(w)
      BY <3>1 DEF WinInit, WinInitNotHeard, WinInitNotShown, MayInit, ClientTurn
    <3>2. CASE WinDeinit(w)
      BY <3>2 DEF WinDeinit, MayDeinit, ClientTurn
    <3>3. QED
      BY <1>3, <3>1, <3>2
  <2>3. QED
    BY <1>2, <2>1, <2>2
<1>4. CASE Load
  BY <1>1, <1>4 DEF Load, PhasesOrdered
<1>5. CASE LoopEnds \/ Unload \/ Walk \/ Exit
  BY <1>1, <1>5 DEF LoopEnds, Unload, Walk, Exit, PhasesOrdered, pollVars
<1>6. CASE PollFires \/ PollReturns
  BY <1>1, <1>6 DEF PollFires, PollReturns, PhasesOrdered, mainVars
<1>7. CASE \/ Emission \/ HandleReturns \/ \E e \in WinId : PollEvent(e)
           \/ ClientIdle \/ PollCloses \/ Terminated \/ UNCHANGED vars
  <2>1. UNCHANGED <<phase, polling, mainRef, win>>
    BY <1>7 DEF Emission, Dispatch, Crash, EmitEnds, EventDone, HandleReturns, PollEvent,
                ClientIdle, PollCloses, Terminated, vars, windowVars, pollVars, mainVars
  <2>2. QED
    BY <1>2, <2>1
<1>8. QED
  BY <1>3, <1>4, <1>5, <1>6, <1>7 DEF Next, Client, Program

LEMMA TypeStep ==
  ASSUME WindowsInv, DeinitsFailed = FALSE, [Next]_vars
  PROVE  TypeOK'
<1>1. TypeOK /\ Sig!TypeOK'
  BY SignalStep DEF WindowsInv
<1>2. /\ win \in [Win -> {"none", "open", "failed"}]
      /\ id \in [Win -> WinId \cup {None}]
      /\ refcnt \in Nat
      /\ mainRef \in BOOLEAN
      /\ timer \in {"none", "started", "stopped", "closing", "orphan", "closed"}
      /\ polling \in BOOLEAN /\ event \in WinId \cup {None}
      /\ handling \in Win \cup {NULL} /\ due \in Win \cup {NULL} /\ strayed \in BOOLEAN
      /\ phase \in {"load", "loop", "unload", "drain", "exit"}
      /\ client \in {"active", "idle"}
  BY <1>1 DEF TypeOK
<1>3. ASSUME NEW w \in Win,
             WinInit(w) \/ WinInitNotHeard(w) \/ WinInitNotShown(w)
      PROVE  TypeOK'
  <2>1. /\ \E o \in {"open", "failed"} : win' = [win EXCEPT ![w] = o]
        /\ \E i \in WinId \cup {None} : id' = [id EXCEPT ![w] = i]
        /\ refcnt' \in {refcnt, refcnt + 1} /\ UNCHANGED <<pollVars, mainVars>>
    BY <1>3 DEF WinInit, WinInitNotHeard, WinInitNotShown, CountedOnce, NewIds
  <2>2. QED
    BY <1>1, <1>2, <2>1 DEF TypeOK, pollVars, mainVars, history
<1>4. ASSUME NEW w \in Win, WinDeinit(w)
      PROVE  TypeOK'
  <2>1. /\ MayDeinit(w) /\ win[w] = "open" /\ win' = [win EXCEPT ![w] = "none"]
        /\ id' = [id EXCEPT ![w] = None]
        /\ refcnt' = refcnt - 1 /\ timer' \in {"closing", timer}
        /\ strayed' = (strayed \/ (inside /\ id[w] # event))
        /\ UNCHANGED <<polling, event, handling, due, mainVars>>
    BY <1>4 DEF WinDeinit, MayDeinit, Unref
  <2>2. refcnt > 0
    BY <2>1, LeavingWindow
  <2>3. strayed' \in BOOLEAN
    BY <2>1
  <2>4. QED
    BY <1>1, <1>2, <2>1, <2>2, <2>3 DEF TypeOK, mainVars
<1>5. CASE Unload
  <2>1. /\ mainRef /\ mainRef' = FALSE
        /\ refcnt' = refcnt - 1 /\ timer' \in {"closing", timer}
        /\ UNCHANGED <<windowVars, polling, event, handling, history, phase, client>>
    BY <1>5 DEF Unload, Unref
  <2>2. refcnt > 0
    BY <2>1, Owners
  <2>3. refcnt' \in Nat
    BY <1>2, <2>1, <2>2
  <2>4. timer' \in {"none", "started", "stopped", "closing", "orphan", "closed"}
    BY <1>2, <2>1
  <2>5. QED
    BY <1>1, <1>2, <2>1, <2>3, <2>4 DEF TypeOK, windowVars, history
<1>6. ASSUME NEW e \in WinId, PollEvent(e)
      PROVE  TypeOK'
  <2>1. Meant(e) \in Win \cup {NULL}
    BY DEF Meant
  <2>2. QED
    BY <1>1, <1>2, <1>6, <2>1 DEF PollEvent, TypeOK, mainVars, windowVars
<1>7. CASE Emission \/ HandleReturns
  <2>1. /\ UNCHANGED <<windowVars, refcnt, timer, polling, mainRef, phase, client>>
        /\ event' \in {event, None} /\ strayed' \in {strayed, FALSE}
        /\ due' \in {due, NULL} /\ handling' \in {handling, NULL, Receiver}
    BY <1>7 DEF Emission, Dispatch, Crash, EmitEnds, EventDone, HandleReturns, pollVars,
                mainVars, history
  <2>2. handling' = Receiver => handling' \in Win \cup {NULL}
    <3>1. CASE Sig!Call
      <4>1. stack # <<>> /\ Sig!Top.pos <= Len(recvs[Sig!Top.sig])
        BY <3>1 DEF Sig!Call, Sig!EmitterAt
      <4>2. Sig!Top.pos \in 1 .. Len(recvs[Event])
        BY <4>1, FrameTyped, InvOfSignal
      <4>3. QED
        BY <4>2, InvOfSignal, ElementOfSeq DEF Receiver
    <3>2. CASE ~Sig!Call
      BY <1>2, <1>7, <3>2 DEF Emission, Dispatch, Crash, EmitEnds, EventDone,
                              HandleReturns, pollVars
    <3>3. QED
      BY <3>1, <3>2
  <2>3. strayed' \in BOOLEAN
    BY <1>2, <2>1
  <2>4. handling' \in Win \cup {NULL} /\ due' \in Win \cup {NULL}
    BY <1>2, <2>1, <2>2
  <2>5. QED
    BY <1>1, <1>2, <2>1, <2>3, <2>4 DEF TypeOK, windowVars
<1>8. CASE Load \/ LoopEnds \/ Walk \/ PollCloses \/ Exit
  <2>1. /\ timer' \in {timer, "started", "closing", "orphan", "closed"}
        /\ phase' \in {"loop", "unload", "drain", "exit", phase}
        /\ refcnt' \in {1, refcnt} /\ mainRef' \in {TRUE, mainRef}
        /\ UNCHANGED <<windowVars, polling, event, handling, history, client>>
    BY <1>8 DEF Load, PollNew, LoopEnds, Walk, PollCloses, Exit, pollVars, mainVars
  <2>2. /\ timer' \in {"none", "started", "stopped", "closing", "orphan", "closed"}
        /\ phase' \in {"load", "loop", "unload", "drain", "exit"}
    BY <1>2, <2>1
  <2>3. refcnt' \in Nat /\ mainRef' \in BOOLEAN
    <3>1. refcnt' = 1 \/ refcnt' = refcnt
      BY <2>1
    <3>2. mainRef' = TRUE \/ mainRef' = mainRef
      BY <2>1
    <3>3. refcnt' \in Nat
      BY <1>2, <3>1
    <3>4. mainRef' \in BOOLEAN
      BY <1>2, <3>2, Zenon
    <3>5. QED
      BY <3>3, <3>4
  <2>4. QED
    BY <1>1, <1>2, <2>1, <2>2, <2>3 DEF TypeOK, windowVars, history
<1>9. CASE ClientIdle \/ Terminated \/ PollFires \/ PollReturns \/ UNCHANGED vars
  BY <1>1, <1>2, <1>9 DEF ClientIdle, Terminated, PollFires, PollReturns, vars, TypeOK,
                          pollVars, mainVars, windowVars, history
<1>10. QED
  BY <1>3, <1>4, <1>5, <1>6, <1>7, <1>8, <1>9 DEF Next, Client, Program

-----------------------------------------------------------------------------
(* The emission and its event.                                             *)

LEMMA EmissionMoves ==
  ASSUME WindowsInv, stack # <<>>,
         NEW pc \in {"loop", "inside", "compact"},
         NEW pos \in Nat \ {0}, NEW kept \in Nat,
         Sig!MoveTo(pc, pos, kept)
  PROVE  /\ Len(stack') = 1 /\ stack' # <<>>
         /\ Sig!Top'.pc = pc /\ Sig!Top'.pos = pos /\ Sig!Top'.kept = kept
<1>1. S!MoveTo(pc, pos, kept)
  BY SameTop DEF Sig!MoveTo, S!MoveTo
<1>2. /\ stack' \in Seq(S!Frame)
      /\ Len(stack') = Len(stack)
      /\ S!Top' = [sig |-> S!Top.sig, pc |-> pc, pos |-> pos, kept |-> kept]
  BY <1>1, SignalAssumptions, InvOfSignal, S!TopMoves
<1>3. Len(stack) = 1
  BY OneFrame
<1>4. stack' # <<>>
  BY <1>2, <1>3, EmptySeq
<1>5. Sig!Top' = S!Top'
  BY DEF Sig!Top, S!Top
<1>6. QED
  BY <1>2, <1>3, <1>4, <1>5

LEMMA EventsStep ==
  ASSUME WindowsInv, [Next]_vars
  PROVE  EmissionsArePolls'
<1> USE DEF EmissionsArePolls, inside
<1>1. /\ stack # <<>> => Len(stack) = 1 /\ polling
      /\ stack # <<>> <=> event # None
      /\ inside => stack # <<>> /\ Sig!Top.pc = "inside" /\ due = NULL
  BY DEF WindowsInv
<1>2. polling => phase = "loop"
  BY DEF WindowsInv, PhasesOrdered
<1>3. ASSUME stack' = stack, UNCHANGED <<event, handling, due>>,
             polling' = polling \/ polling' \/ stack = <<>>
      PROVE  EmissionsArePolls'
  <2>1. Sig!Top' = Sig!Top
    BY <1>3 DEF Sig!Top
  <2>2. QED
    BY <1>1, <1>3, <2>1
<1>4. ASSUME NEW w \in Win,
             WinInit(w) \/ WinInitNotShown(w) \/ WinInitNotHeard(w) \/ WinDeinit(w)
      PROVE  EmissionsArePolls'
  <2>1. stack' = stack /\ UNCHANGED <<polling, event, handling, due>>
    BY <1>4 DEF WinInit, WinInitNotShown, WinInitNotHeard, WinDeinit, Unref, Unheard,
                Sig!Deinit, Sig!RecvUnset, Sig!RecvSet, Sig!RecvSetFails, pollVars, history
  <2>2. QED
    BY <1>3, <2>1
<1>5. ASSUME NEW e \in WinId, PollEvent(e)
      PROVE  EmissionsArePolls'
  <2>1. /\ stack = <<>> /\ polling /\ event' = e
        /\ UNCHANGED <<polling, handling>>
        /\ \E f \in [sig : {Event}, pc : {"loop"}, pos : {1}, kept : {0}] :
             stack' = Append(stack, f)
    BY <1>5 DEF PollEvent, Sig!Emit, Sig!FirstIndex
  <2>2. Len(stack') = 1 /\ stack' # <<>>
    BY <2>1
  <2>3. ~inside' /\ event' # None
    BY <1>1, <2>1, IdAssumption
  <2>4. QED
    BY <2>1, <2>2, <2>3
<1>6. CASE Dispatch
  <2>1. /\ Sig!Call /\ UNCHANGED <<polling, event>>
        /\ due' = NULL \/ (handling' = handling /\ due' = due)
    BY <1>6 DEF Dispatch
  <2>2. /\ stack # <<>> /\ Sig!Top.pc = "loop"
        /\ Sig!MoveTo("inside", Sig!Top.pos, Sig!Top.kept)
    BY <2>1 DEF Sig!Call, Sig!EmitterAt
  <2>3. Sig!Top.pos \in Nat \ {0} /\ Sig!Top.kept \in Nat
    BY <2>2, FrameTyped
  <2>4. Len(stack') = 1 /\ stack' # <<>> /\ Sig!Top'.pc = "inside"
    BY <2>2, <2>3, EmissionMoves
  <2>5. ~inside
    BY <1>1, <2>2
  <2>6. QED
    BY <1>1, <2>1, <2>2, <2>4, <2>5
<1>7. CASE HandleReturns \/ EmitEnds
  <2>1. /\ \/ handling' = NULL
           \/ handling' = handling /\ (Sig!EmitterAt("loop") \/ Sig!EmitterAt("compact"))
        /\ UNCHANGED <<polling, event>>
        /\ stack # <<>>
    BY <1>7 DEF HandleReturns, EmitEnds, Sig!Return, Sig!EndLoop, Sig!CompactSlot, pollVars,
                Sig!EmitterAt
  <2>2. ~inside'
    BY <1>1, <2>1 DEF Sig!EmitterAt
  <2>3. /\ Sig!Top.pos \in Nat \ {0} /\ Sig!Top.kept \in Nat
        /\ Sig!Top.pos + 1 \in Nat \ {0} /\ Sig!Top.kept + 1 \in Nat
        /\ 1 \in Nat \ {0} /\ 0 \in Nat
    BY <2>1, FrameTyped
  <2>4. \E pc \in {"loop", "compact"}, pos \in Nat \ {0}, kept \in Nat :
          Sig!MoveTo(pc, pos, kept)
    BY <1>7, <2>3 DEF HandleReturns, EmitEnds, Sig!Return, Sig!EndLoop, Sig!CompactSlot,
                      Sig!NextIndex
  <2>5. Len(stack') = 1 /\ stack' # <<>>
    BY <2>1, <2>4, EmissionMoves
  <2>6. QED
    BY <1>1, <2>1, <2>2, <2>5
<1>8. CASE EventDone
  <2>1. /\ event' = None /\ stack # <<>> /\ stack' = Sig!Front(stack) /\ Sig!Top.pc = "compact"
        /\ UNCHANGED <<polling, handling>>
    BY <1>8 DEF EventDone, Sig!Shrink, Sig!EmitterAt
  <2>2. stack' = <<>>
    <3>1. Len(stack) = 1
      BY <2>1, OneFrame
    <3>2. QED
      BY <2>1, <3>1 DEF Sig!Front
  <2>3. ~inside'
    BY <1>1, <2>1
  <2>4. QED
    BY <2>1, <2>2, <2>3
<1>9. CASE Load \/ LoopEnds \/ Unload \/ Walk \/ PollCloses \/ Exit \/ PollReturns
  <2>1. stack = <<>>
    BY <1>1, <1>2, <1>9 DEF Load, LoopEnds, Unload, Walk, PollCloses, Exit, PollReturns
  <2>2. stack' = stack /\ UNCHANGED <<event, handling, due>>
    BY <1>9 DEF Load, LoopEnds, Unload, Unref, Walk, PollCloses, Exit, PollReturns,
                pollVars, history, signalVars, Sig!SignalInit, Sig!Deinit
  <2>3. QED
    BY <1>3, <2>1, <2>2
<1>10. CASE ClientIdle \/ Terminated \/ PollFires \/ Crash \/ UNCHANGED vars
  <2>1. /\ UNCHANGED <<stack, event, handling, due>>
        /\ polling' = polling \/ polling'
    BY <1>10 DEF ClientIdle, Terminated, PollFires, Crash, vars, signalVars, pollVars,
                 history, Sig!CallHole
  <2>2. QED
    BY <1>3, <2>1
<1>11. QED
  BY <1>4, <1>5, <1>6, <1>7, <1>8, <1>9, <1>10
     DEF Next, Client, Emission, Program

-----------------------------------------------------------------------------
(* Ids.                                                                    *)

LEMMA IdsStep ==
  ASSUME WindowsInv, DeinitsFailed = FALSE, [Next]_vars
  PROVE  IdsDistinct'
<1>1. /\ \A v, w \in Win : id[v] = id[w] /\ id[v] # None => v = w
      /\ \A w \in Win : win[w] = "none" => id[w] = None
      /\ win \in [Win -> {"none", "open", "failed"}] /\ id \in [Win -> WinId \cup {None}]
  BY DEF WindowsInv, IdsDistinct, TypeOK
<1>2. ASSUME NEW w \in Win, NEW o \in {"open", "failed"}, NEW i \in NewIds \cup {None},
             win' = [win EXCEPT ![w] = o], id' = [id EXCEPT ![w] = i]
      PROVE  IdsDistinct'
  <2>1. i # None => \A v \in Win : id[v] # i
    BY <1>2 DEF NewIds
  <2>2. \A v \in Win : v # w => id'[v] = id[v] /\ win'[v] = win[v]
    BY <1>1, <1>2
  <2>3. id'[w] = i /\ win'[w] # "none"
    BY <1>1, <1>2
  <2>4. QED
    BY <1>1, <2>1, <2>2, <2>3 DEF IdsDistinct
<1>3. ASSUME NEW w \in Win, WinInit(w) \/ WinInitNotHeard(w) \/ WinInitNotShown(w)
      PROVE  IdsDistinct'
  <2>1. \E o \in {"open", "failed"} : \E i \in NewIds \cup {None} :
           win' = [win EXCEPT ![w] = o] /\ id' = [id EXCEPT ![w] = i]
    BY <1>3 DEF WinInit, WinInitNotHeard, WinInitNotShown
  <2>2. QED
    BY <1>2, <2>1
<1>4. ASSUME NEW w \in Win, WinDeinit(w)
      PROVE  IdsDistinct'
  <2>1. win' = [win EXCEPT ![w] = "none"] /\ id' = [id EXCEPT ![w] = None]
    BY <1>4 DEF WinDeinit
  <2>2. QED
    BY <1>1, <2>1 DEF IdsDistinct
<1>5. CASE UNCHANGED windowVars
  BY <1>1, <1>5 DEF IdsDistinct, windowVars
<1>6. QED
  BY <1>3, <1>4, <1>5
     DEF Next, Client, Program, Emission, Load, ClientIdle, PollFires, PollEvent, Dispatch,
         Crash, EmitEnds, EventDone, HandleReturns, PollReturns, PollCloses, LoopEnds,
         Unload, Walk, Exit, Terminated, vars

-----------------------------------------------------------------------------
(* Holes, and the slots that an emission has still to call.                *)

(* Where a window's receiver goes the slot becomes a hole, or those after  *)
(* it move down by one.                                                    *)
LEMMA UnsetShifts ==
  ASSUME WindowsInv, NEW w \in Win, attached[w] = Event, stack = <<>> \/ inside
  PROVE  LET q == Sig!Unset(w)[Event]
         IN  /\ DOMAIN q = 1 .. Len(q)
             /\ \A i \in DOMAIN q :
                  \/ i \in DOMAIN recvs[Event] /\ q[i] = recvs[Event][i]
                  \/ ~emitting[Event] /\ i + 1 \in DOMAIN recvs[Event]
                     /\ q[i] = recvs[Event][i + 1]
                  \/ emitting[Event] /\ i \in DOMAIN recvs[Event] /\ recvs[Event][i] = w
                     /\ q[i] = NULL
<1> DEFINE r == recvs[Event]
           k == S!FirstSlot(r, w)
           q == S!Unset(w)[Event]
<1>1. S!Agreed /\ r \in Seq(Win \cup {NULL}) /\ recvs \in [{Event} -> Seq(Win \cup {NULL})]
  BY ClientsSeeAllSlots, InvOfSignal
<1>2. S!Contains(r, w) /\ Event # NULL /\ w # NULL
  BY <1>1, NullAssumption DEF S!Agreed
<1>3. k \in 1 .. Len(r) /\ r[k] = w
  BY <1>1, <1>2, SignalAssumptions, S!FirstSlotFound
<1>4. q = IF emitting[Event] THEN [r EXCEPT ![k] = NULL] ELSE S!RemoveAt(r, k)
  BY <1>1, <1>2 DEF S!Unset
<1> HIDE DEF r, k, q
<1>5. CASE emitting[Event]
  <2>1. q = [r EXCEPT ![k] = NULL]
    BY <1>4, <1>5
  <2>2. /\ DOMAIN q = 1 .. Len(r) /\ Len(q) = Len(r) /\ DOMAIN r = 1 .. Len(r)
        /\ \A i \in 1 .. Len(r) : q[i] = IF i = k THEN NULL ELSE r[i]
    BY <1>1, <1>3, <2>1
  <2>3. QED
    BY <1>3, <1>5, <2>2, SameUnset DEF r, q
<1>6. CASE ~emitting[Event]
  <2>1. /\ q \in Seq(Win \cup {NULL}) /\ Len(q) = Len(r) - 1
        /\ \A j \in 1 .. (Len(r) - 1) : q[j] = IF j < k THEN r[j] ELSE r[j + 1]
    BY <1>1, <1>3, <1>4, <1>6, SignalAssumptions, S!RemoveAtSlots
  <2>2. DOMAIN q = 1 .. (Len(r) - 1) /\ DOMAIN r = 1 .. Len(r) /\ Len(r) \in Nat
    BY <1>1, <2>1
  <2>3. \A i \in DOMAIN q : \/ i \in DOMAIN r /\ q[i] = r[i]
                            \/ i + 1 \in DOMAIN r /\ q[i] = r[i + 1]
    BY <2>1, <2>2
  <2>4. DOMAIN q = 1 .. Len(q)
    BY <2>1, <2>2
  <2>5. QED
    BY <1>6, <2>3, <2>4, SameUnset DEF r, q
<1>7. QED
  BY <1>5, <1>6

(* What there is to call, by where the emission is.                        *)
LEMMA SlotsToCall ==
  ASSUME stack # <<>> => DOMAIN stack = {1} /\ stack[1] = Sig!Top /\ Sig!Top.sig = Event
  PROVE  /\ stack = <<>> => ToCall = {}
         /\ stack # <<>> =>
              ToCall = {i \in DOMAIN recvs[Event] :
                          \/ Sig!Top.pc = "loop" /\ i >= Sig!Top.pos
                          \/ Sig!Top.pc = "inside" /\ i > Sig!Top.pos}
<1>1. CASE stack = <<>>
  BY <1>1, EmptySeq DEF ToCall
<1>2. CASE stack # <<>>
  BY <1>2 DEF ToCall, Sig!Ahead
<1>3. QED
  BY <1>1, <1>2

LEMMA SlotsToCallNow ==
  ASSUME WindowsInv
  PROVE  /\ stack = <<>> => ToCall = {}
         /\ stack # <<>> =>
              ToCall = {i \in DOMAIN recvs[Event] :
                          \/ Sig!Top.pc = "loop" /\ i >= Sig!Top.pos
                          \/ Sig!Top.pc = "inside" /\ i > Sig!Top.pos}
BY SlotsToCall, OneFrame

(* The same after a step; the frame is all that is asked of it.            *)
LEMMA SlotsToCallNext ==
  ASSUME WindowsInv, DeinitsFailed = FALSE, [Next]_vars
  PROVE  /\ stack' = <<>> => ToCall' = {}
         /\ stack' # <<>> =>
              ToCall' = {i \in DOMAIN recvs'[Event] :
                           \/ Sig!Top'.pc = "loop" /\ i >= Sig!Top'.pos
                           \/ Sig!Top'.pc = "inside" /\ i > Sig!Top'.pos}
<1>1. S!SubscriptionInv'
  BY StepIsSignals, SignalAssumptions, InvOfSignal, S!SubscriptionStep
<1>2. stack' \in Seq(S!Frame)
  BY <1>1 DEF S!SubscriptionInv, S!TypeInv, S!TypeOK
<1>3. stack' # <<>> => Len(stack') = 1
  BY EventsStep DEF EmissionsArePolls
<1>4. stack' # <<>> => DOMAIN stack' = {1} /\ stack'[1] = Sig!Top' /\ Sig!Top'.sig = Event
  <2> SUFFICES ASSUME stack' # <<>>
               PROVE  DOMAIN stack' = {1} /\ stack'[1] = Sig!Top' /\ Sig!Top'.sig = Event
    OBVIOUS
  <2>1. Len(stack') = 1 /\ DOMAIN stack' = {1}
    BY <1>2, <1>3
  <2>2. Sig!Top' = stack'[1]
    BY <2>1 DEF Sig!Top
  <2>3. stack'[1] \in S!Frame
    BY <1>2, <2>1
  <2>4. QED
    BY <2>1, <2>2, <2>3 DEF S!Frame
<1>5. CASE stack' = <<>>
  BY <1>5, EmptySeq DEF ToCall
<1>6. CASE stack' # <<>>
  BY <1>4, <1>6 DEF ToCall, Sig!Ahead
<1>7. QED
  BY <1>5, <1>6

(* Steps that move the innermost emission, and how far.                    *)
LEMMA EmissionGoesOn ==
  ASSUME WindowsInv, Dispatch \/ HandleReturns \/ (Sig!EndLoop /\ EmitEnds)
  PROVE  /\ stack # <<>> /\ stack' # <<>> /\ recvs' = recvs
         /\ Sig!Top'.pc \in {"loop", "inside", "compact"}
         /\ Dispatch => /\ Sig!Top.pc = "loop" /\ Sig!Top.pos \in DOMAIN recvs[Event]
                        /\ Receiver \in Win
                        /\ Sig!Top'.pc = "inside" /\ Sig!Top'.pos = Sig!Top.pos
                        /\ emitting' = emitting
         /\ HandleReturns => /\ Sig!Top.pc = "inside"
                             /\ Sig!Top'.pc = "loop" /\ Sig!Top'.pos = Sig!Top.pos + 1
                             /\ emitting' = emitting
         /\ Sig!EndLoop => /\ Sig!Top'.pc = "compact" /\ Sig!Top'.kept = 0
                           /\ emitting' = [emitting EXCEPT ![Event] = FALSE]
<1>1. stack # <<>>
  BY DEF Dispatch, HandleReturns, Sig!Call, Sig!Return, Sig!EndLoop, Sig!EmitterAt
<1>2. /\ Sig!Top.sig = Event /\ Sig!Top.pos \in Nat \ {0} /\ Sig!Top.kept \in Nat
      /\ Sig!Top.pos + 1 \in Nat \ {0} /\ 1 \in Nat \ {0} /\ 0 \in Nat
  BY <1>1, FrameTyped
<1>3. ASSUME Dispatch
      PROVE  /\ stack' # <<>> /\ recvs' = recvs /\ emitting' = emitting
             /\ Sig!Top.pc = "loop" /\ Sig!Top.pos \in DOMAIN recvs[Event]
             /\ Receiver \in Win
             /\ Sig!Top'.pc = "inside" /\ Sig!Top'.pos = Sig!Top.pos
  <2>1. /\ Sig!MoveTo("inside", Sig!Top.pos, Sig!Top.kept)
        /\ Sig!Top.pc = "loop" /\ Sig!Top.pos <= Len(recvs[Event])
        /\ recvs[Event][Sig!Top.pos] # NULL
        /\ recvs' = recvs /\ emitting' = emitting
    BY <1>2, <1>3 DEF Dispatch, Sig!Call, Sig!EmitterAt
  <2>2. /\ stack' # <<>> /\ Sig!Top'.pc = "inside" /\ Sig!Top'.pos = Sig!Top.pos
    BY <1>1, <1>2, <2>1, EmissionMoves
  <2>3. Sig!Top.pos \in 1 .. Len(recvs[Event])
    BY <1>2, <2>1, InvOfSignal
  <2>4. Receiver \in Win
    BY <2>1, <2>3, InvOfSignal, ElementOfSeq DEF Receiver
  <2>5. QED
    BY <2>1, <2>2, <2>3, <2>4, InvOfSignal
<1>4. ASSUME HandleReturns
      PROVE  /\ stack' # <<>> /\ recvs' = recvs /\ emitting' = emitting
             /\ Sig!Top.pc = "inside"
             /\ Sig!Top'.pc = "loop" /\ Sig!Top'.pos = Sig!Top.pos + 1
  <2>1. /\ Sig!MoveTo("loop", Sig!Top.pos + 1, Sig!Top.kept) /\ Sig!Top.pc = "inside"
        /\ recvs' = recvs /\ emitting' = emitting
    BY <1>4 DEF HandleReturns, Sig!Return, Sig!NextIndex, Sig!EmitterAt
  <2>2. QED
    BY <1>1, <1>2, <2>1, EmissionMoves
<1>5. ASSUME Sig!EndLoop
      PROVE  /\ stack' # <<>> /\ recvs' = recvs
             /\ emitting' = [emitting EXCEPT ![Event] = FALSE]
             /\ Sig!Top'.pc = "compact" /\ Sig!Top'.kept = 0
  <2>1. /\ Sig!MoveTo("compact", 1, 0)
        /\ recvs' = recvs /\ emitting' = [emitting EXCEPT ![Event] = FALSE]
    BY <1>2, <1>5 DEF Sig!EndLoop, Sig!FlagCleared
  <2>2. QED
    BY <1>1, <1>2, <2>1, EmissionMoves
<1>6. QED
  BY <1>1, <1>3, <1>4, <1>5

(* The compaction copies no hole down.                                     *)
LEMMA CompactionStep ==
  ASSUME WindowsInv, Sig!CompactSlot
  PROVE  /\ stack # <<>> /\ stack' # <<>> /\ Sig!Top.pc = "compact" /\ Sig!Top'.pc = "compact"
         /\ emitting' = emitting
         /\ \A i \in 1 .. Sig!Top'.kept : recvs'[Event][i] # NULL
<1>1. /\ stack # <<>> /\ Sig!Top.pc = "compact" /\ emitting' = emitting
      /\ S!CompactSlot /\ S!TypeInv
  BY SameEmission, InvOfSignal DEF Sig!CompactSlot, Sig!EmitterAt
<1>2. /\ Sig!Top.sig = Event /\ Sig!Top.pos \in Nat \ {0} /\ Sig!Top.kept \in Nat
      /\ Sig!Top.pos + 1 \in Nat \ {0} /\ Sig!Top.kept + 1 \in Nat
  BY <1>1, FrameTyped
<1>3. \A i \in 1 .. Sig!Top.kept : recvs[Event][i] # NULL
  BY <1>1 DEF WindowsInv, HolesAreDropped
<1>4. /\ Sig!Top.pos \in 1 .. Len(recvs[Event]) /\ Sig!Top.kept \in 0 .. (Sig!Top.pos - 1)
      /\ \/ /\ recvs[Event][Sig!Top.pos] # NULL
            /\ S!MoveTo("compact", Sig!Top.pos + 1, Sig!Top.kept + 1)
            /\ \A i \in 1 .. Len(recvs[Event]) :
                 recvs'[Event][i] = IF i = Sig!Top.kept + 1 THEN recvs[Event][Sig!Top.pos]
                                                            ELSE recvs[Event][i]
         \/ /\ S!MoveTo("compact", Sig!Top.pos + 1, Sig!Top.kept)
            /\ recvs' = recvs
  BY <1>1, <1>2, SameTop, SignalAssumptions, S!CompactSlotCopies
<1>5. Len(recvs[Event]) \in Nat
  BY InvOfSignal
<1>6. CASE /\ recvs[Event][Sig!Top.pos] # NULL
           /\ S!MoveTo("compact", Sig!Top.pos + 1, Sig!Top.kept + 1)
           /\ \A i \in 1 .. Len(recvs[Event]) :
                recvs'[Event][i] = IF i = Sig!Top.kept + 1 THEN recvs[Event][Sig!Top.pos]
                                                           ELSE recvs[Event][i]
  <2>1. Sig!MoveTo("compact", Sig!Top.pos + 1, Sig!Top.kept + 1)
    BY <1>6, SameTop DEF Sig!MoveTo, S!MoveTo
  <2>2. stack' # <<>> /\ Sig!Top'.pc = "compact" /\ Sig!Top'.kept = Sig!Top.kept + 1
    BY <1>1, <1>2, <2>1, EmissionMoves
  <2>3. \A i \in 1 .. (Sig!Top.kept + 1) :
          /\ i \in 1 .. Len(recvs[Event])
          /\ i = Sig!Top.kept + 1 \/ i \in 1 .. Sig!Top.kept
    BY <1>2, <1>4, <1>5
  <2>4. \A i \in 1 .. (Sig!Top.kept + 1) : recvs'[Event][i] # NULL
    BY <1>3, <1>6, <2>3
  <2>5. QED
    BY <1>1, <2>2, <2>4
<1>7. CASE S!MoveTo("compact", Sig!Top.pos + 1, Sig!Top.kept) /\ recvs' = recvs
  <2>1. Sig!MoveTo("compact", Sig!Top.pos + 1, Sig!Top.kept)
    BY <1>7, SameTop DEF Sig!MoveTo, S!MoveTo
  <2>2. stack' # <<>> /\ Sig!Top'.pc = "compact" /\ Sig!Top'.kept = Sig!Top.kept
    BY <1>1, <1>2, <2>1, EmissionMoves
  <2>3. QED
    BY <1>1, <1>3, <1>7, <2>2
<1>8. QED
  BY <1>4, <1>6, <1>7

(* The end of an emission leaves what was kept.                            *)
LEMMA EmissionIsOver ==
  ASSUME WindowsInv, Sig!Shrink
  PROVE  /\ stack # <<>> /\ stack' = <<>> /\ Sig!Top.pc = "compact" /\ emitting' = emitting
         /\ \A i \in DOMAIN recvs'[Event] : recvs'[Event][i] # NULL
<1>1. /\ stack # <<>> /\ Sig!Top.pc = "compact" /\ emitting' = emitting
      /\ stack' = Sig!Front(stack) /\ S!Shrink /\ S!TypeInv
  BY SameEmission, InvOfSignal DEF Sig!Shrink, Sig!EmitterAt
<1>2. Sig!Top.sig = Event /\ Len(stack) = 1
  BY <1>1, OneFrame
<1>3. stack' = <<>>
  BY <1>1, <1>2 DEF Sig!Front
<1>4. /\ recvs' \in [{Event} -> Seq(S!Slot)]
      /\ Len(recvs'[Event]) = Sig!Top.kept
      /\ \A i \in 1 .. Sig!Top.kept : recvs'[Event][i] = recvs[Event][i]
  BY <1>1, <1>2, SameTop, SignalAssumptions, S!ShrinkCuts
<1>5. DOMAIN recvs'[Event] = 1 .. Sig!Top.kept
  BY <1>4
<1>6. QED
  BY <1>1, <1>3, <1>4, <1>5 DEF WindowsInv, HolesAreDropped

(* What a window that goes does to the slots.                              *)
LEMMA DeinitStep ==
  ASSUME WindowsInv, DeinitsFailed = FALSE, NEW w \in Win, WinDeinit(w)
  PROVE  /\ win[w] = "open" /\ attached[w] = Event /\ (stack = <<>> \/ inside)
         /\ UNCHANGED <<stack, emitting, event, handling, due>>
         /\ win' = [win EXCEPT ![w] = "none"] /\ id' = [id EXCEPT ![w] = None]
         /\ strayed' = (strayed \/ (inside /\ id[w] # event))
         /\ \/ DOMAIN recvs'[Event] = {}
            \/ recvs' = Sig!Unset(w)
<1>1. /\ MayDeinit(w) /\ win[w] = "open"
      /\ refcnt = 1 => Sig!Deinit(Event)
      /\ refcnt # 1 => Sig!RecvUnset(w)
      /\ win' = [win EXCEPT ![w] = "none"] /\ id' = [id EXCEPT ![w] = None]
      /\ strayed' = (strayed \/ (inside /\ id[w] # event))
      /\ UNCHANGED <<event, handling, due>>
  BY DEF WinDeinit, MayDeinit, Unheard, Unref, IsLast
<1>2. attached[w] = Event /\ (stack = <<>> \/ inside)
  BY <1>1, LeavingWindow
<1>3. CASE refcnt = 1
  BY <1>1, <1>2, <1>3, DeinitEmpties DEF Sig!Deinit
<1>4. CASE refcnt # 1
  BY <1>1, <1>2, <1>4 DEF Sig!RecvUnset
<1>5. QED
  BY <1>3, <1>4

LEMMA HolesStep ==
  ASSUME WindowsInv, DeinitsFailed = FALSE, [Next]_vars
  PROVE  HolesAreDropped'
<1> USE DEF HolesAreDropped
<1>1. /\ emitting[Event] => stack # <<>> /\ Sig!Top.pc # "compact"
      /\ stack # <<>> /\ Sig!Top.pc = "compact" =>
           \A i \in 1 .. Sig!Top.kept : recvs[Event][i] # NULL
      /\ stack = <<>> => \A i \in DOMAIN recvs[Event] : recvs[Event][i] # NULL
      /\ inside => stack # <<>> /\ Sig!Top.pc = "inside"
  BY DEF WindowsInv, EmissionsArePolls
<1>2. emitting \in [{Event} -> BOOLEAN]
  BY InvOfSignal DEF S!TypeOK
<1>3. ASSUME stack' = stack, emitting' = emitting, stack = <<>> \/ inside,
             stack = <<>> => \A i \in DOMAIN recvs'[Event] : recvs'[Event][i] # NULL
      PROVE  HolesAreDropped'
  <2>1. Sig!Top' = Sig!Top
    BY <1>3 DEF Sig!Top
  <2>2. QED
    BY <1>1, <1>3, <2>1
<1>4. ASSUME UNCHANGED <<stack, emitting, recvs>>
      PROVE  HolesAreDropped'
  <2>1. Sig!Top' = Sig!Top
    BY <1>4 DEF Sig!Top
  <2>2. QED
    BY <1>1, <1>4, <2>1
<1>5. ASSUME NEW w \in Win, WinInit(w) \/ WinInitNotShown(w)
      PROVE  HolesAreDropped'
  <2>1. MayInit(w) /\ Sig!RecvSet(w, Event)
    BY <1>5 DEF WinInit, WinInitNotShown
  <2>2. /\ stack' = stack /\ emitting' = emitting /\ (stack = <<>> \/ inside)
        /\ w # NULL
    BY <2>1, FreshWindow, NullAssumption DEF Sig!RecvSet
  <2>3. /\ DOMAIN recvs'[Event] = 1 .. (Len(recvs[Event]) + 1)
        /\ DOMAIN recvs[Event] = 1 .. Len(recvs[Event]) /\ Len(recvs[Event]) \in Nat
        /\ \A i \in DOMAIN recvs[Event] : recvs'[Event][i] = recvs[Event][i]
        /\ recvs'[Event][Len(recvs[Event]) + 1] = w
    BY <2>1, InitAppends, InvOfSignal
  <2>4. \A i \in DOMAIN recvs'[Event] : i = Len(recvs[Event]) + 1 \/ i \in DOMAIN recvs[Event]
    BY <2>3
  <2>5. stack = <<>> => \A i \in DOMAIN recvs'[Event] : recvs'[Event][i] # NULL
    BY <1>1, <2>2, <2>3, <2>4
  <2>6. QED
    BY <1>3, <2>2, <2>5
<1>6. ASSUME NEW w \in Win, WinInitNotHeard(w)
      PROVE  HolesAreDropped'
  <2>1. MayInit(w) /\ Sig!RecvSetFails(w, Event)
    BY <1>6 DEF WinInitNotHeard
  <2>2. UNCHANGED <<stack, emitting, recvs>>
    BY <2>1, FreshWindow DEF Sig!RecvSetFails
  <2>3. QED
    BY <1>4, <2>2
<1>7. ASSUME NEW w \in Win, WinDeinit(w)
      PROVE  HolesAreDropped'
  <2>1. /\ stack' = stack /\ emitting' = emitting /\ (stack = <<>> \/ inside)
        /\ attached[w] = Event
        /\ DOMAIN recvs'[Event] = {} \/ recvs' = Sig!Unset(w)
    BY <1>7, DeinitStep
  <2>2. ASSUME stack = <<>>, recvs' = Sig!Unset(w), NEW i \in DOMAIN recvs'[Event]
        PROVE  recvs'[Event][i] # NULL
    <3>1. ~emitting[Event]
      BY <1>1, <2>2
    <3>2. \/ i \in DOMAIN recvs[Event] /\ recvs'[Event][i] = recvs[Event][i]
          \/ i + 1 \in DOMAIN recvs[Event] /\ recvs'[Event][i] = recvs[Event][i + 1]
      BY <2>1, <2>2, <3>1, UnsetShifts
    <3>3. QED
      BY <1>1, <2>2, <3>2
  <2>3. stack = <<>> => \A i \in DOMAIN recvs'[Event] : recvs'[Event][i] # NULL
    BY <2>1, <2>2
  <2>4. QED
    BY <1>3, <2>1, <2>3
<1>8. ASSUME NEW e \in WinId, PollEvent(e)
      PROVE  HolesAreDropped'
  <2>1. \E f \in [sig : {Event}, pc : {"loop"}, pos : {1}, kept : {0}] :
          stack = <<>> /\ stack' = Append(stack, f)
    BY <1>8 DEF PollEvent, Sig!Emit, Sig!FirstIndex
  <2>2. stack' # <<>> /\ Sig!Top'.pc = "loop"
    BY <2>1 DEF Sig!Top
  <2>3. QED
    BY <2>2
<1>9. CASE Dispatch \/ HandleReturns \/ (Sig!EndLoop /\ EmitEnds)
  <2>1. /\ stack # <<>> /\ stack' # <<>>
        /\ \/ emitting' = emitting /\ Sig!Top'.pc \in {"loop", "inside"}
           \/ emitting' = [emitting EXCEPT ![Event] = FALSE] /\ Sig!Top'.kept = 0
    BY <1>9, EmissionGoesOn
  <2>2. CASE emitting' = emitting /\ Sig!Top'.pc \in {"loop", "inside"}
    BY <2>1, <2>2
  <2>3. CASE emitting' = [emitting EXCEPT ![Event] = FALSE] /\ Sig!Top'.kept = 0
    <3>1. ~emitting'[Event] /\ 1 .. 0 = {}
      BY <1>2, <2>3
    <3>2. QED
      BY <2>1, <2>3, <3>1
  <2>4. QED
    BY <2>1, <2>2, <2>3
<1>10. CASE Sig!CompactSlot
  BY <1>1, <1>10, CompactionStep
<1>11. CASE EventDone
  <2>1. Sig!Shrink
    BY <1>11 DEF EventDone
  <2>2. QED
    BY <1>1, <2>1, EmissionIsOver
<1>12. CASE Load \/ Unload
  <2>1. /\ stack = <<>>
        /\ \/ Sig!SignalInit(Event) \/ Sig!Deinit(Event)
           \/ UNCHANGED signalVars
    BY <1>12 DEF Load, Unload, Unref, WindowsInv, EmissionsArePolls, PhasesOrdered
  <2>2. CASE Sig!SignalInit(Event) \/ Sig!Deinit(Event)
    <3>1. UNCHANGED <<stack, emitting>> /\ recvs' = [recvs EXCEPT ![Event] = <<>>]
      BY <2>2 DEF Sig!SignalInit, Sig!Deinit
    <3>2. DOMAIN recvs'[Event] = {}
      BY <3>1, InvOfSignal, EmptySeq
    <3>3. QED
      BY <1>3, <2>1, <3>1, <3>2
  <2>3. CASE UNCHANGED signalVars
    BY <1>4, <2>3 DEF signalVars
  <2>4. QED
    BY <2>1, <2>2, <2>3
<1>13. CASE \/ ClientIdle \/ LoopEnds \/ Walk \/ PollCloses \/ Exit \/ Terminated
            \/ PollFires \/ PollReturns \/ Crash \/ UNCHANGED vars
  <2>1. UNCHANGED <<stack, emitting, recvs>>
    BY <1>13 DEF ClientIdle, LoopEnds, Walk, PollCloses, Exit, Terminated, PollFires,
                 PollReturns, Crash, Sig!CallHole, vars, signalVars
  <2>2. QED
    BY <1>4, <2>1
<1>14. QED
  BY <1>5, <1>6, <1>7, <1>8, <1>9, <1>10, <1>11, <1>12, <1>13
     DEF Next, Client, Emission, Program, EmitEnds

(* A slot to call after a step is one that the frame is not yet past.      *)
LEMMA MemberNext ==
  ASSUME WindowsInv, DeinitsFailed = FALSE, [Next]_vars, NEW i \in ToCall'
  PROVE  /\ stack' # <<>> /\ i \in DOMAIN recvs'[Event]
         /\ \/ Sig!Top'.pc = "loop" /\ i >= Sig!Top'.pos
            \/ Sig!Top'.pc = "inside" /\ i > Sig!Top'.pos
BY SlotsToCallNext

LEMMA MemberNow ==
  ASSUME WindowsInv, stack # <<>>, NEW i \in DOMAIN recvs[Event],
         \/ Sig!Top.pc = "loop" /\ i >= Sig!Top.pos
         \/ Sig!Top.pc = "inside" /\ i > Sig!Top.pos
  PROVE  i \in ToCall
BY SlotsToCallNow

(* No slot comes to be called that is a hole, or that answers in place of  *)
(* the window that is due.                                                 *)
LEMMA CallsStep ==
  ASSUME WindowsInv, DeinitsFailed = FALSE, [Next]_vars
  PROVE  OwnWindowMayGo' /\ OnlyDueAnswers'
<1>1. /\ \A i \in ToCall : recvs[Event][i] = NULL => strayed
      /\ \A i \in ToCall : \A w \in Win : recvs[Event][i] = w /\ Addressed(w) => w = due
      /\ ToCall \in SUBSET DOMAIN recvs[Event]
  BY SlotsToCallNow DEF WindowsInv, OwnWindowMayGo, OnlyDueAnswers
<1>2. /\ win \in [Win -> {"none", "open", "failed"}] /\ id \in [Win -> WinId \cup {None}]
      /\ strayed \in BOOLEAN /\ due \in Win \cup {NULL} /\ NULL \notin Win
      /\ DOMAIN recvs[Event] = 1 .. Len(recvs[Event]) /\ Len(recvs[Event]) \in Nat
  BY InvOfSignal, NullAssumption DEF WindowsInv, TypeOK
<1>3. ASSUME ToCall' = {}
      PROVE  OwnWindowMayGo' /\ OnlyDueAnswers'
  BY <1>3 DEF OwnWindowMayGo, OnlyDueAnswers
<1>4. ASSUME \A i \in ToCall' : recvs'[Event][i] = NULL => strayed',
             \A i \in ToCall' : \A w \in Win :
               recvs'[Event][i] = w /\ win'[w] = "open" /\ id'[w] = event' => w = due'
      PROVE  OwnWindowMayGo' /\ OnlyDueAnswers'
  BY <1>4 DEF OwnWindowMayGo, OnlyDueAnswers, Addressed
<1>5. ASSUME ToCall' \in SUBSET ToCall, recvs' = recvs, UNCHANGED <<windowVars, event, history>>
      PROVE  OwnWindowMayGo' /\ OnlyDueAnswers'
  BY <1>1, <1>4, <1>5 DEF windowVars, history, Addressed
<1>6. ASSUME stack' = stack, recvs' = recvs
      PROVE  ToCall' = ToCall
  BY <1>6, SlotsToCallNow, SlotsToCallNext DEF Sig!Top
<1>7. ASSUME NEW w \in Win, WinInit(w) \/ WinInitNotShown(w)
      PROVE  OwnWindowMayGo' /\ OnlyDueAnswers'
  <2>1. /\ MayInit(w) /\ Sig!RecvSet(w, Event) /\ stack' = stack
        /\ UNCHANGED <<event, history>>
        /\ \/ win' = [win EXCEPT ![w] = "open"] /\ \E i \in NewIds : id' = [id EXCEPT ![w] = i]
           \/ /\ win' = [win EXCEPT ![w] = "failed"]
              /\ \E i \in NewIds \cup {None} : id' = [id EXCEPT ![w] = i]
    BY <1>7 DEF WinInit, WinInitNotShown, Sig!RecvSet, pollVars
  <2>2. /\ ~(win'[w] = "open" /\ id'[w] = event)
        /\ \A x \in Win : x # w => win'[x] = win[x] /\ id'[x] = id[x]
    BY <1>2, <2>1 DEF NewIds
  <2>3. /\ DOMAIN recvs'[Event] = 1 .. (Len(recvs[Event]) + 1)
        /\ \A i \in DOMAIN recvs[Event] : recvs'[Event][i] = recvs[Event][i]
        /\ recvs'[Event][Len(recvs[Event]) + 1] = w
    BY <2>1, InitAppends
  <2>4. Sig!Top' = Sig!Top
    BY <2>1 DEF Sig!Top
  <2>5. \A i \in ToCall' : i \in ToCall \/ i = Len(recvs[Event]) + 1
    <3> SUFFICES ASSUME NEW i \in ToCall', i # Len(recvs[Event]) + 1
                 PROVE  i \in ToCall
      OBVIOUS
    <3>1. /\ stack # <<>> /\ i \in DOMAIN recvs'[Event]
          /\ \/ Sig!Top.pc = "loop" /\ i >= Sig!Top.pos
             \/ Sig!Top.pc = "inside" /\ i > Sig!Top.pos
      BY <2>1, <2>4, MemberNext
    <3>2. i \in DOMAIN recvs[Event]
      BY <1>2, <2>3, <3>1
    <3>3. QED
      BY <3>1, <3>2, MemberNow
  <2>6. ASSUME NEW i \in ToCall'
        PROVE  /\ recvs'[Event][i] = NULL => strayed'
               /\ \A x \in Win :
                    recvs'[Event][i] = x /\ win'[x] = "open" /\ id'[x] = event' => x = due'
    <3>1. CASE i \in ToCall
      BY <1>1, <2>1, <2>2, <2>3, <3>1 DEF history, Addressed
    <3>2. CASE i = Len(recvs[Event]) + 1
      BY <1>2, <2>1, <2>2, <2>3, <3>2
    <3>3. QED
      BY <2>5, <3>1, <3>2
  <2>7. QED
    BY <1>4, <2>6
<1>8. ASSUME NEW w \in Win, WinInitNotHeard(w)
      PROVE  OwnWindowMayGo' /\ OnlyDueAnswers'
  <2>1. /\ MayInit(w) /\ Sig!RecvSetFails(w, Event) /\ stack' = stack
        /\ UNCHANGED <<event, history>>
        /\ win' = [win EXCEPT ![w] = "failed"] /\ id' = [id EXCEPT ![w] = None]
    BY <1>8 DEF WinInitNotHeard, Sig!RecvSetFails, pollVars
  <2>2. recvs' = recvs
    BY <2>1, FreshWindow DEF Sig!RecvSetFails
  <2>3. ToCall' = ToCall
    BY <1>6, <2>1, <2>2
  <2>4. \A x \in Win : win'[x] = "open" => x # w /\ win[x] = "open" /\ id'[x] = id[x]
    BY <1>2, <2>1
  <2>5. QED
    BY <1>1, <1>4, <2>1, <2>2, <2>3, <2>4 DEF history, Addressed
<1>9. ASSUME NEW w \in Win, WinDeinit(w)
      PROVE  OwnWindowMayGo' /\ OnlyDueAnswers'
  <2>1. /\ win[w] = "open" /\ attached[w] = Event /\ (stack = <<>> \/ inside)
        /\ UNCHANGED <<stack, event, due>>
        /\ win' = [win EXCEPT ![w] = "none"] /\ id' = [id EXCEPT ![w] = None]
        /\ strayed' = (strayed \/ (inside /\ id[w] # event))
        /\ DOMAIN recvs'[Event] = {} \/ recvs' = Sig!Unset(w)
    BY <1>9, DeinitStep
  <2>2. \A x \in Win : win'[x] = "open" => x # w /\ win[x] = "open" /\ id'[x] = id[x]
    BY <1>2, <2>1
  <2>3. inside => due = NULL
    BY DEF WindowsInv, EmissionsArePolls
  <2>4. Sig!Top' = Sig!Top
    BY <2>1 DEF Sig!Top
  <2>5. CASE DOMAIN recvs'[Event] = {}
    <3>1. ToCall' = {}
      BY <2>5, SlotsToCallNext
    <3>2. QED
      BY <1>3, <3>1
  <2>6. CASE recvs' = Sig!Unset(w)
    <3>1. ASSUME NEW i \in ToCall'
          PROVE  /\ i \in DOMAIN recvs'[Event]
                 /\ i \in DOMAIN recvs[Event] => i \in ToCall
                 /\ i + 1 \in DOMAIN recvs[Event] => i + 1 \in ToCall
                 /\ inside
      <4>1. stack # <<>> /\ i \in DOMAIN recvs'[Event]
        BY <2>1, <3>1, SlotsToCallNext
      <4>2. i \in Nat
        BY <2>1, <2>6, <4>1, UnsetShifts
      <4>3. Sig!Top.pos \in Nat
        BY <4>1, FrameTyped
      <4>4. \/ Sig!Top.pc = "loop" /\ i >= Sig!Top.pos
            \/ Sig!Top.pc = "inside" /\ i > Sig!Top.pos
        BY <2>4, <3>1, MemberNext
      <4>5. \/ Sig!Top.pc = "loop" /\ i + 1 >= Sig!Top.pos
            \/ Sig!Top.pc = "inside" /\ i + 1 > Sig!Top.pos
        BY <4>2, <4>3, <4>4
      <4>6. i \in DOMAIN recvs[Event] => i \in ToCall
        BY <4>1, <4>4, MemberNow
      <4>7. i + 1 \in DOMAIN recvs[Event] => i + 1 \in ToCall
        BY <4>1, <4>5, MemberNow
      <4>8. QED
        BY <2>1, <4>1, <4>6, <4>7
    <3>2. ASSUME NEW i \in ToCall'
          PROVE  \/ \E j \in ToCall : recvs'[Event][i] = recvs[Event][j]
                 \/ i \in ToCall /\ recvs[Event][i] = w /\ recvs'[Event][i] = NULL
      BY <2>1, <2>6, <3>1, <3>2, UnsetShifts
    <3>3. ASSUME NEW i \in ToCall', recvs'[Event][i] = NULL
          PROVE  strayed'
      <4>1. CASE \E j \in ToCall : recvs'[Event][i] = recvs[Event][j]
        BY <1>1, <2>1, <3>3, <4>1
      <4>2. CASE i \in ToCall /\ recvs[Event][i] = w
        <5>1. w # due
          BY <1>2, <2>3, <3>1, <3>3
        <5>2. id[w] # event
          BY <1>1, <2>1, <4>2, <5>1 DEF Addressed
        <5>3. QED
          BY <2>1, <3>1, <3>3, <5>2
      <4>3. QED
        BY <3>2, <3>3, <4>1, <4>2
    <3>4. ASSUME NEW i \in ToCall', NEW x \in Win, recvs'[Event][i] = x,
                 win'[x] = "open", id'[x] = event'
          PROVE  x = due'
      <4>1. PICK j \in ToCall : recvs[Event][j] = x
        BY <1>2, <3>2, <3>4
      <4>2. Addressed(x)
        BY <2>1, <2>2, <3>4 DEF Addressed
      <4>3. QED
        BY <1>1, <2>1, <4>1, <4>2
    <3>5. QED
      BY <1>4, <3>3, <3>4
  <2>7. QED
    BY <2>1, <2>5, <2>6
<1>10. ASSUME NEW e \in WinId, PollEvent(e)
       PROVE  OwnWindowMayGo' /\ OnlyDueAnswers'
  <2>1. /\ stack = <<>> /\ recvs' = recvs /\ event' = e /\ due' = Meant(e)
        /\ UNCHANGED <<win, id>>
    BY <1>10 DEF PollEvent, Sig!Emit, windowVars
  <2>2. \A i \in DOMAIN recvs[Event] : recvs[Event][i] # NULL
    BY <2>1 DEF WindowsInv, HolesAreDropped
  <2>3. ToCall' \in SUBSET DOMAIN recvs[Event]
    BY <2>1, SlotsToCallNext
  <2>4. ASSUME NEW x \in Win, win[x] = "open", id[x] = e
        PROVE  x = Meant(e)
    <3>1. e # None
      BY IdAssumption
    <3>2. Meant(e) \in Win /\ id[Meant(e)] = e
      BY <2>4 DEF Meant
    <3>3. QED
      BY <2>4, <3>1, <3>2 DEF WindowsInv, IdsDistinct
  <2>5. QED
    BY <1>4, <2>1, <2>2, <2>3, <2>4
<1>11. CASE Dispatch
  <2>1. /\ stack # <<>> /\ stack' # <<>> /\ recvs' = recvs
        /\ Sig!Top.pc = "loop" /\ Sig!Top.pos \in DOMAIN recvs[Event] /\ Receiver \in Win
        /\ Sig!Top'.pc = "inside" /\ Sig!Top'.pos = Sig!Top.pos
    BY <1>11, EmissionGoesOn
  <2>2. \A i \in ToCall' : i \in ToCall /\ i # Sig!Top.pos /\ i \in DOMAIN recvs[Event]
    <3> SUFFICES ASSUME NEW i \in ToCall'
                 PROVE  i \in ToCall /\ i # Sig!Top.pos /\ i \in DOMAIN recvs[Event]
      OBVIOUS
    <3>1. i \in DOMAIN recvs[Event] /\ i > Sig!Top.pos
      BY <2>1, MemberNext
    <3>2. i \in Nat /\ Sig!Top.pos \in Nat
      BY <1>2, <2>1, <3>1
    <3>3. i >= Sig!Top.pos /\ i # Sig!Top.pos
      BY <3>1, <3>2
    <3>4. QED
      BY <2>1, <3>1, <3>3, MemberNow
  <2>3. Sig!Top.pos \in ToCall
    BY <1>2, <2>1, SlotsToCallNow
  <2>4. CASE Addressed(Receiver)
    <3>1. due' = NULL /\ UNCHANGED <<windowVars, event, strayed>>
      BY <1>11, <2>4 DEF Dispatch
    <3>2. Receiver = due /\ recvs[Event][Sig!Top.pos] = Receiver
      BY <1>1, <2>1, <2>3, <2>4 DEF Receiver
    <3>3. S!Distinct(recvs[Event])
      <4>1. S!NoCompaction
        BY <2>1, OneFrame DEF S!NoCompaction
      <4>2. S!Agreed
        BY <4>1, InvOfSignal, SignalAssumptions, S!AllCount DEF S!SubscriptionInv
      <4>3. QED
        BY <4>2 DEF S!Agreed
    <3>4. \A i \in ToCall' : recvs[Event][i] # Receiver
      BY <1>2, <2>1, <2>2, <3>2, <3>3 DEF S!Distinct
    <3>5. \A i \in ToCall' : recvs'[Event][i] = NULL => strayed'
      BY <1>1, <2>1, <2>2, <3>1
    <3>6. \A i \in ToCall' : \A w \in Win :
            recvs'[Event][i] = w /\ win'[w] = "open" /\ id'[w] = event' => w = due'
      BY <1>1, <2>1, <2>2, <3>1, <3>2, <3>4 DEF Addressed, windowVars
    <3>7. QED
      BY <1>4, <3>5, <3>6
  <2>5. CASE ~Addressed(Receiver)
    <3>1. UNCHANGED <<windowVars, event, history>>
      BY <1>11, <2>5 DEF Dispatch, history
    <3>2. QED
      BY <1>5, <2>1, <2>2, <3>1
  <2>6. QED
    BY <2>4, <2>5
<1>12. CASE HandleReturns
  <2>1. /\ stack # <<>> /\ stack' # <<>> /\ recvs' = recvs
        /\ Sig!Top.pc = "inside"
        /\ Sig!Top'.pc = "loop" /\ Sig!Top'.pos = Sig!Top.pos + 1
    BY <1>12, EmissionGoesOn
  <2>2. Sig!Top.pos \in Nat
    BY <2>1, FrameTyped
  <2>3. ToCall' \in SUBSET ToCall
    <3> SUFFICES ASSUME NEW i \in ToCall'
                 PROVE  i \in ToCall
      OBVIOUS
    <3>1. i \in DOMAIN recvs[Event] /\ i >= Sig!Top.pos + 1
      BY <2>1, MemberNext
    <3>2. i \in Nat
      BY <1>2, <3>1
    <3>3. i > Sig!Top.pos
      BY <2>2, <3>1, <3>2
    <3>4. QED
      BY <2>1, <3>1, <3>3, MemberNow
  <2>4. QED
    BY <1>5, <1>12, <2>1, <2>3 DEF HandleReturns
<1>13. CASE EmitEnds
  <2>1. Sig!EndLoop => ToCall' = {}
    <3> SUFFICES ASSUME Sig!EndLoop PROVE ToCall' = {}
      OBVIOUS
    <3>1. stack' # <<>> /\ Sig!Top'.pc = "compact"
      BY <1>13, EmissionGoesOn
    <3>2. QED
      BY <3>1, SlotsToCallNext
  <2>2. Sig!CompactSlot => ToCall' = {}
    BY CompactionStep, SlotsToCallNext
  <2>3. QED
    BY <1>3, <1>13, <2>1, <2>2 DEF EmitEnds
<1>14. CASE EventDone
  <2>1. stack' = <<>>
    BY <1>14, EmissionIsOver DEF EventDone
  <2>2. QED
    BY <1>3, <2>1, SlotsToCallNext
<1>15. CASE Load \/ LoopEnds \/ Unload \/ Walk \/ PollCloses \/ Exit \/ PollReturns
  <2>1. stack = <<>>
    BY <1>15 DEF Load, LoopEnds, Unload, Walk, PollCloses, Exit, PollReturns, WindowsInv,
                 EmissionsArePolls, PhasesOrdered
  <2>2. stack' = stack
    BY <1>15 DEF Load, LoopEnds, Unload, Unref, Walk, PollCloses, Exit, PollReturns,
                 signalVars, Sig!SignalInit, Sig!Deinit
  <2>3. QED
    BY <1>3, <2>1, <2>2, SlotsToCallNext
<1>16. CASE ClientIdle \/ Terminated \/ PollFires \/ Crash \/ UNCHANGED vars
  <2>1. UNCHANGED <<stack, recvs, windowVars, event, history>>
    BY <1>16 DEF ClientIdle, Terminated, PollFires, Crash, Sig!CallHole, vars, signalVars,
                 pollVars
  <2>2. ToCall' \in SUBSET ToCall
    BY <1>6, <2>1
  <2>3. QED
    BY <1>5, <2>1, <2>2
<1>17. QED
  BY <1>7, <1>8, <1>9, <1>10, <1>11, <1>12, <1>13, <1>14, <1>15, <1>16
     DEF Next, Client, Emission, Program

-----------------------------------------------------------------------------
(* The theorems.                                                           *)

LEMMA WindowsInit == Init => WindowsInv
<1> SUFFICES ASSUME Init PROVE WindowsInv
  OBVIOUS
<1>1. S!Init
  BY SameInit DEF Init
<1>2. S!TypeInv
  BY <1>1, SignalAssumptions, S!TypeInit
<1>3. /\ recvs = [s \in {Event} |-> <<>>] /\ attached = [w \in Win |-> NULL]
      /\ stack = <<>> /\ live = [s \in {Event} |-> FALSE]
  BY <1>1 DEF S!Init
<1>4. recvs[Event] = <<>> /\ DOMAIN recvs[Event] = {} /\ DOMAIN stack = {} /\ ~live[Event]
  BY <1>3, EmptySeq
<1>5. S!SubscriptionInv
  <2>1. S!DeadIsEmpty
    BY <1>3 DEF S!DeadIsEmpty
  <2>2. S!Counted(Event) = {}
    BY <1>4 DEF S!Counted
  <2>3. \A w \in Win : attached[w] # Event
    BY <1>3, NullAssumption
  <2>4. S!SubscriptionConsistent
    BY <2>2, <2>3 DEF S!SubscriptionConsistent, S!Holds
  <2>5. QED
    BY <1>2, <2>1, <2>4 DEF S!SubscriptionInv
<1>6. Sig!SubscriptionInv
  BY <1>5, SameInv
<1>7. TypeOK
  <2>1. Sig!TypeOK
    BY <1>6 DEF Sig!SubscriptionInv, Sig!TypeInv
  <2>2. QED
    BY <2>1 DEF Init, TypeOK
<1>8. OpenWindows = {}
  BY DEF Init, OpenWindows
<1>9. OwnersCounted
  <2>1. Cardinality(OpenWindows) = 0
    BY <1>8, FS_EmptySet
  <2>2. QED
    BY <1>4, <2>1 DEF Init, OwnersCounted
<1>10. SlotsAreWindows
  BY <1>4, <1>8 DEF SlotsAreWindows
<1>11. EmissionsArePolls
  BY <1>3 DEF Init, EmissionsArePolls, inside
<1>12. ToCall = {}
  BY <1>3, SlotsToCall
<1>13. OwnWindowMayGo /\ OnlyDueAnswers
  BY <1>12 DEF OwnWindowMayGo, OnlyDueAnswers
<1>14. IdsDistinct
  BY DEF Init, IdsDistinct
<1>15. HolesAreDropped
  <2>1. ~emitting[Event]
    BY <1>1 DEF S!Init
  <2>2. QED
    BY <1>3, <1>4, <2>1 DEF HolesAreDropped
<1>16. PhasesOrdered
  BY <1>8 DEF Init, PhasesOrdered
<1>17. QED
  BY <1>6, <1>7, <1>9, <1>10, <1>11, <1>13, <1>14, <1>15, <1>16 DEF WindowsInv

LEMMA WindowsStep ==
  ASSUME WindowsInv, DeinitsFailed = FALSE, [Next]_vars
  PROVE  WindowsInv'
BY SignalStep, TypeStep, OwnersStep, SlotsStep, EventsStep, IdsStep, HolesStep, CallsStep,
   PhasesStep
   DEF WindowsInv

LEMMA WindowsHold ==
  ASSUME DeinitsFailed = FALSE
  PROVE  Spec => []WindowsInv
<1>1. WindowsInv /\ [Next]_vars => WindowsInv'
  BY WindowsStep
<1>2. QED
  BY <1>1, WindowsInit, PTL DEF Spec

(* Every variable has its type, for clients that do not deinitialise a     *)
(* window whose win_init() has failed, as for all that follows.            *)
THEOREM TypeCorrect ==
  ASSUME DeinitsFailed = FALSE
  PROVE  Spec => []TypeOK
<1>1. WindowsInv => TypeOK
  BY DEF WindowsInv
<1>2. QED
  BY <1>1, WindowsHold, PTL

(* The count of the module is that of its owners, for any number of them,  *)
(* and its signal and its poll are there as long as there is one.          *)
THEOREM OwnersAreCounted ==
  ASSUME DeinitsFailed = FALSE
  PROVE  Spec => []OwnersCounted
<1>1. WindowsInv => OwnersCounted
  BY DEF WindowsInv
<1>2. QED
  BY <1>1, WindowsHold, PTL

(* No slot of the event signal leads to a window that has been given up.   *)
THEOREM SlotsLeadToWindows ==
  ASSUME DeinitsFailed = FALSE
  PROVE  Spec => []SlotsAreWindows
<1>1. WindowsInv => SlotsAreWindows
  BY DEF WindowsInv
<1>2. QED
  BY <1>1, WindowsHold, PTL

(* The handler that is called is that of the window which the event was    *)
(* meant for, and it is called once, whatever windows handlers give up and *)
(* make anew while the event is dispatched.                                *)
THEOREM HandlersGetTheirEvents ==
  ASSUME DeinitsFailed = FALSE
  PROVE  Spec => HandlersAddressed
<1> DEFINE Called == handling' # handling /\ handling' # NULL => handling' = due
<1>1. ASSUME WindowsInv, [Next]_vars
      PROVE  [Called]_vars
  <2>1. SUFFICES ASSUME handling' # handling, handling' # NULL
                 PROVE  handling' = due
    OBVIOUS
  <2>2. Dispatch /\ Addressed(Receiver) /\ handling' = Receiver
    BY <1>1, <2>1 DEF Next, Client, Program, Emission, Load, ClientIdle, PollFires, PollEvent,
         Dispatch, Crash, EmitEnds, EventDone, HandleReturns, PollReturns, PollCloses,
         LoopEnds, Unload, Walk, Exit, Terminated, WinInit, WinInitNotHeard,
         WinInitNotShown, WinDeinit, pollVars, vars
  <2>3. /\ stack # <<>> /\ Sig!Top.pc = "loop" /\ Sig!Top.pos \in DOMAIN recvs[Event]
        /\ Receiver \in Win
    BY <1>1, <2>2, EmissionGoesOn
  <2>4. Sig!Top.pos \in ToCall
    <3>1. Sig!Top.pos >= Sig!Top.pos
      BY <1>1, <2>3, FrameTyped
    <3>2. QED
      BY <1>1, <2>3, <3>1, MemberNow
  <2>5. QED
    BY <1>1, <2>2, <2>3, <2>4 DEF WindowsInv, OnlyDueAnswers, Receiver
<1>2. QED
  BY <1>1, WindowsHold, PTL DEF Spec, HandlersAddressed

(* A handler may delete its own window: as long as handlers give up no     *)
(* other, no hole is ahead of the emission.                                *)
THEOREM OwnWindowsMayGo ==
  ASSUME DeinitsFailed = FALSE
  PROVE  Spec => []OwnWindowMayGo
<1>1. WindowsInv => OwnWindowMayGo
  BY DEF WindowsInv
<1>2. QED
  BY <1>1, WindowsHold, PTL

(* So the poll calls through a hole only after a handler has strayed.      *)
THEOREM CrashesAreStrays ==
  ASSUME DeinitsFailed = FALSE
  PROVE  Spec => [][Crash => strayed]_vars
<1>1. ASSUME WindowsInv, Crash
      PROVE  strayed
  <2>1. /\ stack # <<>> /\ Sig!Top.pc = "loop"
        /\ Sig!Top.pos <= Len(recvs[Sig!Top.sig])
        /\ recvs[Sig!Top.sig][Sig!Top.pos] = NULL
    BY <1>1 DEF Crash, Sig!CallHole, Sig!EmitterAt
  <2>2. Sig!Top.sig = Event /\ Sig!Top.pos \in Nat \ {0}
    BY <1>1, <2>1, FrameTyped
  <2>3. Sig!Top.pos \in DOMAIN recvs[Event] /\ Sig!Top.pos >= Sig!Top.pos
    BY <1>1, <2>1, <2>2, InvOfSignal
  <2>4. Sig!Top.pos \in ToCall
    BY <1>1, <2>1, <2>3, MemberNow
  <2>5. QED
    BY <1>1, <2>1, <2>2, <2>4 DEF WindowsInv, OwnWindowMayGo
<1>2. QED
  BY <1>1, WindowsHold, PTL
=============================================================================
