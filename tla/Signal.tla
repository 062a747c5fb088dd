-------------------------------- MODULE Signal --------------------------------
(***************************************************************************)
(* util/signal.h: an emitter (nf7util_signal) and its receivers            *)
(* (nf7util_signal_recv), on top of the slot array of util/array.h.        *)
(*                                                                         *)
(* All of it runs on one thread; what interleaves are the callbacks.  An   *)
(* emission calls the receivers one by one, and each callback may call     *)
(* back into the library before it returns: subscribe, unsubscribe, or     *)
(* emit another signal.  "stack" holds the nf7util_signal_emit() calls     *)
(* that are active, the innermost last; client code has the control when   *)
(* there is none or when the innermost one is inside a callback.           *)
(*                                                                         *)
(* Slots are counted from 1 here and from 0 in the code.  Memory is        *)
(* MaxSlots slots per signal: an insertion fails when the array is at that *)
(* bound, and may fail earlier, as any allocation may.                     *)
(***************************************************************************)
EXTENDS Naturals, Sequences, FiniteSets, SequencesExt, Sieve

CONSTANTS
  Signal, Recv,
  NULL,        \* nullptr
  MaxSlots,    \* bound: slots an array can be given
  MaxDepth,    \* bound: emissions nested in one another
  Contract,    \* TRUE: clients never detach a receiver an emission still
               \* has to call, and never deinit a signal being emitted
  Reentrant    \* TRUE: a callback may emit the signal that is calling it

ASSUME NullAssumption == NULL \notin Signal /\ NULL \notin Recv
ASSUME BoundAssumption == MaxSlots \in Nat /\ MaxDepth \in Nat
ASSUME SwitchAssumption == Contract \in BOOLEAN /\ Reentrant \in BOOLEAN

VARIABLES
  live,       \* live[s]: s is initialised and not yet deinitialised
  emitting,   \* emitting[s]: the flag nf7util_signal.emitting
  recvs,      \* recvs[s]: the slots, each a receiver or NULL
  attached,   \* attached[r]: nf7util_signal_recv.signal
  stack,      \* the nf7util_signal_emit() calls in progress
  fault       \* where a null receiver was dereferenced, if it was

vars == <<live, emitting, recvs, attached, stack, fault>>

Slot == Recv \cup {NULL}

(* One nf7util_signal_emit() call.  pc is where it is: at the head of its  *)
(* loop ("loop"), inside a callback ("inside") or in the compaction that   *)
(* follows ("compact").  pos is the slot the running loop looks at, and    *)
(* kept the number of slots the compaction has kept so far.                *)
Frame == [sig : Signal, pc : {"loop", "inside", "compact"},
          pos : Nat \ {0}, kept : Nat]

Init ==
  /\ live = [s \in Signal |-> FALSE]
  /\ emitting = [s \in Signal |-> FALSE]
  /\ recvs = [s \in Signal |-> <<>>]
  /\ attached = [r \in Recv |-> NULL]
  /\ stack = <<>>
  /\ fault = "none"

-----------------------------------------------------------------------------
(* Who has the control.                                                    *)

Top == stack[Len(stack)]

ClientTurn ==
  /\ fault = "none"
  /\ stack # <<>> => Top.pc = "inside"

(* The innermost emission is at pc, and the step is the library's.         *)
EmitterAt(pc) ==
  /\ fault = "none"
  /\ stack # <<>>
  /\ Top.pc = pc

(* The innermost emission moves on.                                        *)
MoveTo(pc, pos, kept) ==
  stack' = [stack EXCEPT ![Len(stack)] =
              [sig |-> Top.sig, pc |-> pc, pos |-> pos, kept |-> kept]]

Emitted(s) == \E d \in DOMAIN stack : stack[d].sig = s

(* The slots a frame still has to visit.                                   *)
Ahead(f) ==
  {i \in DOMAIN recvs[f.sig] :
     \/ f.pc = "loop" /\ i >= f.pos
     \/ f.pc = "inside" /\ i > f.pos}

(* Some emission still has to call r.                                      *)
Pending(r) ==
  \E d \in DOMAIN stack : \E i \in Ahead(stack[d]) :
     recvs[stack[d].sig][i] = r

-----------------------------------------------------------------------------
(* Initialisation.  Neither function writes the emitting flag.             *)

SignalInit(s) ==
  /\ ClientTurn
  /\ ~live[s] /\ ~Emitted(s)
  /\ live' = [live EXCEPT ![s] = TRUE]
  /\ recvs' = [recvs EXCEPT ![s] = <<>>]
  /\ UNCHANGED <<emitting, attached, stack, fault>>

MayDeinit(s) ==
  /\ ClientTurn
  /\ live[s]
  /\ Contract => ~Emitted(s)

Deinit(s) ==
  /\ MayDeinit(s)
  /\ NULL \notin ToSet(recvs[s])
  /\ attached' = [r \in Recv |->
                    IF r \in ToSet(recvs[s]) THEN NULL ELSE attached[r]]
  /\ live' = [live EXCEPT ![s] = FALSE]
  /\ recvs' = [recvs EXCEPT ![s] = <<>>]
  /\ UNCHANGED <<emitting, stack, fault>>

(* The loop of deinit writes through every slot, a hole included.          *)
DeinitHole(s) ==
  /\ MayDeinit(s)
  /\ NULL \in ToSet(recvs[s])
  /\ fault' = "deinit"
  /\ UNCHANGED <<live, emitting, recvs, attached, stack>>

-----------------------------------------------------------------------------
(* Subscriptions.                                                          *)

(* The index nf7util_signal_recvs_find() returns.                          *)
FirstSlot(q, r) ==
  CHOOSE i \in DOMAIN q : q[i] = r /\ \A j \in 1 .. (i - 1) : q[j] # r

(* A careless variant: unsetting always removes the slot.                  *)
UnsetAlwaysRemoves(r) ==
  LET s == attached[r]
  IN  IF s = NULL \/ ~Contains(recvs[s], r) THEN recvs
      ELSE [recvs EXCEPT ![s] = RemoveAt(@, FirstSlot(@, r))]

(* The slots of every signal after nf7util_signal_recv_unset(r): the slot  *)
(* is removed, or becomes a hole while the signal is being emitted.        *)
Unset(r) ==
  LET s == attached[r]
  IN  IF s = NULL \/ ~Contains(recvs[s], r) THEN recvs
      ELSE [recvs EXCEPT ![s] =
              IF emitting[s] THEN [@ EXCEPT ![FirstSlot(@, r)] = NULL]
                             ELSE RemoveAt(@, FirstSlot(@, r))]

MayDetach(r) == ClientTurn /\ (Contract => ~Pending(r))

(* A careless variant: the receiver keeps pointing at the signal.          *)
DetachedNever(r) == attached

Detached(r) == [attached EXCEPT ![r] = NULL]

RecvUnset(r) ==
  /\ MayDetach(r)
  /\ recvs' = Unset(r)
  /\ attached' = Detached(r)
  /\ UNCHANGED <<live, emitting, stack, fault>>

RecvSet(r, s) ==
  /\ MayDetach(r)
  /\ live[s]
  /\ Len(Unset(r)[s]) < MaxSlots
  /\ recvs' = [Unset(r) EXCEPT ![s] = Append(@, r)]
  /\ attached' = [attached EXCEPT ![r] = s]
  /\ UNCHANGED <<live, emitting, stack, fault>>

(* The insertion fails: the receiver has lost its old subscription too.    *)
RecvSetFails(r, s) ==
  /\ MayDetach(r)
  /\ live[s]
  /\ recvs' = Unset(r)
  /\ attached' = Detached(r)
  /\ UNCHANGED <<live, emitting, stack, fault>>

-----------------------------------------------------------------------------
(* Emission.                                                               *)

(* A careless variant: the first slot is mistaken for the one before it.   *)
BeforeFirst == 0

FirstIndex == 1

Emit(s) ==
  /\ ClientTurn
  /\ live[s]
  /\ Len(stack) < MaxDepth
  /\ Reentrant \/ ~Emitted(s)
  /\ emitting' = [emitting EXCEPT ![s] = TRUE]
  /\ stack' = Append(stack, [sig |-> s, pc |-> "loop", pos |-> FirstIndex, kept |-> 0])
  /\ UNCHANGED <<live, recvs, attached, fault>>

(* The slot is called; its callback is client code, from here to Return.   *)
Call ==
  /\ EmitterAt("loop")
  /\ Top.pos <= Len(recvs[Top.sig])
  /\ recvs[Top.sig][Top.pos] # NULL
  /\ MoveTo("inside", Top.pos, Top.kept)
  /\ UNCHANGED <<live, emitting, recvs, attached, fault>>

(* The loop calls whatever the slot holds, a hole included.                *)
CallHole ==
  /\ EmitterAt("loop")
  /\ Top.pos <= Len(recvs[Top.sig])
  /\ recvs[Top.sig][Top.pos] = NULL
  /\ fault' = "emit"
  /\ UNCHANGED <<live, emitting, recvs, attached, stack>>

(* A careless variant: the loop does not advance.                          *)
SameIndex(i) == i

NextIndex(i) == i + 1

(* The callback of the d-th nested emission returns.                       *)
Return(d) ==
  /\ EmitterAt("inside")
  /\ d = Len(stack)
  /\ MoveTo("loop", NextIndex(Top.pos), Top.kept)
  /\ UNCHANGED <<live, emitting, recvs, attached, fault>>

(* A careless variant: the last slot is left out.                          *)
AtLast == Top.pos >= Len(recvs[Top.sig])

AtEnd == Top.pos > Len(recvs[Top.sig])

(* A careless variant: the flag stays set.                                 *)
FlagKept(s) == emitting

FlagCleared(s) == [emitting EXCEPT ![s] = FALSE]

EndLoop ==
  /\ EmitterAt("loop")
  /\ AtEnd
  /\ emitting' = FlagCleared(Top.sig)
  /\ MoveTo("compact", 1, 0)
  /\ UNCHANGED <<live, recvs, attached, fault>>

(* The compaction looks at one slot: lead_index is pos - 1, follow_index   *)
(* is kept.                                                                *)
CompactSlot ==
  /\ EmitterAt("compact")
  /\ Top.pos <= Len(recvs[Top.sig])
  /\ IF recvs[Top.sig][Top.pos] # NULL
     THEN /\ recvs' = [recvs EXCEPT ![Top.sig][Top.kept + 1] =
                                        recvs[Top.sig][Top.pos]]
          /\ MoveTo("compact", Top.pos + 1, Top.kept + 1)
     ELSE /\ MoveTo("compact", Top.pos + 1, Top.kept)
          /\ UNCHANGED recvs
  /\ UNCHANGED <<live, emitting, attached, fault>>

(* A careless variant: the array keeps its length.                         *)
KeptAll(q) == q

Kept(q) == SubSeq(q, 1, Top.kept)

(* The array is cut to what was kept, and nf7util_signal_emit() returns.   *)
Shrink ==
  /\ EmitterAt("compact")
  /\ Top.pos > Len(recvs[Top.sig])
  /\ recvs' = [recvs EXCEPT ![Top.sig] = Kept(@)]
  /\ stack' = Front(stack)
  /\ UNCHANGED <<live, emitting, attached, fault>>

-----------------------------------------------------------------------------

Client ==
  \/ \E s \in Signal : SignalInit(s) \/ Deinit(s) \/ DeinitHole(s) \/ Emit(s)
  \/ \E r \in Recv : RecvUnset(r)
  \/ \E r \in Recv, s \in Signal : RecvSet(r, s) \/ RecvSetFails(r, s)

Library == Call \/ CallHole \/ EndLoop \/ CompactSlot \/ Shrink

Next == Client \/ Library \/ \E d \in 1 .. MaxDepth : Return(d)

Spec == Init /\ [][Next]_vars

(* The library's own steps always follow.  A callback is a function that   *)
(* returns: it makes finitely many calls, so the d-th nested emission      *)
(* cannot have its callback offered a return for ever and never take it,   *)
(* however often the callback emits other signals meanwhile.               *)
Fairness ==
  /\ WF_vars(Library)
  /\ \A d \in 1 .. MaxDepth : SF_vars(Return(d))

FairSpec == Spec /\ Fairness

-----------------------------------------------------------------------------
(* Properties.                                                             *)

(* Every variable has its type; the flag, the pointer and the slots are    *)
(* those of the structs in util/signal.h.                                  *)
TypeOK ==
  /\ live \in [Signal -> BOOLEAN]
  /\ emitting \in [Signal -> BOOLEAN]
  /\ recvs \in [Signal -> Seq(Slot)]
  /\ attached \in [Recv -> Signal \cup {NULL}]
  /\ stack \in Seq(Frame)
  /\ fault \in {"none", "emit", "deinit"}

(* The slots of s that mean something: all of them, but for those that a   *)
(* compaction under way has already copied or dropped.                     *)
Counted(s) ==
  {i \in DOMAIN recvs[s] :
     \A d \in DOMAIN stack :
        stack[d].sig = s /\ stack[d].pc = "compact"
          => i <= stack[d].kept \/ i >= stack[d].pos}

Holds(s, r) == \E i \in Counted(s) : recvs[s][i] = r

(* A receiver's signal pointer and the slot arrays agree at every step,    *)
(* in and between callbacks: a receiver has a slot in the signal it points *)
(* at, in no other, and never two of them.  nf7util_signal_deinit() and    *)
(* nf7util_signal_recv_unset() trust one side to find the other.           *)
SubscriptionConsistent ==
  /\ \A r \in Recv, s \in Signal : attached[r] = s <=> Holds(s, r)
  /\ \A s \in Signal : \A i, j \in Counted(s) :
        recvs[s][i] = recvs[s][j] /\ recvs[s][i] # NULL => i = j

(* Holes exist only in a signal some emission is still running on: one     *)
(* left behind would be dereferenced by the next emission, or by deinit,   *)
(* however long after.                                                     *)
HolesOnlyDuringEmission ==
  \A s \in Signal :
     ~Emitted(s) => \A i \in DOMAIN recvs[s] : recvs[s][i] # NULL

(* The flag tells exactly whether a loop is running over the slots; it is  *)
(* what nf7util_signal_recv_unset() decides by.                            *)
Iterating(s) ==
  \E d \in DOMAIN stack : stack[d].sig = s /\ stack[d].pc # "compact"

FlagTellsIteration == \A s \in Signal : emitting[s] <=> Iterating(s)

(* Neither the loop of nf7util_signal_emit() nor that of                   *)
(* nf7util_signal_deinit(), which do not look, ever dereferences a hole.   *)
NoNullDereference == fault = "none"

(* Receivers may be removed while their signal is emitted: the slot is set *)
(* to nullptr because the array is being iterated (util/signal.h:57, 82),  *)
(* so the iteration never calls such a slot.                               *)
NoHoleCalled == fault # "emit"

(* While a loop runs over a signal's slots, no slot moves and none goes    *)
(* away: callbacks may only append slots or turn one into a hole.  The     *)
(* index of the loop in nf7util_signal_emit() relies on it.                *)
SlotsPinned ==
  [][\A s \in Signal :
       Iterating(s) /\ Iterating(s)' /\ live'[s] =>
         /\ Len(recvs'[s]) >= Len(recvs[s])
         /\ \A i \in DOMAIN recvs[s] : recvs'[s][i] \in {recvs[s][i], NULL}]_vars

(* What makes these inductive.  First, whatever the clients do: only the   *)
(* innermost emission is not inside a callback, and a compaction copies    *)
(* downwards within the array.                                             *)
OnlyTopMoves ==
  \A d \in DOMAIN stack : d < Len(stack) => stack[d].pc = "inside"

CompactsDownwards ==
  \A d \in DOMAIN stack :
     stack[d].pc = "compact" => /\ stack[d].kept < stack[d].pos
                                /\ stack[d].pos <= Len(recvs[stack[d].sig]) + 1

TypeInv == TypeOK /\ OnlyTopMoves /\ CompactsDownwards

(* Then, for clients that keep to the contract and do not emit a signal    *)
(* from within its own emission: no two emissions share a signal, no hole  *)
(* is ahead of a loop, and none is among what a compaction has kept.       *)
OneEmissionPerSignal ==
  \A d, e \in DOMAIN stack : stack[d].sig = stack[e].sig => d = e

NoHoleAhead ==
  \A d \in DOMAIN stack : \A i \in Ahead(stack[d]) :
     recvs[stack[d].sig][i] # NULL

NoHoleKept ==
  \A d \in DOMAIN stack : stack[d].pc = "compact" =>
     \A i \in 1 .. stack[d].kept : recvs[stack[d].sig][i] # NULL

SafetyInv ==
  /\ TypeInv
  /\ OneEmissionPerSignal
  /\ FlagTellsIteration
  /\ NoHoleAhead
  /\ NoHoleKept
  /\ HolesOnlyDuringEmission
  /\ NoNullDereference

(* What makes SubscriptionConsistent inductive, whatever the clients do:   *)
(* a signal that is not initialised has no slots, so that none of its own  *)
(* survive the next nf7util_signal_init().                                 *)
DeadIsEmpty == \A s \in Signal : ~live[s] => recvs[s] = <<>>

SubscriptionInv == TypeInv /\ DeadIsEmpty /\ SubscriptionConsistent

(* What the refinement below needs besides: a loop is at one of the slots, *)
(* or just past the last, unless its signal has been deinitialised.        *)
LoopsWithin ==
  \A d \in DOMAIN stack : live[stack[d].sig] =>
     /\ stack[d].pc = "inside" => stack[d].pos <= Len(recvs[stack[d].sig])
     /\ stack[d].pc = "loop" => stack[d].pos <= Len(recvs[stack[d].sig]) + 1

ObserverInv ==
  SubscriptionInv /\ OneEmissionPerSignal /\ FlagTellsIteration /\ LoopsWithin

(* Refinement.  The observer's subscriptions are the receivers in the      *)
(* slots, holes skipped; what an emission owes are the receivers in the    *)
(* slots ahead of it.  A compaction owes nothing: its round is over.       *)
Live(q) == Without(q, NULL)

Subs ==
  [s \in Signal |->
     IF stack # <<>> /\ Top.sig = s /\ Top.pc = "compact"
     THEN Live(SubSeq(recvs[s], 1, Top.kept)
                 \o SubSeq(recvs[s], Top.pos, Len(recvs[s])))
     ELSE Live(recvs[s])]

Owed(f) ==
  Live(SubSeq(recvs[f.sig],
              IF f.pc = "inside" THEN f.pos + 1 ELSE f.pos,
              Len(recvs[f.sig])))

Running == IF stack # <<>> /\ Top.pc = "compact" THEN Front(stack) ELSE stack

Rounds == [d \in DOMAIN Running |->
             [sig |-> Running[d].sig, owed |-> Owed(Running[d])]]

Obs == INSTANCE Observer WITH subs <- Subs, rounds <- Rounds

(* Slots, holes, flag and compaction implement the observer: each emission *)
(* calls every receiver subscribed when it starts or while it runs, oldest *)
(* subscription first, once per subscription, skipping only those that     *)
(* have left.                                                              *)
ObserverSpec == Obs!Spec

Owes(d, r) ==
  d \in DOMAIN stack /\ \E i \in Ahead(stack[d]) : recvs[stack[d].sig][i] = r

Visits(d, r) ==
  /\ d \in DOMAIN stack
  /\ stack[d].pc = "inside"
  /\ recvs[stack[d].sig][stack[d].pos] = r

(* A receiver that an emission still has to call is called by it, whatever *)
(* the callbacks before it do, nested emissions included.                  *)
OwedIsCalled ==
  \A d \in 1 .. MaxDepth, r \in Recv : Owes(d, r) ~> Visits(d, r)

(* Every nf7util_signal_emit() returns, although its loop re-reads the     *)
(* length that its callbacks extend: memory bounds what they can append.   *)
EmissionEnds ==
  \A d \in 1 .. MaxDepth : (Len(stack) >= d) ~> (Len(stack) < d)
=============================================================================
