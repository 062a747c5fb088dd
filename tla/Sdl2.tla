-------------------------------- MODULE Sdl2 --------------------------------
(***************************************************************************)
(* core/sdl2: the module, its poll and its windows, on top of util/signal. *)
(*                                                                         *)
(* The poll is a timer that takes the events SDL has queued and emits the  *)
(* module's event_signal for each.  Every window is a receiver of that     *)
(* signal, and calls its handler when the event is its own.  Windows are   *)
(* memory of their clients; the module is counted, one reference for       *)
(* main() and one for each window, and goes with the last of them.         *)
(*                                                                         *)
(* The slots, the flag and the emission in progress are those of Signal,   *)
(* and steps that touch them are its actions; the program ends where the   *)
(* emission calls through a hole.  Handlers do to windows what they like.  *)
(***************************************************************************)
EXTENDS Integers, Sequences, FiniteSets, SequencesExt

CONSTANTS
  Win,
  Event,         \* nf7core_sdl2.event_signal
  WinId,         \* what SDL_GetWindowID() returns
  NULL,
  None,          \* no id: win_id is 0, or nf7core_sdl2.event is nullptr
  MaxSlots,      \* bound: slots event_signal can be given
  DeinitsFailed  \* TRUE: clients call win_deinit() also after win_init() has
                 \* failed, as win.test.c does

ASSUME NullAssumption == NULL # Event /\ NULL \notin Win
ASSUME IdAssumption == None \notin WinId
ASSUME BoundAssumption == MaxSlots \in Nat
ASSUME SwitchAssumption == DeinitsFailed \in BOOLEAN
ASSUME FiniteAssumption == IsFiniteSet(Win)

VARIABLES
  live, emitting, recvs, attached, stack, fault,  \* event_signal, see Signal
  win,      \* win[w]: "none", "open", or "failed" when win_init() was false
  id,       \* id[w]: nf7core_sdl2_win.win_id
  refcnt,   \* nf7core_sdl2.refcnt
  mainRef,  \* main() has the module loaded
  timer,    \* nf7core_sdl2_poll.timer
  polling,  \* poll_on_time_() is running
  event,    \* nf7core_sdl2.event: its windowID
  handling, \* the window whose handler is running, or NULL
  due,      \* history: the window that event was meant for when it was taken
            \* from the queue, until a handler is called for it
  strayed,  \* history: the handler that is running has given up a window
            \* other than the one that event was meant for
  phase,    \* where main() is
  client    \* whether clients have handles of their own in the loop

signalVars == <<live, emitting, recvs, attached, stack, fault>>
windowVars == <<win, id>>
history == <<due, strayed>>
pollVars == <<timer, polling, event, handling, history>>
mainVars == <<mainRef, phase, client>>
vars == <<signalVars, windowVars, refcnt, pollVars, mainVars>>

Sig == INSTANCE Signal WITH
         Signal <- {Event}, Recv <- Win, MaxDepth <- 1,
         Contract <- FALSE, Reentrant <- FALSE

Init ==
  /\ Sig!Init
  /\ win = [w \in Win |-> "none"]
  /\ id = [w \in Win |-> None]
  /\ refcnt = 0
  /\ mainRef = FALSE
  /\ timer = "none"
  /\ polling = FALSE
  /\ event = None
  /\ handling = NULL
  /\ due = NULL
  /\ strayed = FALSE
  /\ phase = "load"
  /\ client = "active"

(* poll_new_(): the timer is due at once.  It is unreferenced, so that it  *)
(* does not keep the loop running.                                         *)
PollNew == timer' = "started"

Load ==
  /\ phase = "load"
  /\ Sig!SignalInit(Event)
  /\ refcnt' = 1
  /\ mainRef' = TRUE
  /\ PollNew
  /\ phase' = "loop"
  /\ UNCHANGED <<windowVars, polling, event, handling, history, client>>

-----------------------------------------------------------------------------
(* Windows.  A client acts in callbacks of its own and in handlers; its    *)
(* modules give up their windows when they are unloaded at the latest.     *)

inside == handling # NULL

ClientTurn ==
  /\ fault = "none"
  /\ phase = "loop"
  /\ (client = "active" /\ ~polling) \/ inside

(* win_init() may be given memory that holds no subscribed receiver.       *)
MayInit(w) ==
  /\ ClientTurn
  /\ win[w] = "none" \/ (win[w] = "failed" /\ attached[w] = NULL)

(* A careless variant: the window takes no reference.                      *)
CountedNever == refcnt

CountedOnce == refcnt + 1

(* SDL gives a window that it makes an id that no other has or has had: an *)
(* id counts as new when no window has it and no event in progress.        *)
NewIds == WinId \ ({id[w] : w \in Win} \cup {event})

WinInit(w) ==
  /\ MayInit(w)
  /\ Sig!RecvSet(w, Event)
  /\ win' = [win EXCEPT ![w] = "open"]
  /\ \E i \in NewIds : id' = [id EXCEPT ![w] = i]
  /\ refcnt' = CountedOnce
  /\ UNCHANGED <<pollVars, mainVars>>

WinInitNotHeard(w) ==
  /\ MayInit(w)
  /\ Sig!RecvSetFails(w, Event)
  /\ win' = [win EXCEPT ![w] = "failed"]
  /\ id' = [id EXCEPT ![w] = None]
  /\ UNCHANGED <<refcnt, pollVars, mainVars>>

(* SDL gives no window, no id or, to one with an id, no GL context: the    *)
(* receiver stays.                                                         *)
WinInitNotShown(w) ==
  /\ MayInit(w)
  /\ Sig!RecvSet(w, Event)
  /\ win' = [win EXCEPT ![w] = "failed"]
  /\ \E i \in NewIds \cup {None} : id' = [id EXCEPT ![w] = i]
  /\ UNCHANGED <<refcnt, pollVars, mainVars>>

(* A careless variant: the reference before the last takes all with it.    *)
IsLastEarly == refcnt = 2

IsLast == refcnt = 1

(* nf7core_sdl2_unref().  The last reference takes the signal and the poll *)
(* with it; "still" is what happens to the signal otherwise.  The receiver *)
(* of a window that goes at the same time is among those deinit detaches.  *)
Unref(still) ==
  /\ refcnt' = refcnt - 1
  /\ IF IsLast THEN Sig!Deinit(Event) /\ timer' = "closing"
                   ELSE still /\ UNCHANGED timer

(* win_deinit() asks for nothing: a handler may give up any window, its    *)
(* own and those it has just made included.                                *)
MayDeinit(w) ==
  /\ ClientTurn \/ phase = "unload"
  /\ win[w] = "open" \/ (DeinitsFailed /\ win[w] = "failed")

(* A careless variant: the receiver stays subscribed.                      *)
StillHeard(w) == UNCHANGED signalVars

Unheard(w) == Sig!RecvUnset(w)

(* The memory is its client's again, and no longer holds an id.            *)
WinDeinit(w) ==
  /\ MayDeinit(w)
  /\ Unref(Unheard(w))
  /\ win' = [win EXCEPT ![w] = "none"]
  /\ id' = [id EXCEPT ![w] = None]
  /\ strayed' = (strayed \/ (inside /\ id[w] # event))
  /\ UNCHANGED <<polling, event, handling, due, mainVars>>

ClientIdle ==
  /\ ClientTurn /\ ~inside /\ client = "active"
  /\ client' = "idle"
  /\ UNCHANGED <<signalVars, windowVars, refcnt, pollVars, mainRef, phase>>

-----------------------------------------------------------------------------
(* The poll.                                                               *)

PollFires ==
  /\ phase = "loop" /\ timer = "started" /\ ~polling
  /\ timer' = "stopped"
  /\ polling' = TRUE
  /\ UNCHANGED <<signalVars, windowVars, refcnt, event, handling, history, mainVars>>

(* The window that an event is meant for: the open one that has its id.    *)
Meant(e) ==
  IF \E w \in Win : win[w] = "open" /\ id[w] = e
  THEN CHOOSE w \in Win : win[w] = "open" /\ id[w] = e
  ELSE NULL

(* SDL_PollEvent() has an event.  Its id is that of a window, open or not, *)
(* or no window's any more: SDL_DestroyWindow() leaves the queue alone.    *)
PollEvent(e) ==
  /\ polling /\ stack = <<>>
  /\ Sig!Emit(Event)
  /\ event' = e
  /\ due' = Meant(e)
  /\ UNCHANGED <<windowVars, refcnt, timer, polling, handling, strayed, mainVars>>

(* A careless variant: the ids are not compared.                           *)
AddressedAnyway(w) == win[w] = "open"

(* A careless variant: the comparison of the ids is turned round.          *)
AddressedToOthers(w) == win[w] = "open" /\ id[w] # event

(* The ids match, and the client has set a handler, as it does once        *)
(* win_init() has succeeded.                                               *)
Addressed(w) == win[w] = "open" /\ id[w] = event

Receiver == recvs[Event][Sig!Top.pos]

(* handle_() of the next window; the handler runs if the event is its own. *)
Dispatch ==
  /\ Sig!Call
  /\ IF Addressed(Receiver)
     THEN handling' = Receiver /\ due' = NULL
     ELSE UNCHANGED <<handling, due>>
  /\ UNCHANGED <<windowVars, refcnt, timer, polling, event, strayed, mainVars>>

(* The slot is that of a window given up before its turn.                  *)
Crash ==
  /\ Sig!CallHole
  /\ UNCHANGED <<windowVars, refcnt, pollVars, mainVars>>

HandleReturns ==
  /\ Sig!Return(1)
  /\ handling' = NULL
  /\ UNCHANGED <<windowVars, refcnt, timer, polling, event, history, mainVars>>

EmitEnds ==
  /\ Sig!EndLoop \/ Sig!CompactSlot
  /\ UNCHANGED <<windowVars, refcnt, pollVars, mainVars>>

(* nf7util_signal_emit() returns to poll_().                               *)
EventDone ==
  /\ Sig!Shrink
  /\ event' = None
  /\ due' = NULL
  /\ strayed' = FALSE
  /\ UNCHANGED <<windowVars, refcnt, timer, polling, handling, mainVars>>

(* No event is left; the timer is started again.                           *)
PollReturns ==
  /\ polling /\ stack = <<>> /\ timer = "stopped"
  /\ timer' = "started"
  /\ polling' = FALSE
  /\ UNCHANGED <<signalVars, windowVars, refcnt, event, handling, history, mainVars>>

(* poll_on_close_() frees the poll.                                        *)
PollCloses ==
  /\ phase = "drain" /\ timer = "closing"
  /\ timer' = "closed"
  /\ UNCHANGED <<signalVars, windowVars, refcnt, polling, event, handling, history, mainVars>>

-----------------------------------------------------------------------------
(* main().                                                                 *)

LoopEnds ==
  /\ phase = "loop" /\ client = "idle" /\ ~polling
  /\ phase' = "unload"
  /\ UNCHANGED <<signalVars, windowVars, refcnt, pollVars, mainRef, client>>

Unload ==
  /\ phase = "unload" /\ mainRef
  /\ mainRef' = FALSE
  /\ Unref(UNCHANGED signalVars)
  /\ UNCHANGED <<windowVars, polling, event, handling, history, phase, client>>

(* All modules are unloaded, those that own windows included.  A timer     *)
(* that the module has not closed is closed without its callback.          *)
Walk ==
  /\ phase = "unload" /\ ~mainRef
  /\ \A w \in Win : win[w] # "open"
  /\ phase' = "drain"
  /\ timer' = IF timer = "closing" THEN "closing" ELSE "orphan"
  /\ UNCHANGED <<signalVars, windowVars, refcnt, polling, event, handling, history,
                 mainRef, client>>

Exit ==
  /\ phase = "drain" /\ timer # "closing"
  /\ phase' = "exit"
  /\ UNCHANGED <<signalVars, windowVars, refcnt, pollVars, mainRef, client>>

Terminated == (phase = "exit" \/ fault # "none") /\ UNCHANGED vars

-----------------------------------------------------------------------------
Client ==
  \/ \E w \in Win : WinInit(w) \/ WinInitNotHeard(w) \/ WinInitNotShown(w) \/ WinDeinit(w)
  \/ ClientIdle

Emission == Dispatch \/ Crash \/ EmitEnds \/ EventDone

Program == Load \/ LoopEnds \/ Unload \/ Walk \/ PollCloses \/ Exit

Next ==
  \/ Client \/ Emission \/ HandleReturns \/ Program \/ Terminated
  \/ PollFires \/ PollReturns
  \/ \E e \in WinId : PollEvent(e)

Spec == Init /\ [][Next]_vars

(* An emission goes on and handlers return; main() goes on, and the del of *)
(* every module that owns windows is called and gives them up.  SDL may    *)
(* have events for ever, but the queue is drained again and again.         *)
Fairness ==
  /\ WF_vars(Emission)
  /\ WF_vars(HandleReturns)
  /\ SF_vars(PollReturns)
  /\ WF_vars(Program)
  /\ \A w \in Win : WF_vars(phase = "unload" /\ WinDeinit(w))

FairSpec == Spec /\ Fairness

-----------------------------------------------------------------------------
(* Every variable has its type.                                            *)
TypeOK ==
  /\ Sig!TypeOK
  /\ win \in [Win -> {"none", "open", "failed"}]
  /\ id \in [Win -> WinId \cup {None}]
  /\ refcnt \in Nat
  /\ mainRef \in BOOLEAN
  /\ timer \in {"none", "started", "stopped", "closing", "orphan", "closed"}
  /\ polling \in BOOLEAN
  /\ event \in WinId \cup {None}
  /\ handling \in Win \cup {NULL}
  /\ due \in Win \cup {NULL}
  /\ strayed \in BOOLEAN
  /\ phase \in {"load", "loop", "unload", "drain", "exit"}
  /\ client \in {"active", "idle"}

OpenWindows == {w \in Win : win[w] = "open"}

(* The module's count is main()'s reference and one for each window that   *)
(* is open, whatever win_init() calls fail in between, and the module's    *)
(* signal and poll exist exactly as long as there is one.                  *)
OwnersCounted ==
  /\ refcnt = Cardinality(OpenWindows) + (IF mainRef THEN 1 ELSE 0)
  /\ live[Event] <=> refcnt > 0
  /\ timer \in {"started", "stopped"} <=> live[Event]

(* The receiver is part of the window's memory: an open window is          *)
(* subscribed, and no slot, not even in the middle of an emission, leads   *)
(* to a window that has been given up.                                     *)
SlotsAreWindows ==
  /\ \A w \in OpenWindows : attached[w] = Event
  /\ \A i \in DOMAIN recvs[Event] :
       recvs[Event][i] # NULL => win[recvs[Event][i]] # "none"

(* The slots that the emission has still to call.                          *)
ToCall == UNION {Sig!Ahead(stack[d]) : d \in DOMAIN stack}

(* The handler that handle_() calls is that of the window SDL meant the    *)
(* event for when it was taken from the queue, and is called once: not     *)
(* that of another window, nor that of a window which a handler has since  *)
(* made anew in the same memory and which this emission reaches too.       *)
HandlersAddressed ==
  [][handling' # handling /\ handling' # NULL => handling' = due]_vars

(* "Be careful, the handler may delete `this`" (win.c:123): it may.  Only  *)
(* a handler that has given up a window other than its own, or one it has  *)
(* made anew, leaves a hole that the emission has still to call.           *)
OwnWindowMayGo == (\E i \in ToCall : recvs[Event][i] = NULL) => strayed

(* main() keeps the module: the reference count it is given by             *)
(* nf7core_sdl2_new() is its own until it calls del.                       *)
ModuleKept == mainRef => refcnt > 0

(* What makes these inductive, for clients that do not clean up after a    *)
(* failed win_init().  Emissions are the poll's, one at a time, and there  *)
(* is an event as long as one is in progress.                              *)
EmissionsArePolls ==
  /\ stack # <<>> => Len(stack) = 1 /\ polling
  /\ stack # <<>> <=> event # None
  /\ inside => stack # <<>> /\ Sig!Top.pc = "inside" /\ due = NULL

(* No two windows have an id in common, and those that are nobody's have   *)
(* none.                                                                   *)
IdsDistinct ==
  /\ \A v, w \in Win : id[v] = id[w] /\ id[v] # None => v = w
  /\ \A w \in Win : win[w] = "none" => id[w] = None

(* Of the windows that the emission has still to call, the one the event   *)
(* is meant for is the only one that answers to its id.                    *)
OnlyDueAnswers ==
  \A i \in ToCall : \A w \in Win : recvs[Event][i] = w /\ Addressed(w) => w = due

(* Holes are made under the loop only, and dropped by the compaction.      *)
HolesAreDropped ==
  /\ emitting[Event] => stack # <<>> /\ Sig!Top.pc # "compact"
  /\ stack # <<>> /\ Sig!Top.pc = "compact" =>
       \A i \in 1 .. Sig!Top.kept : recvs[Event][i] # NULL
  /\ stack = <<>> => \A i \in DOMAIN recvs[Event] : recvs[Event][i] # NULL

(* The poll runs in the loop only, and there main() keeps the module.      *)
PhasesOrdered ==
  /\ polling => phase = "loop"
  /\ phase = "loop" => mainRef
  /\ phase = "load" => ~mainRef /\ OpenWindows = {}

WindowsInv ==
  /\ TypeOK
  /\ Sig!SubscriptionInv
  /\ OwnersCounted
  /\ SlotsAreWindows
  /\ OwnWindowMayGo
  /\ EmissionsArePolls
  /\ IdsDistinct
  /\ HolesAreDropped
  /\ OnlyDueAnswers
  /\ PhasesOrdered

(* The window that an event is meant for gets it: the emission reaches its *)
(* slot and its handler is called.                                         *)
EventReachesWindow ==
  \A w \in Win : due = w ~> handling = w

(* Unloading ends, and the last owner of the module takes the poll with    *)
(* it, in time for main() to let its timer close: the poll is freed.       *)
ShutdownCompletes == phase = "unload" ~> (phase = "exit" /\ timer = "closed")
=============================================================================
