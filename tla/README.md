# A verification project for nf7

nf7 is a small C runtime: one thread, one libuv loop, and modules that are loaded
at start, run inside the loop's callbacks and are unloaded in `main()`. There is no
preemption anywhere, so nothing here is about locks. What is hard is **re-entrance
and lifetime**: a callback calls back into the component that is calling it; an
object is closed in one loop iteration and freed in another; a buffer changes owner
in the middle of a chain of calls; modules are unloaded in the order they were
loaded, not in reverse. The project is about those.

## 1. Inventory

| component | state it keeps | operations | talks to | hard behaviour | what makes it correct |
|---|---|---|---|---|---|
| `util/malloc.h` | a count of live allocations | alloc, free, realloc | everyone | any allocation may fail | the count is 0 when `main()` returns |
| `util/array.h` | `n`, `ptr` | init, deinit, resize, insert, remove, find | signal, exec, buffer | realloc fails; any word as an index | elements survive an insertion, a removal, a failure; nothing outside of the block is touched |
| `util/refcnt.h`, `util/buffer.h` | a count; a byte array | ref, unref, new, clone | exec, any, lua | ownership passes with calls | count = number of owners |
| `util/signal.h` | the slots (receivers or null), the flag `emitting`; a receiver's pointer to its signal | init, deinit, emit, recv_set, recv_unset | sdl2, clients' callbacks | callbacks subscribe, unsubscribe and emit under the loop | slots and pointers agree; no hole is called; everybody subscribed is called once |
| `core/exec` | the registered ideas; an entity's idea and `on_recv` | register, find, entity new / send / recv / del | any, null, other modules | re-entrance through `on_recv`; unloaded first | every entity and buffer has one owner |
| `core/any` | an entity's sub-entity | create, forward, reply | exec | the client deletes the entity from the reply | the reply is true; the PIPE state is final |
| `core/null` | none | new, send, del | exec | `del_` reads the exec module | ownership as for any entity |
| `core/lua` | threads (Lua state, timer, count, base, stored arguments, state), pointers | thread new / resume, value pointers, timer and close callbacks | libuv, Lua, clients | two-phase deletion; `post_exec` resumes or releases the thread it is called for; release during unloading | counts are exact; nothing freed is referred to; what is scheduled runs |
| `core/sdl2` | the module's count, the poll's timer, the event signal; windows | poll, win_init, win_deinit, dispatch | signal, libuv, SDL | a handler deletes its window, or another, during the emission; a window outlives `main()`'s reference; partial `win_init` | an event is handled by the window it is meant for; no slot leads to a window that is gone; the count is exact |
| `core/init` | a factory and its idle handle | start, on_idle, on_close | exec, any, libuv | created in the loop, freed by a close callback or by unloading | freed exactly once |
| `core/test`, `test/` | the runner, its idle handle, the test's count | setup, run, teardown | every module, as the test cases do | failing setup; cases that go on after the run | whoever is last frees the runner |
| `main.c`, `core/all` | the loop and the array of loaded modules | load, run, unload, walk, run again | every module | handles left open are closed without a callback | after the second run nothing is open and nothing is leaked |
| `util/log.h`, `ansi.h`, `str.h` | none | formatting, comparing | everyone | - | - |

Third-party code (libuv, SDL2, Lua) appears only as what the code in `src/` relies
on: the order of a loop's callbacks, what `uv_close()` promises, what
`lua_resume()` can return.

## 2. Modules and plan

Written so far, in this order:

| module | models | extends |
|---|---|---|
| `Observer` | the contract of signals: subscriptions and rounds of calls | |
| `Signal` | `util/signal.h` on `util/array.h`; implements `Observer` | |
| `SignalProofs` | theorems about `Signal` under its contract | `Signal`, TLAPS |
| `SubscriptionProofs` | theorems about `Signal` with any client | `SignalProofs` |
| `Sieve` | sequences with an element left out, for `Observer` and `Signal` | |
| `ObserverProofs` | that `Signal` implements `Observer` | `SubscriptionProofs` |
| `LuaThread` | `core/lua` under the loop and the shutdown of `main.c` | |
| `LuaThreadProofs` | theorems about `LuaThread` | `LuaThread`, TLAPS |
| `Exec` | `core/exec`, `core/any`, `core/null`, counted buffers | |
| `ExecProofs` | theorems about `Exec` | `Exec`, TLAPS |
| `Sdl2` | `core/sdl2`: module, poll and windows; composed with `Signal` | (instances of `Signal`) |
| `Sdl2Proofs` | theorems about `Sdl2`, from those about `Signal` | `Sdl2`, TLAPS, (an instance of `SubscriptionProofs`) |
| `Array` | `util/array.h` over `util/malloc.h`, with the memory of `util/buffer.h` | |
| `ArrayProofs` | theorems about `Array` | `Array`, TLAPS |
| `Program` | `main.c`, `core/all`, `core/init`, `core/test`, loading and unloading of every module | |
| `ProgramProofs` | theorems about `Program` | `Program`, TLAPS |
| `MCSignal`, `MCLuaThread`, `MCExec`, `MCSdl2`, `MCArray`, `MCProgram` | symmetry sets and model values for TLC | the module they name |

`Program` abstracts the modules to the blocks and handles they have; `LuaThread`,
`Exec` and `Sdl2` each look closely at one of them, with as much of `main()` around
it as it meets. `Sdl2` is composed of instances of `Signal`, and `Signal` stands on
the arrays that `Array` looks into: a slot inserted or removed there is
`ArrayInsert` and `ArrayRemove` here.

Every invariant that a run checks is also a theorem, and so are the action
properties; each proof module extends the component's module, states an inductive
invariant there (`SafetyInv`, `SubscriptionInv`, `ObserverInv`, `EntityInv`, `BufferInv`,
`LuaInv`, `WindowsInv`, `ArrayInv`, `LifeInv`, all of them checked by TLC before they
were proved) and has one lemma for each action or group of actions that can disturb it.
The refinement of `Observer` by `Signal` is a theorem too, with `ObserverInv`. What
is left to TLC is liveness (section 10).

## 3. Signal

**State.** `live`, `emitting`, `recvs` are the fields of `nf7util_signal` (the last
with its array as a sequence, counted from 1); `attached[r]` is the receiver's
`signal` pointer. `stack` is the C stack as far as it matters: one frame for every
`nf7util_signal_emit()` in progress, with its program counter (`loop`, `inside` a
callback, `compact`), its index and, in the compaction, the number of slots kept.
`fault` records a null receiver dereferenced by emit or deinit; the program is
over then.

**Actions.** Clients act when no emission is in progress or the innermost is inside
a callback: `SignalInit`, `Deinit`, `Emit`, `RecvSet` (with the unset it begins
with), `RecvSetFails` (the insertion fails), `RecvUnset`. The library's steps are
`Call`, `EndLoop`, `CompactSlot`, `Shrink`, and `CallHole`, `DeinitHole` for the
two loops that do not look at what they dereference; `Return` ends a callback. The
compaction is one action per slot because it works in place; that no callback
intervenes follows from `ClientTurn`. `emitting` is not written by init nor by
deinit: `Init` has it FALSE, as the zero-initialised structs of the callers do.

**Two switches.** `Contract` is the discipline the code needs of its clients: not to
detach a receiver an emission still has to call, nor to deinitialise a signal being
emitted. `Reentrant` lets a callback emit the signal that is calling it.

**Properties.** `SubscriptionConsistent` (pointers and slots agree at every step,
compactions included), `HolesOnlyDuringEmission`, `FlagTellsIteration`,
`NoNullDereference`, `SlotsPinned` (an action property: under a running loop slots
are only appended or emptied), `ObserverSpec` (refinement), `OwedIsCalled` and
`EmissionEnds` (liveness). The refinement maps the slots with holes removed to the
observer's subscriptions, and the slots ahead of a frame's index to what its round
owes; a compaction is a round that is over.

| run | constants | shows |
|---|---|---|
| `signal_contract` | 2 signals, 2 receivers, 4 slots, 2 nested emissions, Contract | the type and safety invariants, `SlotsPinned`, and both liveness properties |
| `signal_any_client` | 2 signals, 3 receivers, 5 slots, 2 nested emissions, no contract | pointers and slots agree, and the observer is implemented as far as the program goes |
| `signal_detach_pending` | 1 signal, 2 receivers, no contract | finding: the loop calls a hole |
| `signal_reentrant` | 1 signal, 2 receivers, Reentrant | finding: a receiver is skipped |

**Bounds.** Two receivers make a hole with a slot before or after it, and four slots
let both resubscribe under the loop, so that holes and fresh slots mix in one
compaction. The third receiver separates "the slot removed", "the slot being called"
and "the slot still to be called". Two signals and depth 2 give nested emissions and
a receiver that moves between signals. `MaxSlots` also stands for memory: it is
what makes emissions with a callback that resubscribes itself end at all.

**Fairness.** The library's steps follow one another without choice: weak fairness
of them all together. A callback is a function that returns after finitely many
calls: strong fairness of `Return(d)` for each depth, since a callback that emits
other signals is interrupted by frames above it. Clients are under no obligation.

**Proved** (`SignalProofs`, `SubscriptionProofs`, `ObserverProofs`), for any sets of signals and
receivers and any bounds:

* `TypeCorrect`: `Spec => []TypeOK`. Inductive only with `OnlyTopMoves` (frames
  under the top are inside callbacks) and `CompactsDownwards` (a compaction writes
  at or below where it reads, within the array): together `TypeInv`.
* With `Contract` and without `Reentrant`, `NeverDereferencesNull`
  (`[]NoNullDereference`), `HolesEndWithEmission` (`[]HolesOnlyDuringEmission`) and
  `FlagIsExact` (`[]FlagTellsIteration`). None of the three is inductive.
  `SafetyInv` adds: a signal has at most one emission (so that the flag is that
  emission's), no hole is ahead of a loop (so that it calls none), and none is among
  the slots a compaction has kept (so that none is left when it cuts the array).
* `LoopsKeepTheirPlace`: `Spec => SlotsPinned`, from `SafetyInv`: while a loop runs,
  the flag is set, so that an unset makes a hole; and no compaction runs under it.
* `PointersAndSlotsAgree`: `Spec => []SubscriptionConsistent`, with no assumption on
  the clients and with re-entrance. `SubscriptionInv` adds `TypeInv` and
  `DeadIsEmpty` (a signal that is not initialised has no slots). Outside of
  compactions the slots that count are all of them, and the proof is about arrays
  without repetition (`HoleDropsOne`, `RemovalDropsOne`, `AppendAddsOne`). Within one,
  `CompactionCarries` gives the injection from the slots that count after a step to
  those that counted before it.
* `ImplementsObserver`: without `Reentrant`, `Spec => ObserverSpec`, whatever the
  clients detach or deinitialise. `ObserverInv` is `SubscriptionInv`,
  `OneEmissionPerSignal` (so that a compaction is seen by no other loop),
  `FlagTellsIteration` (so that an unset under a loop makes a hole) and `LoopsWithin`
  (a loop is not past the end of the slots, so that what is appended is ahead of it).
  `Subs` and `Owed` are built from `Without`, which skips holes, and `Rest`, the slots
  from an index on. That a removed slot means what a hole means (`HoleIsRemoval`),
  that a hole takes the receiver out of what every loop owes (`WithoutHoles`,
  `RestHoled`) and that copying a receiver down or passing a hole changes nothing
  (`PassingKeeps`) are lemmas about sequences; `AllSequences` is the induction they
  rest on, over a set of sequences instead of a predicate. Then each action is one of
  the observer's (`SubscriptionsMove`, `DeinitDissolves`, `EmitBegins`,
  `CallDelivers`, `EndLoopFinishes`) or a stutter (`ReturnStutters`,
  `CompactSlotStutters`, `ShrinkStutters`, `SeesTheSame`). With `Reentrant` the
  theorem would be false: that is the run `signal_reentrant`.

## 4. LuaThread

**State.** Per thread: `hdl`, the state of its timer handle in libuv (idle, active,
closing, or closed by `main()` without a callback), and the fields `st`, `refcnt`,
`base`, `args`; `owner` is the thread whose Lua state the coroutine belongs to.
Per pointer: `pth` and `pref`. `held` and `pheld` are the references clients own, `running` the thread
inside `on_time_()`, `phase` where `main()` is.

**Actions.** `NewOwner`, `NewOwnerFails`, `NewChild` are `nf7core_lua_thread_new()`;
the abort path after `uv_timer_init()` also goes through the close callback.
`Resume` stores the arguments, references the pointers among them and starts the
timer. `OnTime` is `on_time_()` up to `lua_resume()`, `LuaReturns` what that returned,
then clients have the control inside `post_exec`, and `PostExecDone` is the rest.
`UnrefThreads` is the common tail of all releases: a thread that loses its last
reference has its timer closed (del_'s first half); `OnClose` is the second half,
which frees it and releases its base. `LoopEnds`, `UnloadLua`, `Walk`, `OrphanClosed`
and `Exit` are `main()`. Memory failing in `value_ptr_new` changes nothing and is
not an action. Lua values other than pointers are one value, NIL.

**Clients.** `client` says what keeps the loop running besides threads: "active"
clients do; they may become "idle" only when they hold nothing any more, or "late":
then they keep what they hold and release it while modules are unloaded, which for
threads still open happens before the walk. `NoFault` and `NoLeakAtExit` speak of
clients that are not late; counts and references have to be right for all. A base is
a thread that owns its Lua state or the thread whose `post_exec` is running, which
are the bases for which `lua_newthread()` does not disturb a pending function.

| run | constants | shows |
|---|---|---|
| `lua_contract` | main thread + 2, 1 pointer, 2 arguments, 2 references to each | counts, references, states and timers agree through unloading and the second loop; with clients that are not late no assertion fails and nothing leaks |
| `lua_live` | main thread + 2, 1 pointer, 1 argument, 1 reference to each | scheduled threads run, closed threads are freed |

**Bounds.** Three threads make a chain (main, base, child), two children of one base,
and a pointer into a thread other than the one it is passed to. Two argument slots
can hold one pointer twice, so that `on_time_()` releases two references at once; the
code's limit is 4. A thread identity is used once, a pointer's again and again.

**Fairness.** A loop iteration runs the timers that are due and then every close
callback: strong fairness of `OnTime(t) \/ OnClose(t)` for each thread, which other
callbacks interrupt. Scripts return, `post_exec` returns, `main()` goes on. Clients owe
nothing; in particular `ScheduledRuns` does not need them to hold anything.

**Proved** (`LuaThreadProofs`), for any finite sets of threads and pointers and any
bounds (`FiniteAssumption`: counts are cardinalities): `TypeCorrect`,
`ReferencesAreCounted` (`RefcntAccurate`), `NothingDangles` (`NoDangling`),
`StateTellsTimer` (`ScheduledPinned`), `NoAssertionFails` (`NoFault`) and
`NothingLeaksAtExit` (`NoLeakAtExit`). All follow from one invariant, `LuaInv`, since
each needs the others: that a count is right needs that who holds a reference is
not freed, and the other way round. Besides those properties it says

* `CountsTell`: a thread that is open has references, and one that is not there or on
  its way out has none; a pointer is there exactly as long as it has references;
* `ArgsScheduled`: arguments are stored only while the timer is started;
* `BasesGrounded`: threads that have a base are there, the main thread has none, and
  among any threads there is one that no other of them is based on: bases make no
  cycle of threads that keep one another;
* `PhasesOrdered`, `IdleLeavesMain`, `FaultsAreLate`: what `main()` has done by when;
  that clients which let go hold nothing, and after the loop leave the main thread
  only; and that the one assertion that can fail is a thread closed twice, in the
  second loop, with a late client.

The counts are sums of cardinalities (children, pointers, arguments, clients,
the main reference, the running callback). Each action's proof says by how much each
changes (`OneMoved`, `SlotsSplit`, `Accounts`, `ThreadBalance`); a leaf of
linear arithmetic then adds them up.

## 5. Exec

**State.** `ideas` is the registry. Per entity: `idea` ("none" while the address is
free), `sub`, `listens` (whether `on_recv` is set), and `roots`, the entities that
clients own. Per buffer: `content`, `refcnt`, and `held`, the references clients
own. `calls` holds the `send()` calls in progress: `via`, the entity the client
called; `ent`, the entity that has the buffer now; and the program counter.
Content is "empty", "FAIL" (any string that names no idea) or an idea's name.

**Actions.** Clients, outside all calls or in an `on_recv`: `Register`, `New`,
`Delete` (which deletes the chain below the entity), `NewBuffer`, `RefBuffer`,
`UnrefBuffer`, `Send` (which gives the reference away), `UnloadExec`. The library:
`Forward`, `NamesNothing`, `Create`, `CreateFails` (unknown name or no memory),
`Reply` (a new buffer goes to `on_recv`), `ReplyDropped` (no `on_recv`, or no memory),
`Exit`, and `NullSend`, which keeps the buffer for ever. `Return` ends an `on_recv`.
Sends end where modules start to be unloaded: deletions do not.

Forwarding is a tail call in the code, so one frame serves a whole chain. An
entity's address may be given again at once when it is free; a call that is past
its last use of the entity (`pc = "exit"`) still names it in the model, and
`FreeEntity` keeps that name unused so that frames are never ambiguous.

`lost` counts, for each buffer, the references given to entities of the idea null:
`send_()` in `null/idea.c:55` does not release what it is given, although the buffer
is its own by `exec/entity.h:55-56`, and nothing ever will. Nothing under `src/` but
a client that asks for that idea by name makes such an entity. `BuffersOwned` counts
those references as owners, so that it says how much is lost and that no other
reference is.

| run | constants | shows |
|---|---|---|
| `exec_chains` | 2 entities, 2 buffers, 2 references, depth 2, ideas any and null | buffers and entities owned exactly, no use after free, replies true, PIPE final, every call returns |
| `exec_pipe_replies` | 2 entities, 2 buffers, idea any | finding: replies of sub-entities are dropped |

`exec_chains` allows deadlock: lost buffers use up the identities there are.

**Bounds.** Two entities make a chain, or a root beside another; two buffers are the
one being handled and the reply to it, or one sent from within `on_recv`; two
references distinguish a count from a flag; depth 2 is a send from within a reply.

**Fairness.** As for `Signal`: the library goes on, an `on_recv` returns.

**Proved** (`ExecProofs`), for any sets of entities and buffers and any bounds:

* `TypeCorrect`: `Spec => []TypeOK`, by induction with `OnlyTopRuns` (only the
  innermost call is outside `on_recv`).
* `DeletionIsSafe` and `NoCallUsesDeleted`: `[]EntitiesOwned`, `[]NoUseAfterFree`.
  The two need each other and `OnlyTopRuns` (`EntityInv`): creation and deletion keep
  the ownership forest a forest because the entity that creates is still there, and a
  deletion from a callback harms no call because every call is then inside its own
  `on_recv`, after which it touches no entity. `Below` is defined as a least set
  rather than recursively; `BelowOwned` is the lemma that what it deletes is closed
  under `sub` both ways.
* `ReferencesAreOwned`: `[]BuffersOwned` (`BufferInv` is `EntityInv` with it). The calls that handle a buffer are counted
  as a cardinality; `HandlingPushed`, `HandlingPopped` and `HandlingKept` say how a
  step changes it.
* `AnswersAreTrue`: `[]RepliesAreTrue`, and `PipesStay`: `Spec => PipeIsFinal`, both
  from `EntityInv`: between the moment an answer is decided and the moment the client
  hears it, nobody but the library acts.

## 6. Sdl2

**Composition.** The module's `event_signal` is a `Signal` with one signal whose
receivers are the windows: `Sdl2` declares `Signal`'s variables and every step that
touches them is a conjunction with an action of the instance `Sig`. `Sig` is without
the contract: handlers may break it, and `Crash` is the emission that then calls
through a hole.

**State.** `win` per window ("failed" when `win_init()` returned false), `id` per
window (`win_id`; `None` is 0), `refcnt`, `event` (`nf7core_sdl2.event`, as the id it
carries), and of `main()` its reference and its phase; `timer` is the poll's,
`polling` that it is inside `poll_on_time_()`, `handling` the window whose handler is
running, `client` whether anything keeps the loop running: the poll's timer does not.
Two history variables are there for the properties: `due` is the open window that had
the event's id when the event was taken from the queue, until a handler is called for
it, and `strayed` that a handler of this emission has given up a window with another
id than the event's. No action is guarded by them.

**Actions.** Clients: `WinInit`, `WinInitNotHeard` (no memory for a slot),
`WinInitNotShown` (SDL fails; the receiver stays), `WinDeinit`, whose `Unref` is the
module's deletion when the count reaches 0. The poll: `PollFires`, `PollEvent` (any
id: that of a window, or nobody's), then `Dispatch` and `HandleReturns` for each
window, `EmitEnds` and `EventDone`, and `PollReturns`. `main()`: `Load`, `LoopEnds`,
`Unload`, `Walk`, `PollCloses`, `Exit`. `Dispatch` calls the handler exactly when the
window's id is the event's (`Addressed`, `win.c:111`). SDL numbers windows as it makes
them and uses no number twice; `WinId` is finite, so that an id counts as new when no
window has it and no event in progress carries it.

**Clients.** `win_deinit()` asks for nothing but a window: a handler may give up its
own, as the comment at `win.c:123` allows, or any other, open others, reuse the memory
at once and give that window up again in the same callback. Windows are given up when
modules are unloaded at the latest. `DeinitsFailed` is the habit of the test, to clean
up after a failed `win_init()`.

**Properties.** `OwnersCounted` and `SlotsAreWindows` relate the count, the slots and
the windows at every step, in the middle of an emission and of its compaction too.
`HandlersAddressed`: the handler that is called is that of the window the event was
meant for when it was taken, not of another one nor of one made since in the same
memory, and it is called once. `OwnWindowMayGo` is the comment's promise: a hole ahead of
the emission is there only if a handler gave up a window other than its own. The rest
is the finding `signal_detach_pending` seen from here: a handler that deinitialises
another window before that window's turn sends the emission through null.
`EventReachesWindow` and `ShutdownCompletes` are the two liveness properties.

| run | constants | shows |
|---|---|---|
| `sdl2_windows` | 3 windows, 3 ids, 4 slots | the count is exact, slots are windows, handlers get the events meant for them, a handler's own window may go, events reach their windows, shutdown frees the poll |
| `sdl2_failed_init` | 2 windows, DeinitsFailed | finding: the module is released once too often |

**Bounds.** Three windows are the one called, one before and one after it; the fourth
slot lets a window be opened anew under the loop that has its hole; three ids are one
for each window, and with fewer windows one more: for an event that is nobody's, or for
a window made in the memory of the one whose event is in progress. Every window goes
through any number of lives.

**Fairness.** Emissions go on and handlers return; `main()` goes on; modules release
their windows while unloading. `SDL_PollEvent()` is drained again and again (strong
fairness of `PollReturns`, whose guard each event interrupts): used for nothing but
that the loop can end. `EventReachesWindow` speaks of the window that is due: only its
handler runs in that emission, so that no handler before it can make a hole, although
handlers of earlier emissions may have given up any window.

**Proved** (`Sdl2Proofs`), for any finite set of windows (`FiniteAssumption`), any ids
and any number of slots, with `DeinitsFailed = FALSE`, without which the second of them
is false (see the finding): `TypeCorrect`, `OwnersAreCounted`, `SlotsLeadToWindows`,
`HandlersGetTheirEvents` (`Spec => HandlersAddressed`), `OwnWindowsMayGo`, and
`CrashesAreStrays`: every call through a hole comes after a handler has strayed.
Handlers are as free in the theorems as in the model. `WindowsInv` is the conjunction
of the invariants with the `SubscriptionInv` of the signal, `EmissionsArePolls` (one
emission at a time, and an event as long as there is one), `IdsDistinct`,
`OnlyDueAnswers` (of the windows that the emission has still to call, only the one the
event is meant for answers to its id: a new window's id is not the event's, and the one
that is due is called once), `HolesAreDropped` (holes are made under the loop only, and
the compaction keeps none) and `PhasesOrdered`.

The proof is modular. `S` is an instance of `SubscriptionProofs`; `StepIsSignals` shows
that every step is one of `Signal`, and `S!SubscriptionStep` then gives the signal's
half of the invariant (`SignalStep`) without looking at slots again. What a window's
coming and going does to the slots is in `InitAppends`, `DeinitDrops` and
`DeinitEmpties`; `CallsStep` follows the slots that the emission has still to call.
While a window is due no handler has run, so that nobody can have given it up; and the
last reference is never released under an emission, which only runs while `main()`
holds one.

## 7. Array

**State.** Per array, `n` as in the code, `size`, the bytes of the block at `ptr` (0
for `nullptr`), and `cells`, the elements that block has room for, of which owners see
the first `n`. `refs` is a buffer's count, and 1 for another array between init and
deinit. `count` is the allocator's; `overrun` records that an element outside its
block was read or written. Sizes are computed modulo 2^W as in the code, and what
the allocator grants (`granted`) is a choice, at most `Heap` bytes.

**Actions.** `Resize` is `PREFIX##_resize()` as a function from the array's state to
its new state, its result and the change of `count`; `ArrayResize`, `ArrayInsert`,
`ArrayRemove` and `FindAndRemove` are the operations around it, for elements of any
width. An insertion moves elements after it has resized, a removal before: both
`memmove()`s, and the `memcpy()` into a new buffer, are compared with the block they
work in (`Outside`). `BufferNew`, `BufferNewFromCstr`, `BufferClone`, `BufferRef` and
`BufferUnref` are `util/buffer.h`. `NewBuffer` has the structure allocated, then the
resize, and where that fails `FreedOnAbort`, the release at `buffer.h:48-50`; a
structure that cannot be allocated leaves nothing and is no step.

**Assumption.** `Heap + Width < 2^W`: no block fills the address space up to the
last element. Then no size wraps that the program computes from the length of an array
it has. `PREFIX##_resize()` does not check the multiplication, and with 2^60 or more
elements of 16 bytes it would wrap: `ArrayResize` is guarded with what its callers ask
for, lengths the array had before (`signal.h:67`), a few elements (`array.test.c`) or
bytes. Nothing here speaks of a size that wraps.

**Properties.** `InBounds`: no length passes its block, and no insertion, removal or
copy reaches outside of one, for any index. `CountExact`: the count main() takes for
leaks is the number of blocks and structures there are, after a creation that was
refused half way too. `ActsAsList`: every operation changes the contents as the
operation of sequences it stands for, from `SequencesExt`, or not at all, and a new
buffer holds zeros, its text, or what it is cloned from.

| run | constants | shows |
|---|---|---|
| `array` | 1 array of 2-byte elements, 2 buffers, words of 4 bits, blocks up to 6 bytes, texts of up to 1 | all four properties |

**Bounds.** Three elements have a first, a middle and a last one; the allocator
refuses the fourth, or any earlier, and any shrink. Lengths and indices asked for are
0, 1, 2 and 2^W - 1, the code's `UINT64_MAX`. An array shrunk in vain from 2 holds a
stale element that an extension must clear. A text of one byte is copied into a block
of one; longer contents get into buffers by `BufferClone`.

**Proved** (`ArrayProofs`), for any arrays and buffers, any width of elements, any word
and any largest block with `Heap + Width < Word`: `TypeCorrect`, `NoOverrun`
(`InBounds`), `CountIsExact` (`CountExact`) and `ArraysAreLists` (`Spec => ActsAsList`).
`ArrayInv` adds `BlocksMatch` to the three invariants: there are as many elements as fit
into the block, and what is not alive has no block. Of `Word`, which is 2^W, the
proofs use only that it is a natural number.
`Resized` is the lemma on `PREFIX##_resize()`, with the case that a shrink is refused;
`Insertion` and `TakingOut` follow the `memmove()`s element by element and show that
they end where the block does; `Making` is a new buffer with its abort path.

## 8. Program

**State.** `phase` and `at` are where `main()` is, `mods` is `nf7.mods`, `mem` the
blocks that are allocated (one for each module, and one for each of the registry's
array, the main Lua thread, the poll, the factory, the first entity, the test runner,
the threads of test cases and the block of the window test), `hdl` the state of each
handle in the loop, which lies in the block of the same name. An "idle" handle is open
and does not keep the loop running. `testRefs` is `nf7test.refcnt`, `sdl2Refs` is
`nf7core_sdl2.refcnt`, `factory` whether `nf7core_init` has one. `robbed` is a history
variable: the window test has released the reference that `main()` holds.

**Actions.** One load action per module and one per way it fails: `LoadExecFails`
and `LoadSdl2WithoutPoll` end the program, since the abort paths there use what is
not there (`exec/mod.c:40`, `sdl2/mod.c:67`; with assertions disabled the second is
as harmless as `LoadSdl2Fails`); `LoadLuaWithoutState` leaves a thread to its close
callback; `LoadTestWithoutRun` forgets the module's instance. Callbacks: `FactoryCreates`
and `FactoryFails`, the runner's (`RunTests...`, `RunClosed`), the test cases' and
`ThreadClosed`, `FactoryClosed`, `PollClosed`. `main()`: `LoopEnds`, the `Del` actions
in the order of loading, `UnloadsGone`, `Walk`, `Exit`.

**Test cases.** Most end inside `nf7test_run()`. Two kinds go on after it:

* Those that wait for a thread of core/lua (the constant `Script`; the repository has
  one, `thread.test.c:17-51`). Each has a thread based on the module's, which it leaves
  to the loop. `ScriptRuns` is `on_time_()`, whose `post_exec` releases the test;
  `ScriptClosed` is the close callback, which releases the base: when core/lua has been
  unloaded meanwhile, the last of them closes the module's thread.
* The test of windows (`win.test.c`). It allocates a block, references the test and
  opens a window, which references core/sdl2; its timer, in that block, expires
  (`WindowTimesOut`) or a CLOSE event arrives (`WindowCloseRequested`), either of which
  closes the timer; `WindowClosed`, the close callback, gives up the window, releases
  the test and frees the block.

The window test does three things that no property can promise away. If its
allocation fails it cleans up through null (`win.test.c:34-38, 63, 68`; fault "null").
If a CLOSE event arrives while its timer is closing, it closes the timer again, since
`timer.data` is cleared by the close callback only (68-70, 86; fault "again"). And if
`win_init()` fails, its cleanup releases a reference to core/sdl2 that it does not have
(46-48, 73): the module goes with `main()`'s reference, and `main()` then reads the
`del` of a module that is freed (`main.c:57`; `UnloadsGone`, fault "gone"). The program
ends with each of them.

**Properties.** `HandlesAlive`: a handle the loop has still to call is part of memory
that is allocated. `NoStaleUse`: after loading no callback and no `del_()` uses what is
freed, and no module closes a handle twice; the window test's own two deaths are named,
and `main()` meets a module that is gone only if it is core/sdl2 and the test has
released `main()`'s reference. `LeaksNothing`: what `main()` counts is nothing, but for
the instance of a core/test without a runner. With no client that keeps anything, the
walk finds no handle open: what it closes without a callback is the subject of
`LuaThread`. `MainReturns`: under the loop's fairness `main()` returns, which it would
not if one idle handle were left active; a program that has died is not asked to. There
is no abstract specification behind these: each is one sentence about the whole.

| run | constants | shows |
|---|---|---|
| `program_lifecycle` | 2 test cases that wait for a thread, and the window test | all of them, for every set of modules that load |

**Bounds.** The modules are those of `core/CMakeLists.txt`. Two cases beside the window
test, one more than there are, are enough for the runner's own handle to be the first,
one of the others or the last to release the test, and for a thread that is closed
while another is still based on the module's.

**Fairness.** `main()` goes on, and the loop goes on to the next callback there is:
weak fairness of each. The test cases' callbacks are among them: their timers have a
time at which they fire (0 and 3000 ms).

**Proved** (`ProgramProofs`), for any finite set of test cases that wait for a thread:
`TypeCorrect`, `OpenHandlesAreAlive` (`HandlesAlive`), `NothingStaleIsUsed`
(`NoStaleUse`) and `NothingLeaks` (`LeaksNothing`). No assumption is made on the window
test. `LifeInv` says for each handle and each block what the other's state is and in
which phases it is there: modules are loaded, and unloaded, in order (`LoadedInOrder`);
a block is there exactly while its module or a handle needs it (`BlocksOwned`), where
core/sdl2 is the exception once it was robbed; which handles can be there when
(`HandlesClosed`); and the two counts are the numbers of those that refer to the test
and to core/sdl2 (`ReferencesCounted`, `Sdl2Counted`). `HandlesAlive` is no more than a
consequence; it is not inductive, since nothing in it says who frees what.

## 9. Findings

Each is a run that TLC must find violated.

* `signal_detach_pending`: a callback that unsets a receiver after it in the array
  makes the running emission call a null pointer (`signal.h:51-54` against the
  comments at 57-58 and 82-83). The test `unset_while_emit` unsets a receiver that
  has been called already.
* `signal_reentrant`: emitting a signal from its own callback compacts the array
  under the outer loop, which skips a receiver (`signal.h:55-67` against 4-5).
* `exec_pipe_replies`: `any/idea.c:71` against `any/mod.h:13-14`.
* `sdl2_failed_init`: `win_deinit()` releases the module although a `win_init()` that
  failed has not taken it (`win.c:83` against `win.c:68`); the test's cleanup,
  `win.test.c:46-48` and 73, calls it then, and the module goes under `main()`. What
  that leads to when modules are unloaded is in `Program` (`UnloadsGone`).

Of the defects that no document contradicts, `Exec` has the lost buffers of the idea
null and `Program` the two abort paths that crash, the instance that core/test
forgets and what the window test does to itself (section 8): they are in the models as the code has them, and the properties say what
holds besides.

## 10. What is only model-checked, and what is not modelled

Model-checked only: liveness under fairness (`OwedIsCalled`, `EmissionEnds`,
`ScheduledRuns` and the other leads-to properties), which the prover's backends do not
do. The theorems about `Sdl2` are for clients that do not deinitialise a window after a
failed `win_init()`, those about holes in `Signal` for clients that keep its contract,
the refinement for clients that do not emit a signal from its own callback, and the
last two about `LuaThread` speak of clients that are not late. What happens to the
first three otherwise, violation runs of section 9 show.

Not modelled: what Lua code computes, garbage collection, and what is on the Lua
stacks; the atomicity of the allocator's count (everything that uses it runs in one
thread); logging, escape sequences and string comparison; SDL and OpenGL calls; the
test cases that end where they begin; a client that frees the memory of a window that
failed to open, with its receiver still subscribed; build files.
