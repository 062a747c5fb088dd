-------------------------------- MODULE Program --------------------------------
(***************************************************************************)
(* main.c and the life of the modules core/all loads: what each of them    *)
(* has allocated and which handles it has in the libuv loop, from loading, *)
(* which may fail at every allocation, through the first loop, unloading,  *)
(* the walk over the handles that remain and the second loop, to the       *)
(* count of leaked blocks.                                                 *)
(*                                                                         *)
(* A module is abstracted to its blocks and handles.  What its clients do  *)
(* with it is the subject of LuaThread, Exec and Sdl2; here the clients    *)
(* are core/init, which makes the first entity, and core/test, which runs  *)
(* the test cases.  Two kinds of them go on after nf7test_run() has        *)
(* returned: those of core/lua that wait for a thread, of which the        *)
(* repository has one, and the one of core/sdl2, which opens a window.     *)
(***************************************************************************)
EXTENDS Integers, Sequences, FiniteSets, SequencesExt

CONSTANT Script   \* the test cases that schedule a thread of core/lua

Order == <<"exec", "any", "lua", "null", "sdl2", "init", "test">>

(* Each handle lies in a block of its name: that of the module's thread,   *)
(* of a case's thread, or of the window test, say.                         *)
Handle == {"thread", "poll", "factory", "run", "win"} \cup Script
Block == ToSet(Order) \cup {"ideas", "entity"} \cup Handle

ASSUME ScriptAssumption ==
  /\ IsFiniteSet(Script)
  /\ Script \cap (ToSet(Order) \cup {"ideas", "entity", "thread", "poll", "factory",
                                     "run", "win"}) = {}

VARIABLES
  phase,     \* where main() is
  at,        \* the place in Order, or in mods, that main() has come to
  mods,      \* nf7.mods
  mem,       \* the blocks that nf7util_malloc counts
  hdl,       \* the state of each handle
  factory,   \* nf7core_init.factory is not nullptr
  testRefs,  \* nf7test.refcnt
  sdl2Refs,  \* nf7core_sdl2.refcnt
  robbed,    \* history: the window test has released main()'s reference
  fault      \* what the program died of, or used after it was freed

counts == <<testRefs, sdl2Refs, robbed>>

vars == <<phase, at, mods, mem, hdl, factory, counts, fault>>

(* An open handle is active while it keeps the loop running; the idle ones *)
(* include the poll's timer, which is unreferenced.  An orphan was closed  *)
(* by main(), without a callback.                                          *)
HandleState == {"none", "idle", "active", "closing", "orphan", "gone"}
Open == {"idle", "active"}

Init ==
  /\ phase = "start"
  /\ at = 1
  /\ mods = <<>>
  /\ mem = {}
  /\ hdl = [h \in Handle |-> "none"]
  /\ factory = FALSE
  /\ testRefs = 0
  /\ sdl2Refs = 0
  /\ robbed = FALSE
  /\ fault = "none"

Started ==
  /\ phase = "start"
  /\ phase' \in {"load", "exit"}      \* uv_loop_init() may fail
  /\ UNCHANGED <<at, mods, mem, hdl, factory, counts, fault>>

Becomes(H, state) == [h \in Handle |-> IF h \in H THEN state ELSE hdl[h]]

-----------------------------------------------------------------------------
(* Loading, in the order of core/CMakeLists.txt.                           *)

Loading(m) ==
  /\ fault = "none" /\ phase = "load"
  /\ at <= Len(Order) /\ Order[at] = m
  /\ at' = at + 1
  /\ UNCHANGED phase

Loaded(m, blocks) ==
  /\ Loading(m)
  /\ mods' = Append(mods, m)
  /\ mem' = mem \cup blocks
  /\ UNCHANGED fault

(* The module is not there, and "left" is what its abort path leaves.      *)
NotLoaded(m, left) ==
  /\ Loading(m)
  /\ mem' = mem \cup left
  /\ UNCHANGED <<mods, factory, counts, fault>>

(* The abort path is an invalid access, or a failed assertion.             *)
Dies(m) ==
  /\ Loading(m)
  /\ fault' = m
  /\ UNCHANGED <<mods, mem, hdl, factory, counts>>

(* nf7_get_mod_by_meta().                                                  *)
Finds(m) == m \in ToSet(mods)

LoadExec == Loaded("exec", {"exec"}) /\ UNCHANGED <<hdl, factory, counts>>

(* del_(nullptr).                                                          *)
LoadExecFails == Dies("exec")

(* The registry's array comes to be with the first idea in it.             *)
LoadAny ==
  /\ Finds("exec")
  /\ Loaded("any", {"any", "ideas"})
  /\ UNCHANGED <<hdl, factory, counts>>

LoadAnyFails == NotLoaded("any", {}) /\ UNCHANGED hdl

LoadLua ==
  /\ Loaded("lua", {"lua", "thread"})
  /\ hdl' = Becomes({"thread"}, "idle")
  /\ UNCHANGED <<factory, counts>>

LoadLuaFails == NotLoaded("lua", {}) /\ UNCHANGED hdl

(* lua_newstate() fails: the thread is freed by its close callback, long   *)
(* after the module is.                                                    *)
LoadLuaWithoutState ==
  NotLoaded("lua", {"thread"}) /\ hdl' = Becomes({"thread"}, "closing")

LoadNull == Loaded("null", {"null"}) /\ UNCHANGED <<hdl, factory, counts>>

LoadNullFails == NotLoaded("null", {}) /\ UNCHANGED hdl

LoadSdl2 ==
  /\ Loaded("sdl2", {"sdl2", "poll"})
  /\ hdl' = Becomes({"poll"}, "idle")
  /\ sdl2Refs' = 1
  /\ UNCHANGED <<factory, testRefs, robbed>>

(* SDL_Init() fails, or the module's allocation does.                      *)
LoadSdl2Fails == NotLoaded("sdl2", {}) /\ UNCHANGED hdl

(* del_() deinitialises event_signal, whose array has no allocator yet.    *)
LoadSdl2WithoutPoll == Dies("sdl2")

(* factory_new_() starts an idle handle at once.                           *)
LoadInit ==
  /\ Loaded("init", {"init", "factory"})
  /\ hdl' = Becomes({"factory"}, "active")
  /\ factory' = TRUE
  /\ UNCHANGED counts

LoadInitFails == NotLoaded("init", {}) /\ UNCHANGED hdl

(* A careless variant: the runner does not reference itself.               *)
NoReference == 0

FirstReference == 1

(* run_trigger_setup_() starts an idle handle too.                         *)
LoadTest ==
  /\ Loaded("test", {"test", "run"})
  /\ hdl' = Becomes({"run"}, "active")
  /\ testRefs' = FirstReference
  /\ UNCHANGED <<factory, sdl2Refs, robbed>>

LoadTestFails == NotLoaded("test", {}) /\ UNCHANGED hdl

(* The runner cannot be set up: the module's instance is forgotten.        *)
LoadTestWithoutRun == NotLoaded("test", {"test"}) /\ UNCHANGED hdl

LoadingDone ==
  /\ fault = "none" /\ phase = "load" /\ at > Len(Order)
  /\ phase' = "loop"
  /\ UNCHANGED <<at, mods, mem, hdl, factory, counts, fault>>

-----------------------------------------------------------------------------
(* The loop.                                                               *)

LoopTurn == fault = "none" /\ phase \in {"loop", "drain"}

(* A careless variant: start_() does not forget the factory it deletes.    *)
FactoryKept == factory

FactoryForgotten == FALSE

(* factory_on_idle_() makes an entity of the idea any; start_() keeps it,  *)
(* sends it an empty buffer, or none if there is no memory, and deletes    *)
(* the factory from within its own callback.  nf7.mods goes on to name     *)
(* modules that have been unloaded.                                        *)
FactoryCreates ==
  /\ LoopTurn /\ hdl["factory"] = "active"
  /\ Finds("exec") /\ Finds("any")
  /\ mem' = mem \cup {"entity"}
  /\ factory' = FactoryForgotten
  /\ hdl' = Becomes({"factory"}, "closing")
  /\ fault' = IF {"exec", "ideas", "init"} \subseteq mem THEN "none" ELSE "stale"
  /\ UNCHANGED <<phase, at, mods, counts>>

(* A careless variant: an early exit leaves the handle active.             *)
StillIdling == hdl

IdleStopped == Becomes({"factory"}, "idle")

(* There is no registry, no such idea in it, or no memory: the factory     *)
(* stays, and does nothing any more.                                       *)
FactoryFails ==
  /\ LoopTurn /\ hdl["factory"] = "active"
  /\ hdl' = IdleStopped
  /\ UNCHANGED <<phase, at, mods, mem, factory, counts, fault>>

(* The test cases, in run_trigger_().                                      *)

(* nf7core_sdl2_unref() frees the module when its reference is the last,   *)
(* and closes the handle of the poll.                                      *)
Sdl2Lost == IF sdl2Refs = 1 THEN {"sdl2"} ELSE {}
PollLost == IF sdl2Refs = 1 THEN {"poll"} ELSE {}

(* run_cancel_() closes the runner's handle when every case has run.  The  *)
(* cases that go on reference the test; "lost" is closed by one of them.   *)
TestsTriggered(goOn, lost) ==
  /\ LoopTurn /\ hdl["run"] = "active"
  /\ goOn \cap Script # {} => Finds("lua")
  /\ testRefs' = testRefs + Cardinality(goOn)
  /\ hdl' = [h \in Handle |-> IF h \in {"run"} \cup lost THEN "closing"
                              ELSE IF h \in goOn THEN "active" ELSE hdl[h]]
  /\ UNCHANGED <<phase, at, mods, factory, fault>>

(* The window test fails at once if there is no core/sdl2.                 *)
RunTests(scripts) ==
  /\ ~Finds("sdl2")
  /\ TestsTriggered(scripts, {})
  /\ mem' = mem \cup scripts
  /\ UNCHANGED <<sdl2Refs, robbed>>

(* It opens its window, which references the module.                       *)
RunTestsOpeningWindow(scripts) ==
  /\ Finds("sdl2")
  /\ TestsTriggered(scripts \cup {"win"}, {})
  /\ mem' = mem \cup scripts \cup {"win"}
  /\ sdl2Refs' = sdl2Refs + 1
  /\ UNCHANGED robbed

(* win_init() fails and references nothing; finalize_() deinitialises the  *)
(* window all the same, and what it releases is main()'s reference.        *)
RunTestsFailingWindow(scripts) ==
  /\ Finds("sdl2")
  /\ TestsTriggered(scripts, PollLost)
  /\ mem' = (mem \cup scripts) \ Sdl2Lost
  /\ sdl2Refs' = sdl2Refs - 1
  /\ robbed' = TRUE

(* There is no memory for the window test, which finalizes nullptr.        *)
RunTestsWithoutMemory ==
  /\ LoopTurn /\ hdl["run"] = "active" /\ Finds("sdl2")
  /\ fault' = "null"
  /\ UNCHANGED <<phase, at, mods, mem, hdl, factory, counts>>

(* A careless variant: the runner is freed with its own handle.            *)
LastReferenceAny == TRUE

LastReference == testRefs = 1

(* nf7test_unref(): run_finalize_() frees the runner.  "freed" goes in the *)
(* same callback, which uses what is in "used".                            *)
TestUnref(freed, used) ==
  /\ testRefs' = testRefs - 1
  /\ mem' = mem \ (freed \cup IF LastReference THEN {"run"} ELSE {})
  /\ fault' = IF {"run"} \cup used \subseteq mem THEN "none" ELSE "stale"

RunClosed ==
  /\ LoopTurn /\ hdl["run"] = "closing"
  /\ hdl' = Becomes({"run"}, "gone")
  /\ TestUnref({}, {})
  /\ UNCHANGED <<phase, at, mods, factory, sdl2Refs, robbed>>

(* on_time_() of a case's thread: post_exec releases the test, and the     *)
(* thread is released, by now for the last time.                           *)
ScriptRuns(s) ==
  /\ LoopTurn /\ hdl[s] = "active"
  /\ hdl' = Becomes({s}, "closing")
  /\ TestUnref({}, {"thread", s})
  /\ UNCHANGED <<phase, at, mods, factory, sdl2Refs, robbed>>

(* on_close_() of it releases the module's thread, which it is based on.   *)
ScriptClosed(s) ==
  /\ LoopTurn /\ hdl[s] = "closing"
  /\ LET base == IF "lua" \notin mem /\ mem \cap Script = {s} THEN {"thread"} ELSE {}
     IN  hdl' = [h \in Handle |-> IF h = s THEN "gone"
                                 ELSE IF h \in base THEN "closing" ELSE hdl[h]]
  /\ mem' = mem \ {s}
  /\ fault' = IF "thread" \in mem THEN "none" ELSE "stale"
  /\ UNCHANGED <<phase, at, mods, factory, counts>>

(* finalize_() of the window test: uv_close() asserts that the handle is   *)
(* not closing already.                                                    *)
FinalizeWindow ==
  /\ hdl' = Becomes({"win"}, "closing")
  /\ fault' = IF hdl["win"] \in Open THEN "none" ELSE "again"
  /\ UNCHANGED <<phase, at, mods, mem, factory, counts>>

WindowTimesOut == LoopTurn /\ hdl["win"] = "active" /\ FinalizeWindow

(* The poll's timer goes on while the window is there, closing or not.     *)
WindowCloseRequested ==
  /\ LoopTurn /\ hdl["poll"] = "idle" /\ hdl["win"] \in {"active", "closing"}
  /\ FinalizeWindow

(* on_close_(): win_deinit() releases the module.                          *)
WindowClosed ==
  /\ LoopTurn /\ hdl["win"] = "closing"
  /\ hdl' = [h \in Handle |-> IF h = "win" THEN "gone"
                              ELSE IF h \in PollLost THEN "closing" ELSE hdl[h]]
  /\ sdl2Refs' = sdl2Refs - 1
  /\ TestUnref({"win"} \cup Sdl2Lost, {"sdl2"})
  /\ UNCHANGED <<phase, at, mods, factory, robbed>>

(* The close callbacks that free what the handle is part of, and no more:  *)
(* on_close_() of the module's thread, factory_on_close_(),                *)
(* poll_on_close_().                                                       *)
Closed(h) ==
  /\ LoopTurn /\ hdl[h] = "closing"
  /\ hdl' = Becomes({h}, "gone")
  /\ mem' = mem \ {h}
  /\ UNCHANGED <<phase, at, mods, factory, counts, fault>>

ThreadClosed == Closed("thread")
FactoryClosed == Closed("factory")
PollClosed == Closed("poll")

(* uv_run() returns when no handle is active or closing.                   *)
LoopEnds ==
  /\ LoopTurn /\ phase = "loop"
  /\ \A h \in Handle : hdl[h] \notin {"active", "closing"}
  /\ phase' = "unload" /\ at' = 1
  /\ UNCHANGED <<mods, mem, hdl, factory, counts, fault>>

-----------------------------------------------------------------------------
(* Unloading, in the order of loading.                                     *)

Unloading(m, blocks) ==
  /\ fault = "none" /\ phase = "unload"
  /\ at <= Len(mods) /\ mods[at] = m /\ m \in mem
  /\ at' = at + 1
  /\ mem' = mem \ blocks
  /\ UNCHANGED <<phase, mods, testRefs, robbed>>

(* main() reads its del() in a module that has been freed.                 *)
UnloadsGone ==
  /\ fault = "none" /\ phase = "unload"
  /\ at <= Len(mods) /\ mods[at] \notin mem
  /\ fault' = "gone"
  /\ UNCHANGED <<phase, at, mods, mem, hdl, factory, counts>>

(* uv_close() of every handle in H.                                        *)
Close(H) ==
  /\ hdl' = Becomes(H, "closing")
  /\ fault' = IF \A h \in H : hdl[h] \in Open THEN "none" ELSE "double_close"

DelExec ==
  Unloading("exec", {"exec", "ideas"}) /\ UNCHANGED <<hdl, factory, sdl2Refs, fault>>

DelAny == Unloading("any", {"any"}) /\ UNCHANGED <<hdl, factory, sdl2Refs, fault>>

(* The module's thread goes on for the threads that are based on it.       *)
DelLua ==
  /\ Unloading("lua", {"lua"})
  /\ Close(IF mem \cap Script = {} THEN {"thread"} ELSE {})
  /\ UNCHANGED <<factory, sdl2Refs>>

DelNull == Unloading("null", {"null"}) /\ UNCHANGED <<hdl, factory, sdl2Refs, fault>>

DelSdl2 ==
  /\ Unloading("sdl2", Sdl2Lost)
  /\ Close(PollLost)
  /\ sdl2Refs' = sdl2Refs - 1
  /\ UNCHANGED factory

(* A careless variant: the entity is not deleted.                          *)
InitBlocksOnly == {"init"}

InitBlocks == {"init", "entity"}

(* The factory is deleted if it has not made its entity.                   *)
DelInit ==
  /\ Unloading("init", InitBlocks)
  /\ Close(IF factory THEN {"factory"} ELSE {})
  /\ factory' = FALSE
  /\ UNCHANGED sdl2Refs

DelTest == Unloading("test", {"test"}) /\ UNCHANGED <<hdl, factory, sdl2Refs, fault>>

Walk ==
  /\ fault = "none" /\ phase = "unload" /\ at > Len(mods)
  /\ phase' = "drain"
  /\ hdl' = [h \in Handle |-> IF hdl[h] \in Open THEN "orphan" ELSE hdl[h]]
  /\ UNCHANGED <<at, mods, mem, factory, counts, fault>>

(* The second uv_run() returns, and main() counts what is left in mem.     *)
Exit ==
  /\ LoopTurn /\ phase = "drain"
  /\ \A h \in Handle : hdl[h] # "closing"
  /\ phase' = "exit"
  /\ UNCHANGED <<at, mods, mem, hdl, factory, counts, fault>>

Terminated == (phase = "exit" \/ fault # "none") /\ UNCHANGED vars

-----------------------------------------------------------------------------
Load ==
  \/ LoadExec \/ LoadAny \/ LoadLua \/ LoadNull \/ LoadSdl2 \/ LoadInit \/ LoadTest
  \/ LoadExecFails \/ LoadAnyFails \/ LoadNullFails \/ LoadInitFails
  \/ LoadLuaFails \/ LoadLuaWithoutState \/ LoadSdl2Fails \/ LoadSdl2WithoutPoll
  \/ LoadTestFails \/ LoadTestWithoutRun

Callback ==
  \/ FactoryCreates \/ FactoryFails
  \/ \E scripts \in SUBSET Script :
        RunTests(scripts) \/ RunTestsOpeningWindow(scripts) \/ RunTestsFailingWindow(scripts)
  \/ RunTestsWithoutMemory
  \/ \E s \in Script : ScriptRuns(s) \/ ScriptClosed(s)
  \/ WindowTimesOut \/ WindowCloseRequested \/ WindowClosed
  \/ RunClosed \/ ThreadClosed \/ FactoryClosed \/ PollClosed

Unload ==
  \/ DelExec \/ DelAny \/ DelLua \/ DelNull \/ DelSdl2 \/ DelInit \/ DelTest
  \/ UnloadsGone

Main == Started \/ Load \/ LoadingDone \/ LoopEnds \/ Unload \/ Walk \/ Exit

Next == Main \/ Callback \/ Terminated

Spec == Init /\ [][Next]_vars

(* main() goes on, and the loop goes on to the next callback there is:     *)
(* every timer that is waited for has a time at which it fires.            *)
Fairness == WF_vars(Main) /\ WF_vars(Callback)

FairSpec == Spec /\ Fairness

-----------------------------------------------------------------------------
(* Every variable has its type; the two counts, which are unsigned, do not *)
(* go below zero, whichever of their owners is the last.                   *)
TypeOK ==
  /\ phase \in {"start", "load", "loop", "unload", "drain", "exit"}
  /\ at \in 1 .. (Len(Order) + 1)
  /\ mods \in Seq(ToSet(Order))
  /\ mem \subseteq Block
  /\ hdl \in [Handle -> HandleState]
  /\ factory \in BOOLEAN
  /\ testRefs \in Nat
  /\ sdl2Refs \in Nat
  /\ robbed \in BOOLEAN
  /\ fault \in {"none", "exec", "sdl2", "null", "stale", "again", "gone", "double_close"}

(* A handle the loop still has to call, if only to tell that it is closed, *)
(* lies in a block that has not been freed, although who frees the block   *)
(* is not always who closed the handle: the runner's goes with the last    *)
(* case that references the test, the module's thread with the last        *)
(* thread based on it, the poll's with the last window.                    *)
HandlesAlive == \A h \in Handle : hdl[h] \in Open \cup {"closing"} => h \in mem

(* Once loading has come to its end, whatever failed in it, no callback    *)
(* and no del_() uses what has been freed, and none closes a handle twice, *)
(* although exec goes before everything that was made from it.  It takes   *)
(* the window test to break that: main() unloads a module that is gone     *)
(* only if it is core/sdl2 and the test has released main()'s reference;   *)
(* "null" and "again" are the test's own two deaths.                       *)
NoStaleUse ==
  phase # "load" =>
    /\ fault \in {"none", "null", "again", "gone"}
    /\ fault = "gone" => robbed /\ mods[at] = "sdl2"

(* main() finds no leak, whatever allocations failed: only core/test's own *)
(* instance is forgotten, when its runner could not be made.               *)
LeaksNothing == phase = "exit" => mem \subseteq {"test"} \ ToSet(mods)

(* What makes these inductive.  Modules are loaded at most once, and in    *)
(* their order; Pending(m): m has been loaded and not yet unloaded.        *)
Pending(m) ==
  \E j \in DOMAIN mods :
     mods[j] = m /\ (phase \in {"load", "loop"} \/ (phase = "unload" /\ j >= at))

LoadedInOrder ==
  /\ Len(mods) < Len(Order) + 1
  /\ phase = "start" => mods = <<>> /\ mem = {}
  /\ phase = "load" => /\ Len(mods) < at
                       /\ \A j \in DOMAIN mods :
                            \E k \in 1 .. (at - 1) : mods[j] = Order[k]
  /\ \A i, j \in DOMAIN mods : mods[i] = mods[j] => i = j

(* A block there is belongs to a module to be unloaded, or has a handle    *)
(* that is to be closed.                                                   *)
BlocksOwned ==
  /\ \A m \in ToSet(Order) \ {"test", "sdl2"} : m \in mem <=> Pending(m)
  /\ "sdl2" \in mem <=> Pending("sdl2") /\ ~robbed
  /\ "test" \in mem => Pending("test") \/ ~Finds("test")
  /\ Pending("test") => "test" \in mem
  /\ "ideas" \in mem => Pending("exec")
  /\ Finds("any") /\ phase \in {"load", "loop"} => "ideas" \in mem
  /\ "entity" \in mem => Pending("init")
  /\ \A h \in Handle \ {"run"} : h \in mem <=> hdl[h] \in Open \cup {"closing"}
  /\ "run" \in mem <=> testRefs > 0

(* Each owner of an open handle closes it when it is unloaded, and nothing *)
(* is active or, but for what unloading closes, closing after the loop.    *)
HandlesClosed ==
  /\ hdl["thread"] \in {"none", "idle", "closing", "gone"}
  /\ hdl["thread"] = "idle" <=> Pending("lua")
  /\ hdl["poll"] \in {"none", "idle", "closing", "gone"}
  /\ hdl["poll"] = "idle" <=> "sdl2" \in mem
  /\ hdl["factory"] # "orphan"
  /\ hdl["factory"] \in Open <=> factory
  /\ factory => Pending("init")
  /\ phase \notin {"load", "loop"} => hdl["factory"] # "active"

(* The runner is referenced by its own handle and the window test's until  *)
(* they are closed, and by the cases of core/lua until they have run.      *)
Referring ==
  {h \in {"run", "win"} : hdl[h] \in {"active", "closing"}}
  \cup {s \in Script : hdl[s] = "active"}

Referrers == Script \cup {"run", "win"}

ReferencesCounted ==
  /\ testRefs = Cardinality(Referring)
  /\ \A h \in Referrers : hdl[h] \in {"none", "active", "closing", "gone"}
  /\ phase \in {"start", "load"} \/ hdl["run"] = "active" =>
       \A h \in Script \cup {"win"} : hdl[h] = "none"
  /\ \A s \in Script : hdl[s] \in {"active", "closing"} => Finds("lua")
  /\ phase \notin {"load", "loop"} => \A h \in Referrers : hdl[h] \in {"none", "gone"}

(* core/sdl2 is referenced by main(), unless it was robbed of that, and by *)
(* the window.                                                             *)
Sdl2Counted ==
  /\ sdl2Refs = (IF "sdl2" \in mem THEN 1 ELSE 0) + (IF "win" \in Referring THEN 1 ELSE 0)
  /\ "win" \in Referring => "sdl2" \in mem
  /\ phase \in {"start", "load"} \/ hdl["run"] = "active" => ~robbed

LifeInv ==
  /\ TypeOK /\ LoadedInOrder /\ BlocksOwned /\ HandlesClosed
  /\ ReferencesCounted /\ Sdl2Counted /\ NoStaleUse /\ LeaksNothing

(* main() returns: each idle handle stops itself in its callback, no       *)
(* module keeps the loop running, and unloading leaves the second loop no  *)
(* handle that does.                                                       *)
MainReturns == <>(phase = "exit" \/ fault # "none")
=============================================================================
