------------------------------- MODULE LuaThread -------------------------------
(***************************************************************************)
(* core/lua: the life of nf7core_lua_thread and nf7core_lua_value_ptr,     *)
(* from the first reference to the close callback of the thread's timer,   *)
(* under the libuv loop and the shutdown sequence of main.c.               *)
(*                                                                         *)
(* A thread is a Lua coroutine and a uv_timer_t in one counted object.     *)
(* Resuming it only starts the timer; the coroutine runs when the loop     *)
(* fires it.  Releasing the last reference only closes the timer; the      *)
(* object goes when the loop calls the close callback.  Between those      *)
(* steps, clients run: in other callbacks of the loop, and in the          *)
(* post_exec callback of the thread that has just run.                     *)
(*                                                                         *)
(* A thread or a pointer is an identity the client can be given; a thread  *)
(* identity is used once, so Thread bounds the threads ever created.  Lua  *)
(* values other than pointers are NIL.                                     *)
(***************************************************************************)
EXTENDS Integers, Sequences, FiniteSets, SequencesExt

CONSTANTS
  Thread, Ptr,
  Main,          \* mod->thread, the owner of the module's Lua state
  None, NIL,
  MaxArgs,       \* NF7CORE_LUA_THREAD_MAX_ARGS
  MaxHeld        \* bound: references a client takes to one object

ASSUME FiniteAssumption == IsFiniteSet(Thread) /\ IsFiniteSet(Ptr)
ASSUME MainAssumption == Main \in Thread
ASSUME NoneAssumption == None \notin Thread \cup Ptr /\ NIL \notin Ptr
ASSUME BoundAssumption == MaxArgs \in Nat /\ MaxHeld \in Nat

VARIABLES
  hdl,        \* hdl[t]: the state of the thread's timer handle, see Handle
  st,         \* st[t]: nf7core_lua_thread.state
  refcnt,     \* refcnt[t]: nf7core_lua_thread.refcnt
  base,       \* base[t]: nf7core_lua_thread.base
  owner,      \* owner[t]: the thread whose Lua state t's coroutine is part of
  args,       \* args[t]: the values stored by resume, to be pushed on_time_
  pth,        \* pth[p]: nf7core_lua_value_ptr.thread, None when p is free
  pref,       \* pref[p]: nf7core_lua_value_ptr.refcnt
  held,       \* held[t]: references to t that clients hold
  pheld,      \* pheld[p]: references to p that clients hold
  running,    \* the thread inside on_time_(), or None
  phase,      \* where main() is
  client,     \* clients are "active" while they have handles of their own
              \* in the loop, then "idle" if they have let go of all they
              \* held, and "late" if they do so only when they are unloaded
  modRef,     \* whether the module holds its reference to Main
  fault       \* the assertion that has failed: none, uv_close() of a handle
              \* already closing, or unref of an object without references

threadVars == <<hdl, st, refcnt, base, owner, args, held>>
ptrVars == <<pth, pref, pheld>>
mainVars == <<phase, client, modRef>>
vars == <<threadVars, ptrVars, mainVars, running, fault>>

(* A handle is idle or active (timer started), then closing with the       *)
(* thread's on_close_, or orphan: closing without a callback, because      *)
(* main() closed it.  An orphan that is closed is leaked: nothing frees    *)
(* its thread.                                                             *)
Handle == {"none", "idle", "active", "closing", "orphan", "leaked", "gone"}
State == {"PAUSED", "SCHEDULED", "RUNNING", "DONE", "ABORTED"}
Phase == {"loop", "unload", "drain", "exit"}

Open == {"idle", "active"}
Orphaned == {"orphan", "leaked"}

(* The module is loaded: its main thread has a Lua state and no function.  *)
Init ==
  /\ hdl = [t \in Thread |-> IF t = Main THEN "idle" ELSE "none"]
  /\ st = [t \in Thread |-> "DONE"]
  /\ refcnt = [t \in Thread |-> IF t = Main THEN 1 ELSE 0]
  /\ base = [t \in Thread |-> None]
  /\ owner = [t \in Thread |-> t]
  /\ args = [t \in Thread |-> <<>>]
  /\ pth = [p \in Ptr |-> None]
  /\ pref = [p \in Ptr |-> 0]
  /\ held = [t \in Thread |-> 0]
  /\ pheld = [p \in Ptr |-> 0]
  /\ running = None
  /\ phase = "loop"
  /\ client = "active"
  /\ modRef = TRUE
  /\ fault = "none"

-----------------------------------------------------------------------------
(* Reference counts.  drop[t] references to t are released in one step;    *)
(* del_() runs for a thread that loses its last one, and closes its timer. *)

Dies(drop, t) == drop[t] > 0 /\ refcnt[t] = drop[t]

One(t) == [u \in Thread |-> IF u = t THEN 1 ELSE 0]

UnrefThreads(drop, h) ==
  /\ refcnt' = [t \in Thread |-> refcnt[t] - drop[t]]
  /\ hdl' = [t \in Thread |->
               IF Dies(drop, t) /\ h[t] \in Open THEN "closing" ELSE h[t]]
  /\ fault' = IF \E t \in Thread : drop[t] > refcnt[t]
                 THEN "underflow"
               ELSE IF \E t \in Thread : Dies(drop, t) /\ h[t] \notin Open
                 THEN "double_close" ELSE fault

Occurrences(p, seq) == Cardinality({i \in DOMAIN seq : seq[i] = p})

(* Pointers lose drop[p] references; those that lose the last one are      *)
(* deleted, each releasing its thread.                                     *)
PtrDies(drop, p) == drop[p] > 0 /\ pref[p] = drop[p]

ThreadsReleased(drop) ==
  [t \in Thread |-> Cardinality({p \in Ptr : PtrDies(drop, p) /\ pth[p] = t})]

UnrefPtrs(drop) ==
  /\ pref' = [p \in Ptr |-> pref[p] - drop[p]]
  /\ pth' = [p \in Ptr |-> IF PtrDies(drop, p) THEN None ELSE pth[p]]

-----------------------------------------------------------------------------
(* Clients.                                                                *)

(* on_time_() is in its post_exec callback.                                *)
PostExec == running # None /\ st[running] # "RUNNING"

ClientTurn ==
  /\ fault = "none"
  /\ phase = "loop"
  /\ (client = "active" /\ running = None) \/ PostExec

MayTake == ClientTurn /\ client # "idle"

MayRelease == ClientTurn \/ (fault = "none" /\ phase = "unload" /\ client = "late")

CanUse(t) == held[t] > 0 \/ (t = Main /\ modRef) \/ (t = running /\ PostExec)

(* A thread with a Lua state of its own.                                   *)
NewOwner(t) ==
  /\ MayTake
  /\ hdl[t] = "none"
  /\ hdl' = [hdl EXCEPT ![t] = "idle"]
  /\ refcnt' = [refcnt EXCEPT ![t] = 1]
  /\ held' = [held EXCEPT ![t] = 1]
  /\ UNCHANGED <<st, base, owner, args, ptrVars, mainVars, running, fault>>

(* lua_newstate() fails: the timer is initialised already, so del_()       *)
(* closes it and the close callback frees a thread nobody ever had.        *)
NewOwnerFails(t) ==
  /\ MayTake
  /\ hdl[t] = "none"
  /\ hdl' = [hdl EXCEPT ![t] = "closing"]
  /\ UNCHANGED <<st, refcnt, base, owner, args, held,
                 ptrVars, mainVars, running, fault>>

(* A careless variant: the base is not referenced.                         *)
WithChildAlone(t, b) == [refcnt EXCEPT ![t] = 1]

(* The counts when t is created on the base b.                             *)
WithChild(t, b) == [refcnt EXCEPT ![t] = 1, ![b] = @ + 1]

(* A coroutine of b's Lua state, with f's function on its stack or none.   *)
(* The base is an owner, which never runs, or the thread in post_exec.     *)
NewChild(t, b, f) ==
  /\ MayTake
  /\ hdl[t] = "none"
  /\ CanUse(b)
  /\ base[b] = None \/ b = running
  /\ f # None => pheld[f] > 0 /\ owner[pth[f]] = owner[b]
  /\ hdl' = [hdl EXCEPT ![t] = "idle"]
  /\ st' = [st EXCEPT ![t] = IF f = None THEN "DONE" ELSE "PAUSED"]
  /\ refcnt' = WithChild(t, b)
  /\ base' = [base EXCEPT ![t] = b]
  /\ owner' = [owner EXCEPT ![t] = owner[b]]
  /\ held' = [held EXCEPT ![t] = 1]
  /\ UNCHANGED <<args, ptrVars, mainVars, running, fault>>

RefThread(t) ==
  /\ MayTake
  /\ CanUse(t)
  /\ held[t] < MaxHeld
  /\ refcnt' = [refcnt EXCEPT ![t] = @ + 1]
  /\ held' = [held EXCEPT ![t] = @ + 1]
  /\ UNCHANGED <<hdl, st, base, owner, args,
                 ptrVars, mainVars, running, fault>>

UnrefThread(t) ==
  /\ MayRelease
  /\ held[t] > 0
  /\ held' = [held EXCEPT ![t] = @ - 1]
  /\ UnrefThreads(One(t), hdl)
  /\ UNCHANGED <<st, base, owner, args, ptrVars, mainVars, running>>

(* A careless variant: the pointer does not keep its thread alive.         *)
PointedAtOnly(t) == refcnt

(* The counts when a pointer into t is made.                               *)
PointedAt(t) == [refcnt EXCEPT ![t] = @ + 1]

NewPtr(p, t) ==
  /\ MayTake
  /\ pth[p] = None
  /\ CanUse(t)
  /\ pth' = [pth EXCEPT ![p] = t]
  /\ pref' = [pref EXCEPT ![p] = 1]
  /\ pheld' = [pheld EXCEPT ![p] = 1]
  /\ refcnt' = PointedAt(t)
  /\ UNCHANGED <<hdl, st, base, owner, args, held,
                 mainVars, running, fault>>

RefPtr(p) ==
  /\ MayTake
  /\ pheld[p] \in 1 .. (MaxHeld - 1)
  /\ pref' = [pref EXCEPT ![p] = @ + 1]
  /\ pheld' = [pheld EXCEPT ![p] = @ + 1]
  /\ UNCHANGED <<threadVars, pth, mainVars, running, fault>>

UnrefPtr(p) ==
  /\ MayRelease
  /\ pheld[p] > 0
  /\ pheld' = [pheld EXCEPT ![p] = @ - 1]
  /\ LET drop == [q \in Ptr |-> IF q = p THEN 1 ELSE 0]
     IN  UnrefPtrs(drop) /\ UnrefThreads(ThreadsReleased(drop), hdl)
  /\ UNCHANGED <<st, base, owner, args, held, mainVars, running>>

(* A careless variant: the scheduled thread is not referenced.             *)
ScheduleWithoutRef(t) ==
  hdl' = [hdl EXCEPT ![t] = "active"] /\ UNCHANGED refcnt

(* A careless variant: the timer is not started.                           *)
ScheduleWithoutTimer(t) ==
  refcnt' = [refcnt EXCEPT ![t] = @ + 1] /\ UNCHANGED hdl

(* The timer is started, and the thread references itself until it has run. *)
Schedule(t) ==
  /\ hdl' = [hdl EXCEPT ![t] = "active"]
  /\ refcnt' = [refcnt EXCEPT ![t] = @ + 1]

(* The values are stored, each pointer referenced once more; those left by *)
(* the run before were unset by it.                                        *)
Resume(t, as) ==
  /\ ClientTurn
  /\ CanUse(t) /\ st[t] = "PAUSED"
  /\ \A i \in DOMAIN as :
       as[i] # NIL => pheld[as[i]] > 0 /\ owner[pth[as[i]]] = owner[t]
  /\ args' = [args EXCEPT ![t] = as]
  /\ pref' = [p \in Ptr |-> pref[p] + Occurrences(p, as)]
  /\ Schedule(t)
  /\ st' = [st EXCEPT ![t] = "SCHEDULED"]
  /\ UNCHANGED <<base, owner, held, pth, pheld, mainVars,
                 running, fault>>

(* The client closes the handle that kept it in the loop.                  *)
ClientLeaves(how) ==
  /\ ClientTurn /\ client = "active"
  /\ how = "idle" => /\ \A t \in Thread : held[t] = 0
                     /\ \A p \in Ptr : pheld[p] = 0
  /\ client' = how
  /\ UNCHANGED <<threadVars, ptrVars, phase, modRef, running, fault>>

-----------------------------------------------------------------------------
(* The loop.                                                               *)

LoopTurn == fault = "none" /\ phase \in {"loop", "drain"} /\ running = None

(* A careless variant: pushed values keep their references.                *)
PushedAndKept(t) == [p \in Ptr |-> 0]

(* The references the stored values have to each pointer.                  *)
Pushed(t) == [p \in Ptr |-> Occurrences(p, args[t])]

(* The timer fires, which stops it: the values are pushed and unset, and   *)
(* the coroutine is entered.                                               *)
OnTime(t) ==
  /\ LoopTurn
  /\ hdl[t] = "active"
  /\ UnrefPtrs(Pushed(t))
  /\ UnrefThreads(ThreadsReleased(Pushed(t)), [hdl EXCEPT ![t] = "idle"])
  /\ st' = [st EXCEPT ![t] = "RUNNING"]
  /\ args' = [args EXCEPT ![t] = <<>>]
  /\ running' = t
  /\ UNCHANGED <<base, owner, held, pheld, mainVars>>

LuaResult == {"LUA_OK", "LUA_YIELD", "LUA_ERRRUN"}

(* A careless variant: only the function's return is told from the rest.   *)
OutcomeRaw(res) == IF res = "LUA_OK" THEN "DONE" ELSE res

(* The state in which lua_resume() leaves the thread.                      *)
Outcome(res) ==
  CASE res = "LUA_OK" -> "DONE" [] res = "LUA_YIELD" -> "PAUSED" [] OTHER -> "ABORTED"

(* lua_resume() returns: the function returned, yielded or failed.  The    *)
(* code a thread runs can reach no function of the module.                 *)
LuaReturns(res) ==
  /\ fault = "none" /\ running # None /\ st[running] = "RUNNING"
  /\ st' = [st EXCEPT ![running] = Outcome(res)]
  /\ UNCHANGED <<hdl, refcnt, base, owner, args, held,
                 ptrVars, mainVars, running, fault>>

(* post_exec has returned: on_time_() releases its own reference.          *)
PostExecDone ==
  /\ fault = "none" /\ PostExec
  /\ UnrefThreads(One(running), hdl)
  /\ running' = None
  /\ UNCHANGED <<st, base, owner, args, held, ptrVars, mainVars>>

(* A careless variant: timer.data is left set, so that del_() does not get *)
(* as far as to free the thread.                                           *)
FreedNever(t) == hdl

Freed(t) == [hdl EXCEPT ![t] = "gone"]

(* A careless variant: the base is not released.                           *)
BaseKept(t) == [u \in Thread |-> 0]

BaseOf(t) == [u \in Thread |-> IF u = base[t] THEN 1 ELSE 0]

(* The close callback: del_() frees the thread, and releases its base,     *)
(* whose own timer that may close.                                         *)
OnClose(t) ==
  /\ LoopTurn
  /\ hdl[t] = "closing"
  /\ UnrefThreads(BaseOf(t), Freed(t))
  /\ base' = [base EXCEPT ![t] = None]
  /\ UNCHANGED <<st, owner, args, held, ptrVars, mainVars, running>>

(* A handle main() closed: there is no callback, so nothing frees it.      *)
OrphanClosed(t) ==
  /\ LoopTurn
  /\ hdl[t] = "orphan"
  /\ hdl' = [hdl EXCEPT ![t] = "leaked"]
  /\ UNCHANGED <<st, refcnt, base, owner, args, held,
                 ptrVars, mainVars, running, fault>>

-----------------------------------------------------------------------------
(* main().                                                                 *)

(* The first uv_run() returns when nothing is active or closing.           *)
LoopEnds ==
  /\ LoopTurn /\ phase = "loop"
  /\ client # "active"
  /\ \A t \in Thread : hdl[t] \notin {"active", "closing"}
  /\ phase' = "unload"
  /\ UNCHANGED <<threadVars, ptrVars, client, modRef, running, fault>>

(* nf7core_lua's del: the module gives up its main thread.                 *)
UnloadLua ==
  /\ fault = "none" /\ phase = "unload" /\ modRef
  /\ modRef' = FALSE
  /\ UnrefThreads(One(Main), hdl)
  /\ UNCHANGED <<st, base, owner, args, held, ptrVars,
                 phase, client, running>>

(* All modules are unloaded; uv_walk() closes what is not closing itself.  *)
Walk ==
  /\ fault = "none" /\ phase = "unload" /\ ~modRef
  /\ hdl' = [t \in Thread |-> IF hdl[t] \in Open THEN "orphan" ELSE hdl[t]]
  /\ phase' = "drain"
  /\ UNCHANGED <<st, refcnt, base, owner, args, held, ptrVars,
                 client, modRef, running, fault>>

(* The second uv_run() returns, and main() counts the leaks.               *)
Exit ==
  /\ LoopTurn /\ phase = "drain"
  /\ \A t \in Thread : hdl[t] \notin {"closing", "orphan"}
  /\ phase' = "exit"
  /\ UNCHANGED <<threadVars, ptrVars, client, modRef, running, fault>>

Terminated == (phase = "exit" \/ fault # "none") /\ UNCHANGED vars

-----------------------------------------------------------------------------
Client ==
  \/ \E t \in Thread : NewOwner(t) \/ NewOwnerFails(t) \/ RefThread(t) \/ UnrefThread(t)
  \/ \E t, b \in Thread, f \in Ptr \cup {None} : NewChild(t, b, f)
  \/ \E p \in Ptr, t \in Thread : NewPtr(p, t)
  \/ \E p \in Ptr : RefPtr(p) \/ UnrefPtr(p)
  \/ \E t \in Thread, n \in 0 .. MaxArgs : \E as \in [1 .. n -> Ptr \cup {NIL}] : Resume(t, as)
  \/ \E how \in {"idle", "late"} : ClientLeaves(how)

Loop ==
  \/ \E t \in Thread : OnTime(t) \/ OnClose(t) \/ OrphanClosed(t)
  \/ \E res \in LuaResult : LuaReturns(res)
  \/ PostExecDone

Program == LoopEnds \/ UnloadLua \/ Walk \/ Exit

Next == Client \/ Loop \/ Program \/ Terminated

Spec == Init /\ [][Next]_vars

(* libuv runs timers in the order they are due, and every close callback   *)
(* at the end of an iteration, whatever else the iteration did; scripts    *)
(* return.  Nothing is assumed of the clients.                             *)
Fairness ==
  /\ \A t \in Thread : SF_vars(OnTime(t) \/ OnClose(t))
  /\ WF_vars(\E res \in LuaResult : LuaReturns(res))
  /\ WF_vars(PostExecDone)
  /\ WF_vars(Program)

FairSpec == Spec /\ Fairness

-----------------------------------------------------------------------------
(* Every variable has its type: each handle, state and count ranges over   *)
(* what nf7core_lua_thread, nf7core_lua_value_ptr and main() keep in it.   *)
TypeOK ==
  /\ hdl \in [Thread -> Handle]
  /\ st \in [Thread -> State]
  /\ refcnt \in [Thread -> Int]
  /\ base \in [Thread -> Thread \cup {None}]
  /\ owner \in [Thread -> Thread]
  /\ args \in [Thread -> Seq(Ptr \cup {NIL})]
  /\ pth \in [Ptr -> Thread \cup {None}]
  /\ pref \in [Ptr -> Int]
  /\ held \in [Thread -> Int]
  /\ pheld \in [Ptr -> Int]
  /\ running \in Thread \cup {None}
  /\ phase \in Phase
  /\ client \in {"active", "idle", "late"}
  /\ modRef \in BOOLEAN
  /\ fault \in {"none", "underflow", "double_close"}

Bool2Nat(b) == IF b THEN 1 ELSE 0

Children(t) == {u \in Thread : base[u] = t}
PointersInto(t) == {p \in Ptr : pth[p] = t}
SlotsOf(p) == {x \in Thread \X (1 .. MaxArgs) :
                 x[2] \in DOMAIN args[x[1]] /\ args[x[1]][x[2]] = p}

(* Every reference is counted and nothing else is: a thread's count is the *)
(* coroutines based on it, the pointers into it, the clients' references,  *)
(* the module's, and its own, one for being scheduled and one for running, *)
(* both of which it has after post_exec resumed it; a pointer's count is   *)
(* the clients' references and the argument slots holding it.              *)
RefcntAccurate ==
  /\ \A t \in Thread :
       refcnt[t] = Cardinality(Children(t))
                   + Cardinality(PointersInto(t))
                   + held[t]
                   + Bool2Nat(t = Main /\ modRef)
                   + Bool2Nat(hdl[t] = "active") + Bool2Nat(t = running)
  /\ \A p \in Ptr : pref[p] = pheld[p] + Cardinality(SlotsOf(p))

(* Nothing refers to a freed thread, and only a thread whose timer is open *)
(* can be named by a pointer, be scheduled or be inside its callback.      *)
NoDangling ==
  /\ \A t \in Thread : base[t] # None => hdl[base[t]] \in Open \cup Orphaned
  /\ \A p \in Ptr : pth[p] # None => hdl[pth[p]] \in Open \cup Orphaned
  /\ \A t \in Thread : \A i \in DOMAIN args[t] : args[t][i] # NIL => pth[args[t][i]] # None
  /\ running # None => hdl[running] \in Open

(* The state and the timer agree, even across post_exec, which may resume  *)
(* the very thread it is called for: SCHEDULED (what on_time_ asserts of   *)
(* the state) exactly while the timer is started, RUNNING only inside the  *)
(* callback.                                                               *)
ScheduledPinned ==
  \A t \in Thread :
    /\ st[t] = "SCHEDULED" <=> hdl[t] = "active"
    /\ st[t] = "RUNNING" => t = running

(* Where clients release what they hold while the loop runs, no handle is  *)
(* closed twice and no count goes below zero: the assertions of uv_close() *)
(* and of nf7core_lua_thread_unref() never fail.                           *)
NoFault == client # "late" => fault = "none"

(* Such clients leave no leak of this module for main() to find: every     *)
(* thread and every pointer has been freed.                                *)
NoLeakAtExit ==
  phase = "exit" /\ client = "idle" =>
    /\ \A t \in Thread : hdl[t] \in {"none", "gone"}
    /\ \A p \in Ptr : pth[p] = None

(* What makes these inductive.  An object without references is not there  *)
(* or is on its way out, and no other is.                                  *)
CountsTell ==
  /\ \A t \in Thread :
       /\ held[t] >= 0
       /\ hdl[t] \in {"none", "closing", "gone"} => refcnt[t] = 0
       /\ hdl[t] \in Open => refcnt[t] > 0
  /\ \A p \in Ptr : pheld[p] >= 0 /\ (pth[p] = None <=> pref[p] = 0)

(* Values are stored only for a thread whose timer is started.             *)
ArgsScheduled ==
  \A t \in Thread :
    Len(args[t]) <= MaxArgs /\ (hdl[t] # "active" => args[t] = <<>>)

(* Coroutines are there while they have a base, the main thread has none,  *)
(* and they are based on one another without end: among any of them is one *)
(* that no other is based on.                                              *)
BasesGrounded ==
  /\ \A t \in Thread : base[t] # None => hdl[t] \notin {"none", "gone"}
  /\ base[Main] = None /\ hdl[Main] # "none"
  /\ \A S \in SUBSET Thread : S # {} => \E t \in S : \A u \in S : base[u] # t

(* What main() has done to the handles when.                               *)
PhasesOrdered ==
  /\ phase \in {"loop", "unload"} => \A t \in Thread : hdl[t] \notin Orphaned
  /\ phase # "loop" => running = None /\ client # "active" /\ \A t \in Thread : hdl[t] # "active"
  /\ phase \in {"drain", "exit"} => ~modRef /\ \A t \in Thread : hdl[t] \notin Open
  /\ phase = "loop" => modRef
  /\ phase = "exit" => \A t \in Thread : hdl[t] # "closing"

(* Clients that let go of all they held leave nothing but the main thread. *)
IdleLeavesMain ==
  client = "idle" =>
    /\ \A t \in Thread : held[t] = 0
    /\ \A p \in Ptr : pheld[p] = 0
    /\ phase # "loop" =>
         /\ \A t \in Thread \ {Main} : hdl[t] \in {"none", "gone"}
         /\ \A p \in Ptr : pth[p] = None
         /\ hdl[Main] \in IF modRef THEN {"idle"} ELSE {"closing", "gone"}

(* An assertion fails only when a base is closed that main() has closed.   *)
FaultsAreLate ==
  fault # "none" => fault = "double_close" /\ phase = "drain" /\ client = "late"

LuaInv ==
  /\ TypeOK /\ RefcntAccurate /\ CountsTell /\ ScheduledPinned /\ ArgsScheduled
  /\ BasesGrounded /\ PhasesOrdered /\ IdleLeavesMain /\ FaultsAreLate

(* A thread resumed with success runs, whatever its clients do with their  *)
(* references meanwhile ("the state will changes to RUNNING").             *)
ScheduledRuns == \A t \in Thread : st[t] = "SCHEDULED" ~> st[t] = "RUNNING"

(* A thread whose last reference is gone is freed, unless the program ends *)
(* in a failed assertion, which clients that let go late can bring about.  *)
ClosingIsFreed ==
  \A t \in Thread : hdl[t] = "closing" ~> (hdl[t] = "gone" \/ fault # "none")
=============================================================================
