----------------------------- MODULE ProgramProofs -----------------------------
(***************************************************************************)
(* What holds of main.c and of the life of the modules for any set of test *)
(* cases that schedule a thread, with the one that opens a window.         *)
(***************************************************************************)
EXTENDS Program, TLAPS, SequenceTheorems, FiniteSetTheorems

USE DEF FactoryForgotten, IdleStopped, FirstReference, LastReference, InitBlocks

-----------------------------------------------------------------------------
(* The order of the modules.                                               *)

(* Seven modules, of different names.                                      *)
LEMMA OrderIsSequence ==
  /\ Len(Order) = 7
  /\ DOMAIN Order = 1 .. 7
  /\ ToSet(Order) = {"exec", "any", "lua", "null", "sdl2", "init", "test"}
  /\ \A i, j \in 1 .. 7 : Order[i] = Order[j] => i = j
  /\ \A i \in 1 .. 7 : Order[i] \in ToSet(Order)
<1>1. Len(Order) = 7 /\ DOMAIN Order = 1 .. 7
  BY DEF Order
<1>2. /\ Order[1] = "exec" /\ Order[2] = "any" /\ Order[3] = "lua"
      /\ Order[4] = "null" /\ Order[5] = "sdl2" /\ Order[6] = "init"
      /\ Order[7] = "test"
  BY DEF Order
<1>3. \A i \in 1 .. 7 : i \in {1, 2, 3, 4, 5, 6, 7}
  OBVIOUS
<1>4. ToSet(Order) = {"exec", "any", "lua", "null", "sdl2", "init", "test"}
  BY <1>1, <1>2, <1>3 DEF ToSet
<1>5. \A i, j \in 1 .. 7 : Order[i] = Order[j] => i = j
  BY <1>2, <1>3
<1>6. QED
  BY <1>1, <1>4, <1>5 DEF ToSet

(* The module that is being loaded has not been loaded before.             *)
LEMMA LoadingIsNew ==
  ASSUME LifeInv, NEW m, Loading(m)
  PROVE  /\ m \in ToSet(Order)
         /\ ~Finds(m)
         /\ at \in 1 .. 7 /\ at' = at + 1 /\ Order[at] = m
         /\ phase = "load" /\ phase' = "load" /\ fault = "none"
<1>1. /\ at \in 1 .. 7 /\ at' = at + 1 /\ Order[at] = m
      /\ phase = "load" /\ phase' = "load" /\ fault = "none"
  BY OrderIsSequence DEF LifeInv, TypeOK, Loading
<1>2. \A j \in DOMAIN mods : mods[j] # m
  <2>1. \A j \in DOMAIN mods : \E k \in 1 .. (at - 1) : mods[j] = Order[k]
    BY <1>1 DEF LifeInv, LoadedInOrder
  <2>2. \A k \in 1 .. (at - 1) : k \in 1 .. 7 /\ k # at
    BY <1>1
  <2>3. QED
    BY <1>1, <2>1, <2>2, OrderIsSequence
<1>3. QED
  BY <1>1, <1>2, OrderIsSequence DEF Finds, ToSet

(* A module that is loaded is there to be unloaded.                        *)
LEMMA LoadedPends ==
  ASSUME LifeInv, NEW m, Loading(m), mods' = Append(mods, m)
  PROVE  /\ mods' \in Seq(ToSet(Order)) /\ at' \in 1 .. (Len(Order) + 1)
         /\ Len(mods') < Len(Order) + 1
         /\ Len(mods') < at'
         /\ \A j \in DOMAIN mods' : \E k \in 1 .. (at' - 1) : mods'[j] = Order[k]
         /\ \A i, j \in DOMAIN mods' : mods'[i] = mods'[j] => i = j
         /\ \A x : Finds(x)' <=> Finds(x) \/ x = m
         /\ \A x : Pending(x)' <=> Pending(x) \/ x = m
<1>1. /\ m \in ToSet(Order) /\ ~Finds(m)
      /\ at \in 1 .. 7 /\ at' = at + 1 /\ Order[at] = m
      /\ phase = "load" /\ phase' = "load"
  BY LoadingIsNew
<1>2. mods \in Seq(ToSet(Order)) /\ Len(mods) < at /\ Len(mods) \in Nat
  BY <1>1 DEF LifeInv, TypeOK, LoadedInOrder
<1>3. /\ mods' \in Seq(ToSet(Order))
      /\ Len(mods') = Len(mods) + 1
      /\ \A j \in 1 .. Len(mods) : mods'[j] = mods[j]
      /\ mods'[Len(mods) + 1] = m
  BY <1>1, <1>2, AppendProperties
<1>4. /\ DOMAIN mods' = 1 .. (Len(mods) + 1) /\ DOMAIN mods = 1 .. Len(mods)
      /\ \A j \in DOMAIN mods' : j = Len(mods) + 1 \/ j \in DOMAIN mods
      /\ \A j \in DOMAIN mods : j \in DOMAIN mods' /\ mods'[j] = mods[j]
      /\ Len(mods) + 1 \in DOMAIN mods'
  BY <1>2, <1>3
<1>5. \A j \in DOMAIN mods : mods[j] # m
  BY <1>1 DEF Finds, ToSet
<1>6. \A j \in DOMAIN mods' : \E k \in 1 .. (at' - 1) : mods'[j] = Order[k]
  <2>1. \A j \in DOMAIN mods : \E k \in 1 .. (at - 1) : mods[j] = Order[k]
    BY <1>1 DEF LifeInv, LoadedInOrder
  <2>2. at' - 1 = at /\ \A k \in 1 .. (at - 1) : k \in 1 .. at
    BY <1>1
  <2>3. at \in 1 .. at
    BY <1>1
  <2>4. QED
    BY <1>1, <1>3, <1>4, <2>1, <2>2, <2>3
<1>7. \A i, j \in DOMAIN mods' : mods'[i] = mods'[j] => i = j
  BY <1>3, <1>4, <1>5 DEF LifeInv, LoadedInOrder
<1>8. \A x : Finds(x)' <=> Finds(x) \/ x = m
  BY <1>3, <1>4 DEF Finds, ToSet
<1>9. \A x : Pending(x)' <=> Pending(x) \/ x = m
  BY <1>1, <1>3, <1>4 DEF Pending
<1>10. QED
  BY SMTT(30), <1>1, <1>2, <1>3, <1>6, <1>7, <1>8, <1>9, OrderIsSequence

(* The module that is unloaded is one that was loaded, and it is unloaded  *)
(* for good.                                                               *)
LEMMA UnloadingEnds ==
  ASSUME LifeInv, NEW m, NEW blocks, Unloading(m, blocks)
  PROVE  /\ phase = "unload" /\ phase' = "unload" /\ fault = "none"
         /\ at' \in 1 .. (Len(Order) + 1) /\ mods' = mods
         /\ Finds(m) /\ Pending(m) /\ m \in mem
         /\ \A x : Finds(x)' <=> Finds(x)
         /\ \A x : Pending(x)' <=> Pending(x) /\ x # m
<1>1. /\ phase = "unload" /\ phase' = "unload" /\ fault = "none" /\ m \in mem
      /\ at <= Len(mods) /\ mods[at] = m /\ at' = at + 1 /\ mods' = mods
  BY DEF Unloading
<1>2. /\ at \in DOMAIN mods /\ at \in Nat
      /\ at' \in 1 .. (Len(Order) + 1)
      /\ \A j \in DOMAIN mods : j >= at + 1 <=> j >= at /\ j # at
      /\ at >= at
  BY <1>1, OrderIsSequence DEF LifeInv, TypeOK, LoadedInOrder
<1>3. \A x : Pending(x)' <=> Pending(x) /\ x # m
  BY <1>1, <1>2 DEF Pending, LifeInv, LoadedInOrder
<1>4. QED
  BY <1>1, <1>2, <1>3 DEF Pending, Finds, ToSet

-----------------------------------------------------------------------------
(* Blocks, handles and references.                                         *)

LEMMA BlocksAndHandles ==
  /\ Block = {"exec", "any", "lua", "null", "sdl2", "init", "test", "ideas", "entity",
              "thread", "poll", "factory", "run", "win"} \cup Script
  /\ Handle = {"thread", "poll", "factory", "run", "win"} \cup Script
  /\ Referrers = {"run", "win"} \cup Script
  /\ \A s \in Script : s \notin {"exec", "any", "lua", "null", "sdl2", "init", "test",
                                "ideas", "entity", "thread", "poll", "factory",
                                "run", "win"}
  /\ IsFiniteSet(Script) /\ IsFiniteSet(Referrers)
<1>1. IsFiniteSet(Script \cup {"run"} \cup {"win"})
  BY ScriptAssumption, FS_AddElement
<1>2. Script \cup {"run"} \cup {"win"} = Referrers
  BY DEF Referrers
<1>3. QED
  BY <1>1, <1>2, OrderIsSequence, ScriptAssumption DEF Block, Handle, Referrers

(* The runner's references are finitely many.                              *)
LEMMA ReferringFinite ==
  /\ Referring \subseteq Referrers
  /\ IsFiniteSet(Referring)
  /\ Cardinality(Referring) \in Nat
  /\ \A h \in Referring : Cardinality(Referring) > 0
<1>1. Referring \subseteq Referrers /\ IsFiniteSet(Referrers)
  BY BlocksAndHandles DEF Referring
<1>2. IsFiniteSet(Referring)
  BY <1>1, FS_Subset
<1>3. QED
  BY <1>1, <1>2, FS_CardinalityType, FS_EmptySet

(* What closing, opening or losing handles does to them.                   *)
LEMMA BecomesState ==
  ASSUME TypeOK, NEW H \in SUBSET Handle, NEW state \in HandleState,
         hdl' = Becomes(H, state)
  PROVE  /\ hdl' \in [Handle -> HandleState]
         /\ \A h \in Handle : hdl'[h] = IF h \in H THEN state ELSE hdl[h]
BY DEF TypeOK, Becomes

(* A step that leaves the runner's and the cases' handles alone leaves     *)
(* them counted.                                                           *)
LEMMA ReferencesKept ==
  ASSUME ReferencesCounted, testRefs' = testRefs,
         \A h \in Referrers : hdl'[h] = hdl[h],
         Finds("lua") => Finds("lua")',
         phase' \in {"start", "load"} => phase \in {"start", "load"},
         phase' \notin {"load", "loop"} =>
           \A h \in Referrers : hdl[h] \in {"none", "gone"}
  PROVE  ReferencesCounted' /\ Referring' = Referring
<1>1. Referring' = Referring
  BY BlocksAndHandles DEF Referring
<1>2. QED
  BY <1>1, BlocksAndHandles DEF ReferencesCounted

(* So does one that leaves core/sdl2 alone with its references.            *)
LEMMA Sdl2Kept ==
  ASSUME Sdl2Counted, sdl2Refs' = sdl2Refs,
         "sdl2" \in mem' <=> "sdl2" \in mem,
         "win" \in Referring' <=> "win" \in Referring,
         phase' \in {"start", "load"} \/ hdl'["run"] = "active" =>
           ~robbed' \/ (robbed' = robbed
                       /\ (phase \in {"start", "load"} \/ hdl["run"] = "active"))
  PROVE  Sdl2Counted'
BY DEF Sdl2Counted

-----------------------------------------------------------------------------
(* Loading.                                                                *)

(* What is left to show when a module has been loaded, or has not.         *)
LEMMA AfterLoading ==
  ASSUME LifeInv, NEW m, Loading(m),
         mods' = Append(mods, m) \/ mods' = mods,
         mem' \subseteq Block, hdl' \in [Handle -> HandleState],
         factory' \in BOOLEAN, testRefs' \in Nat, sdl2Refs' \in Nat,
         robbed' = robbed, fault' \in {"none", "exec", "sdl2"},
         BlocksOwned', HandlesClosed', ReferencesCounted', Sdl2Counted'
  PROVE  LifeInv'
<1>1. /\ at \in 1 .. 7 /\ at' = at + 1
      /\ phase = "load" /\ phase' = "load"
  BY LoadingIsNew
<1>2. mods' \in Seq(ToSet(Order)) /\ LoadedInOrder'
  <2>1. CASE mods' = Append(mods, m)
    BY <1>1, <2>1, LoadedPends DEF LoadedInOrder
  <2>2. CASE mods' = mods
    <3>1. Len(mods) \in Nat /\ mods \in Seq(ToSet(Order)) /\ LoadedInOrder
      BY DEF LifeInv, TypeOK
    <3>2. \A k \in 1 .. (at - 1) : k \in 1 .. (at' - 1)
      BY <1>1
    <3>3. \A j \in DOMAIN mods : \E k \in 1 .. (at' - 1) : mods[j] = Order[k]
      BY <1>1, <3>1, <3>2 DEF LoadedInOrder
    <3>4. Len(mods) < at'
      BY <1>1, <3>1 DEF LoadedInOrder
    <3>5. QED
      BY <1>1, <2>2, <3>1, <3>3, <3>4 DEF LoadedInOrder
  <2>3. QED
    BY <2>1, <2>2
<1>3. TypeOK'
  BY <1>1, <1>2, OrderIsSequence DEF LifeInv, TypeOK
<1>4. NoStaleUse' /\ LeaksNothing'
  BY <1>1 DEF NoStaleUse, LeaksNothing
<1>5. QED
  BY <1>2, <1>3, <1>4 DEF LifeInv

(* A module that is loaded, or not, without a handle.                      *)
LEMMA LoadWithoutHandle ==
  ASSUME LifeInv, NEW m, Loading(m), UNCHANGED <<hdl, factory, counts>>,
         fault' \in {"none", "exec", "sdl2"},
         \/ /\ mods' = Append(mods, m)
            /\ m \in {"exec", "null"}
            /\ mem' = mem \cup {m}
         \/ /\ mods' = Append(mods, m)
            /\ m = "any" /\ Finds("exec")
            /\ mem' = mem \cup {"any", "ideas"}
         \/ mods' = mods /\ mem' = mem
         \/ mods' = mods /\ m = "test" /\ mem' = mem \cup {"test"}
  PROVE  LifeInv'
<1> USE DEF LifeInv
<1>1. /\ ~Finds(m) /\ m \in ToSet(Order) /\ phase = "load" /\ phase' = "load"
  BY LoadingIsNew
<1>2. mem \subseteq Block /\ hdl \in [Handle -> HandleState]
  BY DEF TypeOK
<1>3. mem' \subseteq Block
  BY <1>2, BlocksAndHandles
<1> DEFINE Told == /\ ReferencesCounted' /\ Sdl2Counted' /\ testRefs' \in Nat
                  /\ sdl2Refs' \in Nat /\ robbed' = robbed
<1>4. ASSUME Finds("lua") => Finds("lua")' PROVE Told
  <2>1. UNCHANGED <<testRefs, sdl2Refs, robbed>>
    BY DEF counts
  <2>2. ReferencesCounted' /\ Referring' = Referring
    BY <1>1, <1>4, <2>1, ReferencesKept
  <2>3. "sdl2" \in mem' <=> "sdl2" \in mem
    OBVIOUS
  <2>4. Sdl2Counted'
    BY <1>1, <2>1, <2>2, <2>3, Sdl2Kept
  <2>5. QED
    BY <2>1, <2>2, <2>4 DEF TypeOK
<1>5. CASE mods' = Append(mods, m)
  <2>1. /\ \A x : Finds(x)' <=> Finds(x) \/ x = m
        /\ \A x : Pending(x)' <=> Pending(x) \/ x = m
    BY <1>5, LoadedPends
  <2>2. \A x : Finds(x) => Pending(x)
    BY <1>1 DEF Finds, Pending, ToSet
  <2>3. m \in {"exec", "null", "any"} /\ mem' = mem \cup {m, IF m = "any" THEN "ideas" ELSE m}
    <3>1. mods' # mods
      <4>1. mods \in Seq(ToSet(Order))
        BY DEF TypeOK
      <4>2. Len(mods') # Len(mods)
        BY <1>1, <1>5, <4>1, AppendProperties
      <4>3. QED
        BY <4>2
    <3>2. QED
      BY <3>1
  <2>4. BlocksOwned'
    BY <1>1, <2>1, <2>2, <2>3, OrderIsSequence, BlocksAndHandles DEF BlocksOwned, counts
  <2>5. HandlesClosed'
    BY <1>1, <2>1, <2>3 DEF HandlesClosed
  <2>6. Told
    BY <1>4, <2>1
  <2>7. QED
    BY <1>2, <1>3, <1>5, <2>4, <2>5, <2>6, AfterLoading DEF TypeOK
<1>6. CASE mods' = mods
  <2>1. /\ \A x : Finds(x)' <=> Finds(x)
        /\ \A x : Pending(x)' <=> Pending(x)
    BY <1>1, <1>6 DEF Finds, Pending
  <2>2. HandlesClosed'
    BY <1>1, <2>1 DEF HandlesClosed
  <2>3. mem' = mem \/ (m = "test" /\ mem' = mem \cup {"test"})
    <3>1. mods # Append(mods, m)
      <4>1. mods \in Seq(ToSet(Order))
        BY DEF TypeOK
      <4>2. Len(Append(mods, m)) # Len(mods)
        BY <1>1, <4>1, AppendProperties
      <4>3. QED
        BY <4>2
    <3>2. QED
      BY <1>6, <3>1
  <2>4. BlocksOwned'
    BY <1>1, <2>1, <2>3, OrderIsSequence, BlocksAndHandles DEF BlocksOwned, counts
  <2>5. Told
    BY <1>4, <2>1
  <2>6. QED
    BY <1>2, <1>3, <1>6, <2>2, <2>4, <2>5, AfterLoading DEF TypeOK
<1>7. QED
  BY <1>5, <1>6

(* A module that is loaded with a handle of its own.                       *)
LEMMA LoadWithHandle ==
  ASSUME LifeInv, LoadLua \/ LoadSdl2 \/ LoadInit \/ LoadTest
  PROVE  LifeInv'
<1> USE DEF LifeInv
<1>1. PICK m \in {"lua", "sdl2", "init", "test"} :
        /\ Loading(m) /\ mods' = Append(mods, m) /\ UNCHANGED <<fault, robbed>>
        /\ m = "lua" => /\ mem' = mem \cup {"lua", "thread"}
                        /\ hdl' = Becomes({"thread"}, "idle")
                        /\ UNCHANGED <<factory, testRefs, sdl2Refs>>
        /\ m = "sdl2" => /\ mem' = mem \cup {"sdl2", "poll"}
                         /\ hdl' = Becomes({"poll"}, "idle")
                         /\ sdl2Refs' = 1 /\ UNCHANGED <<factory, testRefs>>
        /\ m = "init" => /\ mem' = mem \cup {"init", "factory"}
                         /\ hdl' = Becomes({"factory"}, "active")
                         /\ factory' = TRUE /\ UNCHANGED <<testRefs, sdl2Refs>>
        /\ m = "test" => /\ mem' = mem \cup {"test", "run"}
                         /\ hdl' = Becomes({"run"}, "active")
                         /\ testRefs' = 1 /\ UNCHANGED <<factory, sdl2Refs>>
  BY DEF LoadLua, LoadSdl2, LoadInit, LoadTest, Loaded, counts
<1>2. /\ ~Finds(m) /\ phase = "load" /\ phase' = "load" /\ fault = "none"
  BY <1>1, LoadingIsNew
<1>3. /\ \A x : Finds(x)' <=> Finds(x) \/ x = m
      /\ \A x : Pending(x)' <=> Pending(x) \/ x = m
  BY <1>1, LoadedPends
<1>4. /\ hdl' \in [Handle -> HandleState]
      /\ \A h \in Handle :
           hdl'[h] = IF m = "lua" /\ h = "thread" THEN "idle"
                     ELSE IF m = "sdl2" /\ h = "poll" THEN "idle"
                     ELSE IF m = "init" /\ h = "factory" THEN "active"
                     ELSE IF m = "test" /\ h = "run" THEN "active"
                     ELSE hdl[h]
  <2>1. PICK h \in {"thread", "poll", "factory", "run"}, state \in {"idle", "active"} :
          /\ hdl' = Becomes({h}, state)
          /\ m = "lua" => h = "thread" /\ state = "idle"
          /\ m = "sdl2" => h = "poll" /\ state = "idle"
          /\ m = "init" => h = "factory" /\ state = "active"
          /\ m = "test" => h = "run" /\ state = "active"
    BY <1>1
  <2>2. {h} \in SUBSET Handle /\ state \in HandleState
    BY BlocksAndHandles DEF HandleState
  <2>3. /\ hdl' \in [Handle -> HandleState]
        /\ \A k \in Handle : hdl'[k] = IF k = h THEN state ELSE hdl[k]
    BY <2>1, <2>2, BecomesState
  <2>4. QED
    BY <1>1, <2>1, <2>3
<1>5. mem' \subseteq Block
  BY <1>1, BlocksAndHandles DEF TypeOK
<1>6. ~robbed /\ robbed' = robbed /\ "win" \notin Referring
  BY <1>1, <1>2, BlocksAndHandles DEF Sdl2Counted, ReferencesCounted, Referring
<1>7. ReferencesCounted' /\ "win" \notin Referring'
  <2>1. CASE m # "test"
    BY <1>1, <1>2, <1>3, <1>4, <1>6, <2>1, BlocksAndHandles, ReferencesKept
  <2>2. CASE m = "test"
    <3>1. /\ \A h \in Script \cup {"win"} : hdl'[h] = "none"
          /\ hdl'["run"] = "active"
      BY <1>2, <1>4, <2>2, BlocksAndHandles DEF ReferencesCounted
    <3>2. Referring' = {"run"}
      BY <3>1, BlocksAndHandles DEF Referring
    <3>3. Cardinality(Referring') = 1
      BY <3>2, FS_Singleton
    <3>4. QED
      BY <1>1, <1>2, <2>2, <3>1, <3>2, <3>3, BlocksAndHandles DEF ReferencesCounted
  <2>3. QED
    BY <2>1, <2>2
<1>8. Sdl2Counted'
  <2>1. CASE m = "sdl2"
    BY <1>1, <1>6, <1>7, <2>1 DEF Sdl2Counted
  <2>2. CASE m # "sdl2"
    <3>1. sdl2Refs' = sdl2Refs /\ ("sdl2" \in mem' <=> "sdl2" \in mem)
      BY <1>1, <2>2
    <3>2. QED
      BY <1>6, <1>7, <3>1, Sdl2Kept
  <2>3. QED
    BY <2>1, <2>2
<1>9. BlocksOwned'
  <2>1. \A x \in {"exec", "any", "lua", "null", "init"} : x \in mem' <=> Pending(x)'
    BY <1>1, <1>3, OrderIsSequence DEF BlocksOwned
  <2>2. \A h \in Handle \ {"run"} : h \in mem' <=> hdl'[h] \in Open \cup {"closing"}
    BY <1>1, <1>4, BlocksAndHandles DEF BlocksOwned, Open
  <2>3. "run" \in mem' <=> testRefs' > 0
    BY <1>1 DEF BlocksOwned, TypeOK
  <2>4. "sdl2" \in mem' <=> Pending("sdl2")'
    BY <1>1, <1>3, <1>6 DEF BlocksOwned
  <2>5. QED
    BY <1>1, <1>2, <1>3, <1>6, <2>1, <2>2, <2>3, <2>4, OrderIsSequence DEF BlocksOwned
<1>10. HandlesClosed'
  BY <1>1, <1>2, <1>3, <1>4, BlocksAndHandles DEF HandlesClosed, Open
<1>11. factory' \in BOOLEAN /\ testRefs' \in Nat /\ sdl2Refs' \in Nat
  <2>1. /\ factory' = TRUE \/ factory' = factory
        /\ testRefs' = 1 \/ testRefs' = testRefs
        /\ sdl2Refs' = 1 \/ sdl2Refs' = sdl2Refs
    BY <1>1
  <2>2. testRefs' \in Nat /\ sdl2Refs' \in Nat
    BY <2>1 DEF TypeOK
  <2>3. factory' \in BOOLEAN
    BY <2>1, Zenon DEF TypeOK
  <2>4. QED
    BY <2>2, <2>3
<1>12. QED
  BY <1>1, <1>2, <1>4, <1>5, <1>7, <1>8, <1>9, <1>10, <1>11, AfterLoading

(* core/lua is not loaded, but leaves a thread that is closing.            *)
LEMMA LoadLeavesThread ==
  ASSUME LifeInv, LoadLuaWithoutState
  PROVE  LifeInv'
<1> USE DEF LifeInv
<1>1. /\ Loading("lua") /\ mods' = mods /\ mem' = mem \cup {"thread"}
      /\ hdl' = Becomes({"thread"}, "closing")
      /\ UNCHANGED <<factory, testRefs, sdl2Refs, robbed, fault>>
  BY DEF LoadLuaWithoutState, NotLoaded, counts
<1>2. /\ ~Finds("lua") /\ phase = "load" /\ phase' = "load" /\ fault = "none"
  BY <1>1, LoadingIsNew
<1>3. /\ \A x : Finds(x)' <=> Finds(x)
      /\ \A x : Pending(x)' <=> Pending(x)
      /\ ~Pending("lua")
  BY <1>1, <1>2 DEF Finds, Pending, ToSet
<1>4. /\ hdl' \in [Handle -> HandleState]
      /\ \A h \in Handle : hdl'[h] = IF h = "thread" THEN "closing" ELSE hdl[h]
  BY <1>1, BecomesState, BlocksAndHandles DEF HandleState
<1>5. mem' \subseteq Block
  BY <1>1, BlocksAndHandles DEF TypeOK
<1>6. ReferencesCounted' /\ Referring' = Referring
  BY <1>1, <1>2, <1>3, <1>4, BlocksAndHandles, ReferencesKept
<1>7. Sdl2Counted'
  BY <1>1, <1>2, <1>6, Sdl2Kept
<1>8. BlocksOwned'
  BY <1>1, <1>2, <1>3, <1>4, BlocksAndHandles, OrderIsSequence DEF BlocksOwned, Open
<1>9. HandlesClosed'
  BY <1>1, <1>2, <1>3, <1>4, BlocksAndHandles DEF HandlesClosed, Open
<1>10. QED
  BY <1>1, <1>2, <1>4, <1>5, <1>6, <1>7, <1>8, <1>9, AfterLoading DEF TypeOK

LEMMA LoadStep ==
  ASSUME LifeInv, Load
  PROVE  LifeInv'
<1>1. CASE LoadExec \/ LoadAny \/ LoadNull
  BY <1>1, LoadWithoutHandle DEF LoadExec, LoadAny, LoadNull, Loaded, Loading
<1>2. CASE \/ LoadAnyFails \/ LoadLuaFails \/ LoadNullFails \/ LoadSdl2Fails
           \/ LoadInitFails \/ LoadTestFails \/ LoadTestWithoutRun
  <2>1. PICK m : \E left \in {{}, {"test"}} :
          /\ Loading(m) /\ UNCHANGED <<hdl, factory, counts, mods, fault>>
          /\ mem' = mem \cup left /\ (left # {} => m = "test")
    BY <1>2 DEF LoadAnyFails, LoadLuaFails, LoadNullFails, LoadSdl2Fails,
                LoadInitFails, LoadTestFails, LoadTestWithoutRun, NotLoaded
  <2>2. mem' = mem \/ (m = "test" /\ mem' = mem \cup {"test"})
    BY <2>1
  <2>3. QED
    BY <2>1, <2>2, LoadWithoutHandle DEF Loading
<1>3. CASE LoadExecFails \/ LoadSdl2WithoutPoll
  BY <1>3, LoadWithoutHandle DEF LoadExecFails, LoadSdl2WithoutPoll, Dies, Loading
<1>4. QED
  BY <1>1, <1>2, <1>3, LoadWithHandle, LoadLeavesThread DEF Load

-----------------------------------------------------------------------------
(* The loop.                                                               *)

(* What is left to show of a step that loads and unloads nothing.          *)
LEMMA AfterCallback ==
  ASSUME LifeInv, LoopTurn, UNCHANGED <<phase, at, mods>>,
         mem' \subseteq Block, hdl' \in [Handle -> HandleState],
         factory' \in BOOLEAN, testRefs' \in Nat, sdl2Refs' \in Nat,
         robbed' \in BOOLEAN, fault' \in {"none", "null", "again"},
         BlocksOwned', HandlesClosed', ReferencesCounted', Sdl2Counted'
  PROVE  LifeInv'
<1>1. phase \in {"loop", "drain"}
  BY DEF LoopTurn
<1>2. TypeOK'
  BY Zenon DEF LifeInv, TypeOK
<1>3. NoStaleUse' /\ LeaksNothing' /\ LoadedInOrder'
  BY <1>1 DEF NoStaleUse, LeaksNothing, LoadedInOrder, LifeInv
<1>4. QED
  BY <1>2, <1>3 DEF LifeInv

(* No module is loaded or unloaded by a callback, and those that have been *)
(* loaded are there as long as the first loop runs.                        *)
LEMMA PendingKept ==
  ASSUME UNCHANGED <<phase, at, mods>>
  PROVE  /\ \A x : Finds(x)' <=> Finds(x)
         /\ \A x : Pending(x)' <=> Pending(x)
         /\ phase = "loop" => \A x : Finds(x) <=> Pending(x)
BY DEF Finds, Pending, ToSet

LEMMA FactoryStep ==
  ASSUME LifeInv, FactoryCreates \/ FactoryFails
  PROVE  LifeInv'
<1> USE DEF LifeInv
<1>1. /\ LoopTurn /\ hdl["factory"] = "active" /\ phase = "loop" /\ fault = "none"
      /\ UNCHANGED <<phase, at, mods, testRefs, sdl2Refs, robbed>>
  BY DEF FactoryCreates, FactoryFails, LoopTurn, HandlesClosed, counts
<1>2. /\ \A x : Finds(x)' <=> Finds(x)
      /\ \A x : Pending(x)' <=> Pending(x)
      /\ \A x : Finds(x) => Pending(x)
  BY <1>1, PendingKept
<1>3. factory /\ Pending("init")
  BY <1>1 DEF HandlesClosed, Open
<1>4. PICK state \in {"idle", "closing"} :
        /\ hdl' = Becomes({"factory"}, state)
        /\ state = "idle" => UNCHANGED <<mem, factory, fault>>
        /\ state = "closing" =>
             /\ mem' = mem \cup {"entity"} /\ ~factory'
             /\ Finds("exec") /\ Finds("any")
             /\ fault' = IF {"exec", "ideas", "init"} \subseteq mem
                         THEN "none" ELSE "stale"
  BY DEF FactoryCreates, FactoryFails
<1>5. /\ hdl' \in [Handle -> HandleState]
      /\ \A h \in Handle : hdl'[h] = IF h = "factory" THEN state ELSE hdl[h]
  BY <1>4, BecomesState, BlocksAndHandles DEF HandleState
<1>6. fault' = "none"
  <2>1. state = "closing" => {"exec", "ideas", "init"} \subseteq mem
    BY <1>1, <1>2, <1>3, <1>4, OrderIsSequence DEF BlocksOwned
  <2>2. QED
    BY <1>1, <1>4, <2>1
<1>7. ReferencesCounted' /\ Referring' = Referring
  BY <1>1, <1>2, <1>5, BlocksAndHandles, ReferencesKept
<1>8. Sdl2Counted'
  <2>1. "sdl2" \in mem' <=> "sdl2" \in mem
    BY <1>4
  <2>2. hdl'["run"] = hdl["run"]
    BY <1>5, BlocksAndHandles
  <2>3. QED
    BY <1>1, <1>7, <2>1, <2>2, Sdl2Kept
<1>9. BlocksOwned'
  <2>1. mem' = mem \/ mem' = mem \cup {"entity"}
    BY <1>4
  <2>2. "factory" \in mem /\ hdl'["factory"] \in Open \cup {"closing"}
    BY <1>1, <1>5, BlocksAndHandles DEF BlocksOwned, Open
  <2>3. QED
    BY <1>1, <1>2, <1>3, <1>5, <2>1, <2>2, BlocksAndHandles, OrderIsSequence
       DEF BlocksOwned
<1>10. HandlesClosed'
  <2>1. factory' <=> state = "idle"
    BY <1>3, <1>4
  <2>2. hdl'["factory"] = state /\ ("sdl2" \in mem' <=> "sdl2" \in mem)
    BY <1>4, <1>5, BlocksAndHandles
  <2>3. QED
    BY <1>1, <1>2, <1>3, <1>5, <2>1, <2>2, BlocksAndHandles DEF HandlesClosed, Open
<1>11. mem' \subseteq Block /\ factory' \in BOOLEAN
  <2>1. mem' \subseteq Block
    BY <1>4, BlocksAndHandles DEF TypeOK
  <2>2. factory' = FALSE \/ factory' = factory
    BY DEF FactoryCreates, FactoryFails
  <2>3. factory' \in BOOLEAN
    BY <2>2, Zenon DEF TypeOK
  <2>4. QED
    BY <2>1, <2>3
<1>12. testRefs' \in Nat /\ sdl2Refs' \in Nat /\ robbed' \in BOOLEAN
  BY <1>1 DEF TypeOK
<1>13. QED
  BY <1>1, <1>5, <1>6, <1>7, <1>8, <1>9, <1>10, <1>11, <1>12, AfterCallback

(* What the handles of the runner, the cases and the poll have to do with  *)
(* the rest.                                                               *)
LEMMA RunnerStep ==
  ASSUME LifeInv, LoopTurn, UNCHANGED <<phase, at, mods, factory>>,
         hdl' \in [Handle -> HandleState],
         \A h \in {"thread", "factory"} : hdl'[h] = hdl[h],
         hdl'["poll"] \in {"none", "idle", "closing", "gone"},
         hdl'["poll"] = "idle" <=> "sdl2" \in mem',
         mem' \subseteq Block,
         \A x \in Block \ (Referrers \cup {"sdl2", "poll"}) : x \in mem' <=> x \in mem,
         "sdl2" \in mem' <=> Pending("sdl2") /\ ~robbed',
         \A h \in Script \cup {"win", "poll"} :
           h \in mem' <=> hdl'[h] \in Open \cup {"closing"},
         "run" \in mem' <=> testRefs' > 0,
         testRefs' \in Nat, sdl2Refs' \in Nat, robbed' \in BOOLEAN,
         fault' \in {"none", "again"}, ReferencesCounted', Sdl2Counted'
  PROVE  LifeInv'
<1> USE DEF LifeInv
<1>1. /\ \A x : Finds(x)' <=> Finds(x)
      /\ \A x : Pending(x)' <=> Pending(x)
  BY PendingKept
<1>2. \A x \in {"exec", "any", "lua", "null", "init", "test", "ideas", "entity",
                "thread", "factory"} : x \in mem' <=> x \in mem
  BY BlocksAndHandles
<1>3. \A h \in Handle \ {"run"} : h \in mem' <=> hdl'[h] \in Open \cup {"closing"}
  <2> SUFFICES ASSUME NEW h \in Handle \ {"run"}
               PROVE  h \in mem' <=> hdl'[h] \in Open \cup {"closing"}
    OBVIOUS
  <2>1. CASE h \in {"thread", "factory"}
    BY <1>2, <2>1, BlocksAndHandles DEF BlocksOwned
  <2>2. CASE h \in Script \cup {"win", "poll"}
    BY <2>2
  <2>3. QED
    BY <2>1, <2>2, BlocksAndHandles
<1>4. BlocksOwned'
  BY <1>1, <1>2, <1>3, OrderIsSequence DEF BlocksOwned
<1>5. HandlesClosed'
  BY <1>1 DEF HandlesClosed
<1>6. factory' \in BOOLEAN
  BY Zenon DEF TypeOK
<1>7. QED
  BY <1>4, <1>5, <1>6, AfterCallback

(* In the first loop main()'s reference to core/sdl2 is there unless it    *)
(* was taken, and the handles that are to be called have their blocks.     *)
LEMMA RunnerThere ==
  ASSUME LifeInv, LoopTurn, NEW h \in Referrers, hdl[h] \in {"active", "closing"}
  PROVE  /\ phase = "loop" /\ fault = "none"
         /\ h # "run" => h \in mem
         /\ h \in Referring => "run" \in mem /\ testRefs > 0
         /\ h \in Script => /\ Finds("lua") /\ "lua" \in mem
                            /\ "thread" \in mem /\ hdl["thread"] = "idle"
<1> USE DEF LifeInv
<1>1. phase = "loop" /\ fault = "none"
  BY DEF LoopTurn, ReferencesCounted
<1>2. h # "run" => h \in mem
  BY BlocksAndHandles DEF BlocksOwned, Open
<1>3. h \in Referring => "run" \in mem /\ testRefs > 0
  BY ReferringFinite DEF ReferencesCounted, BlocksOwned
<1>4. ASSUME h \in Script
      PROVE  /\ Finds("lua") /\ "lua" \in mem
             /\ "thread" \in mem /\ hdl["thread"] = "idle"
  <2>1. Finds("lua")
    BY <1>4 DEF ReferencesCounted
  <2>2. Pending("lua")
    BY <1>1, <2>1 DEF Pending, Finds, ToSet
  <2>3. QED
    BY <2>1, <2>2, BlocksAndHandles, OrderIsSequence DEF BlocksOwned, HandlesClosed, Open
<1>5. QED
  BY <1>1, <1>2, <1>3, <1>4

(* What triggering the cases does to the runner.                           *)
LEMMA Triggered ==
  ASSUME LifeInv, NEW goOn \in SUBSET (Script \cup {"win"}), NEW lost \in SUBSET {"poll"},
         TestsTriggered(goOn, lost)
  PROVE  /\ LoopTurn /\ phase = "loop" /\ fault = "none"
         /\ UNCHANGED <<phase, at, mods, factory, fault>>
         /\ \A x : Pending(x) <=> Finds(x)
         /\ ~robbed /\ "win" \notin Referring
         /\ "sdl2" \in mem <=> Finds("sdl2")
         /\ Finds("sdl2") => sdl2Refs = 1
         /\ hdl' \in [Handle -> HandleState]
         /\ \A h \in {"thread", "factory"} : hdl'[h] = hdl[h]
         /\ hdl'["poll"] = IF "poll" \in lost THEN "closing" ELSE hdl["poll"]
         /\ hdl'["run"] = "closing"
         /\ \A h \in Script \cup {"win"} :
              /\ hdl[h] = "none" /\ h \notin mem
              /\ hdl'[h] = IF h \in goOn THEN "active" ELSE "none"
         /\ testRefs' \in Nat /\ testRefs' > 0 /\ "run" \in mem
         /\ "win" \in Referring' <=> "win" \in goOn
         /\ ReferencesCounted'
<1> USE DEF LifeInv
<1>1. /\ LoopTurn /\ fault = "none" /\ hdl["run"] = "active"
      /\ UNCHANGED <<phase, at, mods, factory, fault>>
      /\ goOn \cap Script # {} => Finds("lua")
      /\ testRefs' = testRefs + Cardinality(goOn)
      /\ hdl' = [h \in Handle |-> IF h \in {"run"} \cup lost THEN "closing"
                                  ELSE IF h \in goOn THEN "active" ELSE hdl[h]]
  BY DEF TestsTriggered, LoopTurn
<1>2. "run" \in Referrers /\ "run" \in Handle
  BY BlocksAndHandles
<1>3. phase = "loop" /\ "run" \in Referring /\ "run" \in mem
  <2>1. "run" \in Referring
    BY <1>1 DEF Referring
  <2>2. QED
    BY <1>1, <1>2, <2>1, RunnerThere
<1>4. \A x : Pending(x) <=> Finds(x)
  BY <1>3 DEF Pending, Finds, ToSet
<1>5. \A h \in Script \cup {"win"} : hdl[h] = "none" /\ h \in Handle /\ h # "run" /\ h \notin lost
  BY <1>1, BlocksAndHandles DEF ReferencesCounted
<1>6. ~robbed
  BY <1>1 DEF Sdl2Counted
<1>7. Referring = {"run"}
  BY <1>1, <1>5 DEF Referring
<1>8. /\ hdl' \in [Handle -> HandleState]
      /\ \A h \in {"thread", "factory"} : hdl'[h] = hdl[h]
      /\ hdl'["poll"] = IF "poll" \in lost THEN "closing" ELSE hdl["poll"]
      /\ hdl'["run"] = "closing"
  BY <1>1, BlocksAndHandles DEF TypeOK, HandleState
<1>9. \A h \in Script \cup {"win"} :
        /\ hdl[h] = "none" /\ h \notin mem
        /\ hdl'[h] = IF h \in goOn THEN "active" ELSE "none"
  BY <1>1, <1>5 DEF BlocksOwned, Open
<1>10. Referring' = goOn \cup {"run"} /\ "run" \notin goOn
  BY <1>8, <1>9, BlocksAndHandles DEF Referring
<1>11. IsFiniteSet(goOn) /\ Cardinality(goOn) \in Nat
  <2>1. goOn \subseteq Referrers
    BY BlocksAndHandles
  <2>2. QED
    BY <2>1, BlocksAndHandles, FS_Subset, FS_CardinalityType
<1>12. testRefs = 1 /\ Cardinality(Referring') = Cardinality(goOn) + 1
  BY <1>7, <1>10, <1>11, FS_Singleton, FS_AddElement DEF ReferencesCounted
<1>13. \A s \in Script : hdl'[s] \in {"active", "closing"} => Finds("lua")'
  BY <1>1, <1>9 DEF Finds
<1>14. ReferencesCounted'
  BY <1>1, <1>3, <1>8, <1>9, <1>11, <1>12, <1>13, BlocksAndHandles DEF ReferencesCounted
<1>15. ("sdl2" \in mem <=> Finds("sdl2")) /\ (Finds("sdl2") => sdl2Refs = 1)
  BY <1>4, <1>6, <1>7 DEF BlocksOwned, Sdl2Counted
<1>16. "win" \in Referring' <=> "win" \in goOn
  BY <1>10
<1>17. testRefs' \in Nat /\ testRefs' > 0
  BY <1>1, <1>11, <1>12
<1>18. QED
  BY <1>1, <1>3, <1>4, <1>6, <1>7, <1>8, <1>9, <1>14, <1>15, <1>16, <1>17

(* The runner has run the cases: the window of core/sdl2 is not asked for, *)
(* has been opened, or could not be.                                       *)
LEMMA RunTestsStep ==
  ASSUME LifeInv, NEW scripts \in SUBSET Script,
         \/ RunTests(scripts) \/ RunTestsOpeningWindow(scripts)
         \/ RunTestsFailingWindow(scripts)
  PROVE  LifeInv'
<1> USE DEF LifeInv
<1>1. PICK opened \in SUBSET {"win"}, lost \in SUBSET {"poll"} :
        /\ TestsTriggered(scripts \cup opened, lost)
        /\ \/ /\ ~Finds("sdl2") /\ opened = {} /\ lost = {}
              /\ mem' = mem \cup scripts /\ UNCHANGED <<sdl2Refs, robbed>>
           \/ /\ Finds("sdl2") /\ opened = {"win"} /\ lost = {}
              /\ mem' = mem \cup scripts \cup {"win"}
              /\ sdl2Refs' = sdl2Refs + 1 /\ robbed' = robbed
           \/ /\ Finds("sdl2") /\ opened = {} /\ lost = PollLost
              /\ mem' = (mem \cup scripts) \ Sdl2Lost
              /\ sdl2Refs' = sdl2Refs - 1 /\ robbed' = TRUE
  <2>1. CASE RunTests(scripts)
    <3>1. /\ TestsTriggered(scripts \cup {}, {}) /\ ~Finds("sdl2")
          /\ mem' = mem \cup scripts /\ UNCHANGED <<sdl2Refs, robbed>>
      <4>1. scripts \cup {} = scripts
        OBVIOUS
      <4>2. QED
        BY <2>1, <4>1 DEF RunTests
    <3>2. QED
      BY <3>1
  <2>2. CASE RunTestsOpeningWindow(scripts)
    BY <2>2 DEF RunTestsOpeningWindow
  <2>3. CASE RunTestsFailingWindow(scripts)
    <3>1. PollLost \in SUBSET {"poll"}
      BY DEF PollLost
    <3>2. scripts \cup {} = scripts
      OBVIOUS
    <3>3. TestsTriggered(scripts \cup {}, PollLost)
      BY <2>3, <3>2 DEF RunTestsFailingWindow
    <3>4. QED
      BY <2>3, <3>1, <3>3 DEF RunTestsFailingWindow
  <2>4. QED
    BY <2>1, <2>2, <2>3
<1> DEFINE goOn == scripts \cup opened
<1>2. goOn \in SUBSET (Script \cup {"win"})
  OBVIOUS
<1>3. TestsTriggered(goOn, lost)
  BY <1>1
<1>4. /\ "win" \in goOn <=> opened = {"win"}
      /\ opened # {"win"} => opened = {}
      /\ \A s \in Script : s \in goOn <=> s \in scripts
  BY BlocksAndHandles
<1> HIDE DEF goOn
<1>5. /\ LoopTurn /\ phase = "loop" /\ fault = "none"
      /\ UNCHANGED <<phase, at, mods, factory, fault>>
      /\ \A x : Pending(x) <=> Finds(x)
      /\ ~robbed /\ "win" \notin Referring
      /\ "sdl2" \in mem <=> Finds("sdl2")
      /\ Finds("sdl2") => sdl2Refs = 1
      /\ hdl' \in [Handle -> HandleState]
      /\ \A h \in {"thread", "factory"} : hdl'[h] = hdl[h]
      /\ hdl'["poll"] = IF "poll" \in lost THEN "closing" ELSE hdl["poll"]
      /\ hdl'["run"] = "closing"
      /\ \A h \in Script \cup {"win"} :
           /\ hdl[h] = "none" /\ h \notin mem
           /\ hdl'[h] = IF h \in goOn THEN "active" ELSE "none"
      /\ testRefs' \in Nat /\ testRefs' > 0 /\ "run" \in mem
      /\ "win" \in Referring' <=> "win" \in goOn
      /\ ReferencesCounted'
  BY <1>2, <1>3, Triggered
<1>6. \/ /\ ~Finds("sdl2") /\ opened = {} /\ lost = {}
         /\ mem' = mem \cup scripts /\ sdl2Refs' = sdl2Refs /\ ~robbed'
      \/ /\ Finds("sdl2") /\ opened = {"win"} /\ lost = {}
         /\ mem' = mem \cup scripts \cup {"win"} /\ sdl2Refs' = 2 /\ ~robbed'
      \/ /\ Finds("sdl2") /\ opened = {} /\ lost = {"poll"}
         /\ mem' = (mem \cup scripts) \ {"sdl2"} /\ sdl2Refs' = 0 /\ robbed'
  BY <1>1, <1>5 DEF PollLost, Sdl2Lost
<1>7. /\ "sdl2" \in mem' <=> Pending("sdl2") /\ ~robbed'
      /\ mem' \subseteq Block
      /\ \A x \in Block \ (Referrers \cup {"sdl2", "poll"}) : x \in mem' <=> x \in mem
      /\ "run" \in mem' /\ ("poll" \in mem' <=> "poll" \in mem)
  BY <1>5, <1>6, BlocksAndHandles DEF TypeOK
<1>8. \A h \in Script \cup {"win"} : h \in mem' <=> hdl'[h] \in Open \cup {"closing"}
  <2>1. \A h \in Script \cup {"win"} : h \in mem' <=> h \in goOn
    BY <1>4, <1>5, <1>6, BlocksAndHandles
  <2>2. QED
    BY <1>5, <2>1 DEF Open
<1>9. /\ hdl["poll"] = "idle" <=> "sdl2" \in mem
      /\ "poll" \in mem <=> hdl["poll"] \in Open \cup {"closing"}
      /\ hdl["poll"] \in {"none", "idle", "closing", "gone"}
  BY BlocksAndHandles DEF BlocksOwned, HandlesClosed
<1>10. /\ hdl'["poll"] \in {"none", "idle", "closing", "gone"}
       /\ hdl'["poll"] = "idle" <=> "sdl2" \in mem'
       /\ "poll" \in mem' <=> hdl'["poll"] \in Open \cup {"closing"}
  BY <1>5, <1>6, <1>7, <1>9, BlocksAndHandles DEF Open
<1>11. Sdl2Counted' /\ sdl2Refs' \in Nat
  <2>1. sdl2Refs' \in Nat
    BY <1>6 DEF TypeOK
  <2>2. ~Finds("sdl2") => sdl2Refs = 0
    BY <1>5 DEF Sdl2Counted
  <2>3. "sdl2" \in mem' <=> Finds("sdl2") /\ opened = {"win"}
    BY <1>5, <1>6, <1>7
  <2>4. "win" \in Referring' <=> opened = {"win"}
    BY <1>4, <1>5
  <2>5. phase' = "loop" /\ hdl'["run"] = "closing"
    BY <1>5
  <2>6. QED
    BY <1>6, <2>1, <2>2, <2>3, <2>4, <2>5 DEF Sdl2Counted
<1>12. /\ \A h \in Script \cup {"win", "poll"} :
            h \in mem' <=> hdl'[h] \in Open \cup {"closing"}
       /\ "run" \in mem' <=> testRefs' > 0
       /\ fault' \in {"none", "again"}
  BY <1>5, <1>7, <1>8, <1>10
<1>13. robbed' \in BOOLEAN
  BY <1>1, Zenon DEF TypeOK
<1>14. QED
  BY <1>5, <1>7, <1>10, <1>11, <1>12, <1>13, RunnerStep

(* There is no memory for the window test: the program dies where it is.   *)
LEMMA WithoutMemoryStep ==
  ASSUME LifeInv, RunTestsWithoutMemory
  PROVE  LifeInv'
<1>1. /\ LoopTurn /\ fault' = "null"
      /\ UNCHANGED <<phase, at, mods, mem, hdl, factory, testRefs, sdl2Refs, robbed>>
  BY DEF RunTestsWithoutMemory, counts
<1>2. /\ \A x : Finds(x)' <=> Finds(x)
      /\ \A x : Pending(x)' <=> Pending(x)
      /\ Referring' = Referring
  BY <1>1, PendingKept DEF Referring
<1>3. BlocksOwned' /\ HandlesClosed' /\ ReferencesCounted' /\ Sdl2Counted'
  BY <1>1, <1>2 DEF LifeInv, BlocksOwned, HandlesClosed, ReferencesCounted, Sdl2Counted
<1>4. QED
  BY <1>1, <1>3, AfterCallback DEF LifeInv, TypeOK

(* What changes with the references that the runner loses, or not, when a  *)
(* handle of its cases, or its own, goes from a state to another.          *)
LEMMA ReferenceLost ==
  ASSUME LifeInv, NEW h \in Referrers, NEW state \in {"closing", "gone"},
         LoopTurn, UNCHANGED <<phase, at, mods>>,
         hdl[h] \in {"active", "closing"},
         \A k \in Referrers : hdl'[k] = IF k = h THEN state ELSE hdl[k],
         state = "closing" /\ h \in Script => hdl[h] = "active",
         state = "gone" => hdl[h] = "closing",
         testRefs' = IF h \in Referring /\ (state = "gone" \/ h \in Script)
                     THEN testRefs - 1 ELSE testRefs
  PROVE  /\ ReferencesCounted' /\ testRefs' \in Nat
         /\ h \in {"run", "win"} => h \in Referring
         /\ "win" \in Referring' <=> "win" \in Referring /\ ~(h = "win" /\ state = "gone")
         /\ hdl'["run"] = "active" => hdl["run"] = "active"
<1> USE DEF LifeInv
<1>1. phase = "loop" /\ fault = "none"
  BY RunnerThere
<1>2. h \in {"run", "win"} => h \in Referring
  BY DEF Referring
<1>3. hdl["run"] # "active" \/ h = "run"
  BY BlocksAndHandles DEF ReferencesCounted
<1>4. \A k \in Referrers : k = "run" \/ k = "win" \/ k \in Script
  BY BlocksAndHandles
<1>5. \A k \in Referrers : hdl'[k] \in {"none", "active", "closing", "gone"}
  BY DEF ReferencesCounted
<1>6. hdl'["run"] = "active" => hdl["run"] = "active"
  BY BlocksAndHandles
<1>7. /\ hdl'["run"] = "active" => \A k \in Script \cup {"win"} : hdl'[k] = "none"
      /\ \A s \in Script : hdl'[s] \in {"active", "closing"} => Finds("lua")'
  <2>1. hdl'["run"] = "active" => h # "run"
    BY BlocksAndHandles
  <2>2. ~(hdl'["run"] = "active")
    BY <1>3, <1>6, <2>1
  <2>3. \A s \in Script : hdl[s] \in {"active", "closing"} => Finds("lua")
    BY DEF ReferencesCounted
  <2>4. Finds("lua") => Finds("lua")'
    BY DEF Finds
  <2>5. \A s \in Script : hdl'[s] \in {"active", "closing"} => hdl[s] \in {"active", "closing"}
    BY BlocksAndHandles
  <2>6. QED
    BY <2>2, <2>3, <2>4, <2>5
<1>8. CASE h \in Referring /\ (state = "gone" \/ h \in Script)
  <2>1. Referring' = Referring \ {h}
    <3>1. \A k \in {"run", "win"} : k \in Referring' <=> k \in Referring /\ k # h
      <4>1. \A s \in Script : s \notin {"run", "win"}
        BY BlocksAndHandles
      <4>2. \A k \in {"run", "win"} : k = h => state = "gone"
        BY <1>8, <4>1
      <4>3. QED
        BY <4>1, <4>2, BlocksAndHandles DEF Referring
    <3>2. \A s \in Script : s \in Referring' <=> s \in Referring /\ s # h
      BY BlocksAndHandles DEF Referring
    <3>3. \A k : k \in Referring \/ k \in Referring' => k \in {"run", "win"} \/ k \in Script
      BY DEF Referring
    <3>4. QED
      BY <3>1, <3>2, <3>3
  <2>2. /\ Cardinality(Referring') = Cardinality(Referring) - 1
        /\ Cardinality(Referring) \in Nat /\ Cardinality(Referring) > 0
    BY <1>8, <2>1, ReferringFinite, FS_RemoveElement
  <2>3. testRefs' = Cardinality(Referring') /\ testRefs' \in Nat
    BY <1>8, <2>2 DEF ReferencesCounted
  <2>4. ReferencesCounted'
    BY <1>1, <1>5, <1>7, <2>3 DEF ReferencesCounted
  <2>5. "win" \in Referring' <=> "win" \in Referring /\ ~(h = "win" /\ state = "gone")
    BY <1>8, <2>1, BlocksAndHandles
  <2>6. QED
    BY <1>2, <1>6, <2>3, <2>4, <2>5
<1>9. CASE ~(h \in Referring /\ (state = "gone" \/ h \in Script))
  <2>1. Referring' = Referring
    <3>1. \A k \in {"run", "win"} : k \in Referring' <=> k \in Referring
      <4>1. \A k \in {"run", "win"} : k = h => state = "closing"
        BY <1>2, <1>9
      <4>2. \A s \in Script : s \notin {"run", "win"}
        BY BlocksAndHandles
      <4>3. QED
        BY <4>1, <4>2, BlocksAndHandles DEF Referring
    <3>2. \A s \in Script : s \in Referring' <=> s \in Referring
      <4>1. h \in Script => h \notin Referring /\ hdl[h] # "active"
        BY <1>9 DEF Referring
      <4>2. QED
        BY <4>1, BlocksAndHandles DEF Referring
    <3>3. \A k : k \in Referring \/ k \in Referring' => k \in {"run", "win"} \/ k \in Script
      BY DEF Referring
    <3>4. QED
      BY <3>1, <3>2, <3>3
  <2>2. testRefs' = testRefs /\ testRefs' = Cardinality(Referring') /\ testRefs' \in Nat
    BY <1>9, <2>1 DEF ReferencesCounted, TypeOK
  <2>3. ReferencesCounted'
    BY <1>1, <1>5, <1>7, <2>2 DEF ReferencesCounted
  <2>4. ~(h = "win" /\ state = "gone")
    BY <1>2, <1>9
  <2>5. QED
    BY <1>2, <1>6, <2>1, <2>2, <2>3, <2>4
<1>10. QED
  BY <1>8, <1>9

(* A callback of the runner's handle, or of one of its cases'.             *)
LEMMA ReferenceStep ==
  ASSUME LifeInv, NEW h \in Referrers,
         \/ h = "run" /\ RunClosed
         \/ h \in Script /\ (ScriptRuns(h) \/ ScriptClosed(h))
         \/ h = "win" /\ (WindowTimesOut \/ WindowCloseRequested \/ WindowClosed)
  PROVE  LifeInv'
<1> USE DEF LifeInv
<1>1. /\ LoopTurn /\ hdl[h] \in {"active", "closing"}
      /\ UNCHANGED <<phase, at, mods, factory>> /\ UNCHANGED robbed
  BY DEF RunClosed, ScriptRuns, ScriptClosed, WindowTimesOut, WindowCloseRequested,
         WindowClosed, FinalizeWindow, counts
<1>2. /\ phase = "loop" /\ fault = "none"
      /\ h # "run" => h \in mem
      /\ h \in Referring => "run" \in mem /\ testRefs > 0
      /\ h \in Script => /\ Finds("lua") /\ "lua" \in mem
                         /\ "thread" \in mem /\ hdl["thread"] = "idle"
  BY <1>1, RunnerThere
<1>3. /\ h \in Handle /\ h \notin {"thread", "poll", "factory"}
      /\ h \in Script => h \notin {"run", "win"}
      /\ h \in {"run", "win"} => h \in Referring
      /\ hdl[h] = "active" => h \in Referring
  BY <1>1, BlocksAndHandles DEF Referring
<1>4. PICK state \in {"closing", "gone"}, freed \in SUBSET {h, "run"} :
        /\ hdl' = Becomes({h}, state)
        /\ mem' = mem \ freed
        /\ h # "run" => (h \in freed <=> state = "gone")
        /\ "run" \in freed <=> testRefs' # testRefs /\ testRefs = 1
        /\ fault' \in {"none", "again"}
        /\ state = "closing" /\ h \in Script => hdl[h] = "active"
        /\ state = "gone" => hdl[h] = "closing"
        /\ testRefs' = IF h \in Referring /\ (state = "gone" \/ h \in Script)
                       THEN testRefs - 1 ELSE testRefs
        /\ sdl2Refs' = IF h = "win" /\ state = "gone" THEN sdl2Refs - 1 ELSE sdl2Refs
  <2>1. CASE h = "run" /\ RunClosed
    <3>1. /\ hdl' = Becomes({"run"}, "gone") /\ hdl["run"] = "closing"
          /\ testRefs' = testRefs - 1 /\ sdl2Refs' = sdl2Refs
          /\ mem' = mem \ (IF testRefs = 1 THEN {"run"} ELSE {})
          /\ fault' = "none"
      BY <1>2, <1>3, <2>1 DEF RunClosed, TestUnref
    <3> DEFINE lostRun == IF testRefs = 1 THEN {"run"} ELSE {}
    <3>2. /\ lostRun \in SUBSET {h, "run"} /\ testRefs \in Nat
          /\ "run" \in lostRun <=> testRefs = 1
      BY DEF TypeOK
    <3>3. mem' = mem \ lostRun
      BY <3>1
    <3> HIDE DEF lostRun
    <3> USE <3>2
    <3>4. WITNESS "gone" \in {"closing", "gone"}, lostRun \in SUBSET {h, "run"}
    <3>5. QED
      BY <1>3, <2>1, <3>1, <3>2, <3>3
  <2>2. CASE h \in Script /\ ScriptRuns(h)
    <3>1. /\ hdl' = Becomes({h}, "closing") /\ hdl[h] = "active"
          /\ testRefs' = testRefs - 1 /\ sdl2Refs' = sdl2Refs
          /\ mem' = mem \ (IF testRefs = 1 THEN {"run"} ELSE {})
          /\ fault' = "none"
      BY <1>2, <1>3, <2>2 DEF ScriptRuns, TestUnref
    <3> DEFINE lostRun == IF testRefs = 1 THEN {"run"} ELSE {}
    <3>2. /\ lostRun \in SUBSET {h, "run"} /\ testRefs \in Nat /\ h \notin lostRun
          /\ "run" \in lostRun <=> testRefs = 1
      BY <1>3, <2>2 DEF TypeOK
    <3>3. mem' = mem \ lostRun
      BY <3>1
    <3> HIDE DEF lostRun
    <3> USE <3>2
    <3>4. WITNESS "closing" \in {"closing", "gone"}, lostRun \in SUBSET {h, "run"}
    <3>5. QED
      BY <1>3, <2>2, <3>1, <3>2, <3>3
  <2>3. CASE h \in Script /\ ScriptClosed(h)
    <3>1. hdl' = Becomes({h}, "gone")
      BY <1>2, <2>3 DEF ScriptClosed, Becomes
    <3>2. /\ hdl[h] = "closing" /\ testRefs' = testRefs /\ sdl2Refs' = sdl2Refs
          /\ mem' = mem \ {h} /\ fault' = "none"
      BY <1>2, <2>3 DEF ScriptClosed, counts
    <3>3. h \notin Referring
      BY <1>3, <2>3, <3>2 DEF Referring
    <3>4. QED
      BY <1>3, <2>3, <3>1, <3>2, <3>3
  <2>4. CASE h = "win" /\ (WindowTimesOut \/ WindowCloseRequested)
    <3>1. /\ hdl' = Becomes({"win"}, "closing") /\ mem' = mem \ {}
          /\ testRefs' = testRefs /\ sdl2Refs' = sdl2Refs
          /\ fault' \in {"none", "again"}
      BY <2>4 DEF WindowTimesOut, WindowCloseRequested, FinalizeWindow, counts
    <3>2. {} \in SUBSET {h, "run"}
      OBVIOUS
    <3>3. QED
      BY <1>3, <2>4, <3>1, <3>2
  <2>5. CASE h = "win" /\ WindowClosed
    <3>1. "sdl2" \in mem /\ sdl2Refs = 2
      BY <1>3, <2>5 DEF Sdl2Counted
    <3>2. PollLost = {} /\ Sdl2Lost = {}
      BY <3>1 DEF PollLost, Sdl2Lost
    <3>3. hdl' = Becomes({"win"}, "gone") /\ hdl["win"] = "closing"
      BY <2>5, <3>2 DEF WindowClosed, Becomes
    <3>4. /\ testRefs' = testRefs - 1 /\ sdl2Refs' = sdl2Refs - 1
          /\ mem' = mem \ ({"win"} \cup IF testRefs = 1 THEN {"run"} ELSE {})
          /\ fault' = "none"
      BY <1>2, <1>3, <2>5, <3>1, <3>2 DEF WindowClosed, TestUnref
    <3> DEFINE lostWin == {"win"} \cup IF testRefs = 1 THEN {"run"} ELSE {}
    <3>5. /\ lostWin \in SUBSET {h, "run"} /\ testRefs \in Nat /\ h \in lostWin
          /\ "run" \in lostWin <=> testRefs = 1
      BY <2>5 DEF TypeOK
    <3>6. mem' = mem \ lostWin
      BY <3>4
    <3> HIDE DEF lostWin
    <3> USE <3>5
    <3>7. WITNESS "gone" \in {"closing", "gone"}, lostWin \in SUBSET {h, "run"}
    <3>8. QED
      BY <1>3, <2>5, <3>3, <3>4, <3>5, <3>6
  <2>6. QED
    BY <2>1, <2>2, <2>3, <2>4, <2>5
<1>5. /\ hdl' \in [Handle -> HandleState]
      /\ \A k \in Handle : hdl'[k] = IF k = h THEN state ELSE hdl[k]
  <2>1. {h} \in SUBSET Handle /\ state \in HandleState /\ hdl' = Becomes({h}, state)
    BY <1>3, <1>4 DEF HandleState
  <2>2. /\ hdl' \in [Handle -> HandleState]
        /\ \A k \in Handle : hdl'[k] = IF k \in {h} THEN state ELSE hdl[k]
    BY <2>1, BecomesState
  <2>3. QED
    BY <2>2
<1>6. /\ ReferencesCounted' /\ testRefs' \in Nat
      /\ "win" \in Referring' <=> "win" \in Referring /\ ~(h = "win" /\ state = "gone")
      /\ hdl'["run"] = "active" => hdl["run"] = "active"
  <2>1. \A k \in Referrers : hdl'[k] = IF k = h THEN state ELSE hdl[k]
    BY <1>5, BlocksAndHandles
  <2>2. QED
    BY <1>1, <1>4, <2>1, ReferenceLost
<1>7. \A x : x # h /\ x # "run" => (x \in mem' <=> x \in mem)
  BY <1>4
<1>8. /\ "sdl2" \in mem' <=> "sdl2" \in mem
      /\ "poll" \in mem' <=> "poll" \in mem
      /\ \A x \in Block \ (Referrers \cup {"sdl2", "poll"}) : x \in mem' <=> x \in mem
      /\ mem' \subseteq Block
  BY <1>4, <1>7, BlocksAndHandles DEF TypeOK
<1>9. Sdl2Counted' /\ sdl2Refs' \in Nat
  <2>1. CASE h = "win" /\ state = "gone"
    BY <1>1, <1>2, <1>3, <1>4, <1>6, <1>8, <2>1 DEF Sdl2Counted
  <2>2. CASE ~(h = "win" /\ state = "gone")
    BY <1>1, <1>4, <1>6, <1>8, <2>2, Sdl2Kept DEF TypeOK
  <2>3. QED
    BY <2>1, <2>2
<1>10. \A k \in Script \cup {"win", "poll"} : k \in mem' <=> hdl'[k] \in Open \cup {"closing"}
  <2> SUFFICES ASSUME NEW k \in Script \cup {"win", "poll"}
               PROVE  k \in mem' <=> hdl'[k] \in Open \cup {"closing"}
    OBVIOUS
  <2>1. k \in Handle /\ k # "run" /\ (k \in mem <=> hdl[k] \in Open \cup {"closing"})
    BY BlocksAndHandles DEF BlocksOwned
  <2>2. CASE k = h
    BY <1>2, <1>4, <1>5, <2>1, <2>2 DEF Open
  <2>3. CASE k # h
    BY <1>5, <1>7, <2>1, <2>3
  <2>4. QED
    BY <2>2, <2>3
<1>11. "run" \in mem' <=> testRefs' > 0
  <2>1. "run" \in mem <=> testRefs > 0
    BY DEF BlocksOwned
  <2>2. "run" \in mem' <=> "run" \in mem /\ ~(testRefs' # testRefs /\ testRefs = 1)
    BY <1>4
  <2>3. testRefs \in Nat /\ (testRefs' = testRefs \/ testRefs' = testRefs - 1)
    BY <1>4 DEF TypeOK
  <2>4. QED
    BY <1>6, <2>1, <2>2, <2>3
<1>12. /\ \A k \in {"thread", "factory"} : hdl'[k] = hdl[k]
       /\ hdl'["poll"] = hdl["poll"]
  BY <1>3, <1>5, BlocksAndHandles
<1>13. /\ hdl'["poll"] \in {"none", "idle", "closing", "gone"}
       /\ hdl'["poll"] = "idle" <=> "sdl2" \in mem'
       /\ "sdl2" \in mem' <=> Pending("sdl2") /\ ~robbed'
  BY <1>1, <1>8, <1>12 DEF HandlesClosed, BlocksOwned
<1>14. robbed' \in BOOLEAN
  BY <1>1, Zenon DEF TypeOK
<1>15. QED
  BY <1>1, <1>4, <1>5, <1>6, <1>8, <1>9, <1>10, <1>11, <1>12, <1>13, <1>14, RunnerStep

(* A handle that was closing is closed, and what it is part of is freed.   *)
LEMMA ClosedStep ==
  ASSUME LifeInv, NEW h \in {"thread", "poll", "factory"}, Closed(h)
  PROVE  LifeInv'
<1> USE DEF LifeInv
<1>1. /\ LoopTurn /\ fault = "none" /\ phase \in {"loop", "drain"}
      /\ hdl[h] = "closing" /\ hdl' = Becomes({h}, "gone") /\ mem' = mem \ {h}
      /\ UNCHANGED <<phase, at, mods, factory, testRefs, sdl2Refs, robbed, fault>>
  BY DEF Closed, LoopTurn, counts
<1>2. /\ hdl' \in [Handle -> HandleState]
      /\ \A k \in Handle : hdl'[k] = IF k = h THEN "gone" ELSE hdl[k]
  <2>1. {h} \in SUBSET Handle /\ "gone" \in HandleState
    BY BlocksAndHandles DEF HandleState
  <2>2. /\ hdl' \in [Handle -> HandleState]
        /\ \A k \in Handle : hdl'[k] = IF k \in {h} THEN "gone" ELSE hdl[k]
    BY <1>1, <2>1, BecomesState
  <2>3. QED
    BY <2>2
<1>3. /\ \A x : Finds(x)' <=> Finds(x)
      /\ \A x : Pending(x)' <=> Pending(x)
  BY <1>1, PendingKept
<1>4. \A k \in Referrers : hdl'[k] = hdl[k]
  BY <1>2, BlocksAndHandles
<1>5. /\ ReferencesCounted' /\ Referring' = Referring
  <2>1. phase \notin {"load", "loop"} => \A k \in Referrers : hdl[k] \in {"none", "gone"}
    BY DEF ReferencesCounted
  <2>2. QED
    BY <1>1, <1>3, <1>4, <2>1, ReferencesKept
<1>6. Sdl2Counted'
  BY <1>1, <1>4, <1>5, BlocksAndHandles, Sdl2Kept
<1>7. BlocksOwned'
  BY <1>1, <1>2, <1>3, BlocksAndHandles, OrderIsSequence DEF BlocksOwned, Open
<1>8. HandlesClosed'
  BY <1>1, <1>2, <1>3, BlocksAndHandles DEF HandlesClosed, Open
<1>9. factory' \in BOOLEAN /\ robbed' \in BOOLEAN
  BY <1>1, Zenon DEF TypeOK
<1>10. QED
  BY <1>1, <1>2, <1>5, <1>6, <1>7, <1>8, <1>9, AfterCallback DEF TypeOK

LEMMA CallbackStep ==
  ASSUME LifeInv, Callback
  PROVE  LifeInv'
<1>1. CASE \E scripts \in SUBSET Script :
             \/ RunTests(scripts) \/ RunTestsOpeningWindow(scripts)
             \/ RunTestsFailingWindow(scripts)
  BY <1>1, RunTestsStep
<1>2. CASE \E s \in Script : ScriptRuns(s) \/ ScriptClosed(s)
  BY <1>2, ReferenceStep, BlocksAndHandles
<1>3. CASE WindowTimesOut \/ WindowCloseRequested \/ WindowClosed
  BY <1>3, ReferenceStep, BlocksAndHandles
<1>4. CASE RunClosed
  BY <1>4, ReferenceStep, BlocksAndHandles
<1>5. CASE ThreadClosed \/ FactoryClosed \/ PollClosed
  BY <1>5, ClosedStep DEF ThreadClosed, FactoryClosed, PollClosed
<1>6. QED
  BY <1>1, <1>2, <1>3, <1>4, <1>5, FactoryStep, WithoutMemoryStep DEF Callback

-----------------------------------------------------------------------------
(* main().                                                                 *)

(* What is left to show of a step outside of loading.                      *)
LEMMA AfterMain ==
  ASSUME LifeInv, mods' = mods, phase' \in {"loop", "unload", "drain"},
         at' \in 1 .. (Len(Order) + 1),
         mem' \subseteq Block, hdl' \in [Handle -> HandleState],
         factory' \in BOOLEAN, testRefs' \in Nat, sdl2Refs' \in Nat,
         robbed' = robbed, fault' = "none",
         BlocksOwned', HandlesClosed', ReferencesCounted', Sdl2Counted'
  PROVE  LifeInv'
<1>1. TypeOK'
  BY DEF LifeInv, TypeOK
<1>2. NoStaleUse' /\ LeaksNothing' /\ LoadedInOrder'
  BY DEF NoStaleUse, LeaksNothing, LoadedInOrder, LifeInv
<1>3. QED
  BY <1>1, <1>2 DEF LifeInv

(* After the first loop the cases have let go of what they had.            *)
LEMMA CasesOver ==
  ASSUME LifeInv, phase \notin {"load", "loop"}
  PROVE  /\ \A h \in Referrers : hdl[h] \in {"none", "gone"}
         /\ Referring = {} /\ mem \cap Script = {} /\ "win" \notin mem
         /\ testRefs = 0 /\ "run" \notin mem
         /\ sdl2Refs = IF "sdl2" \in mem THEN 1 ELSE 0
<1> USE DEF LifeInv
<1>1. \A h \in Referrers : hdl[h] \in {"none", "gone"}
  BY DEF ReferencesCounted
<1>2. Referring = {}
  BY <1>1, BlocksAndHandles DEF Referring
<1>3. \A h \in Script \cup {"win"} : h \notin mem
  BY <1>1, BlocksAndHandles DEF BlocksOwned, Open
<1>4. testRefs = 0 /\ "run" \notin mem
  BY <1>2, FS_EmptySet DEF ReferencesCounted, BlocksOwned
<1>5. QED
  BY <1>1, <1>2, <1>3, <1>4 DEF Sdl2Counted

(* A module is unloaded: the handle it closes, if it has one, was open.    *)
LEMMA UnloadStep ==
  ASSUME LifeInv, Unload, ~UnloadsGone
  PROVE  LifeInv'
<1> USE DEF LifeInv
<1> DEFINE Own(m) == IF m = "lua" THEN {"thread"}
                     ELSE IF m = "sdl2" THEN {"poll"}
                     ELSE IF m = "init" /\ factory THEN {"factory"}
                     ELSE {}
<1>0. /\ phase = "unload"
      /\ mem \cap Script = {}
      /\ "sdl2" \in mem => PollLost = {"poll"} /\ Sdl2Lost = {"sdl2"}
  <2>1. phase = "unload"
    BY DEF Unload, DelExec, DelAny, DelLua, DelNull, DelSdl2, DelInit, DelTest, Unloading
  <2>2. QED
    BY <2>1, CasesOver DEF PollLost, Sdl2Lost
<1>1. PICK m \in ToSet(Order), blocks \in SUBSET Block :
        /\ Unloading(m, blocks)
        /\ blocks = {m} \cup (IF m = "exec" THEN {"ideas"}
                              ELSE IF m = "init" THEN {"entity"} ELSE {})
        /\ \/ Own(m) = {} /\ UNCHANGED <<hdl, fault>>
           \/ Close(Own(m))
        /\ IF m = "init" THEN factory' = FALSE ELSE factory' = factory
        /\ sdl2Refs' = IF m = "sdl2" THEN sdl2Refs - 1 ELSE sdl2Refs
  <2>1. CASE DelExec \/ DelAny \/ DelNull \/ DelTest
    BY <2>1, OrderIsSequence, BlocksAndHandles DEF DelExec, DelAny, DelNull, DelTest
  <2>2. CASE DelLua
    BY <1>0, <2>2, OrderIsSequence, BlocksAndHandles DEF DelLua
  <2>3. CASE DelSdl2
    <3>1. "sdl2" \in mem
      BY <2>3 DEF DelSdl2, Unloading
    <3>2. Unloading("sdl2", {"sdl2"}) /\ Close({"poll"})
      BY <1>0, <2>3, <3>1 DEF DelSdl2
    <3>3. QED
      BY <2>3, <3>2, OrderIsSequence, BlocksAndHandles DEF DelSdl2
  <2>4. CASE DelInit
    <3>1. "init" \in ToSet(Order) /\ {"init", "entity"} \in SUBSET Block
      BY OrderIsSequence, BlocksAndHandles
    <3>2. Close(Own("init"))
      BY <2>4 DEF DelInit
    <3> HIDE DEF Own
    <3>3. QED
      BY <2>4, <3>1, <3>2 DEF DelInit
  <2>5. QED
    BY <2>1, <2>2, <2>3, <2>4 DEF Unload
<1>2. /\ phase = "unload" /\ phase' = "unload" /\ fault = "none"
      /\ at' \in 1 .. (Len(Order) + 1) /\ mods' = mods
      /\ Finds(m) /\ Pending(m) /\ m \in mem
      /\ \A x : Finds(x)' <=> Finds(x)
      /\ \A x : Pending(x)' <=> Pending(x) /\ x # m
  BY <1>1, UnloadingEnds
<1>3. mem' = mem \ blocks /\ testRefs' = testRefs /\ robbed' = robbed
  BY <1>1 DEF Unloading
<1>4. /\ hdl' \in [Handle -> HandleState] /\ fault' = "none"
      /\ \A h \in Handle : hdl'[h] = IF h \in Own(m) THEN "closing" ELSE hdl[h]
      /\ \A h \in Own(m) : hdl[h] \in Open
  <2>1. CASE Own(m) = {} /\ UNCHANGED <<hdl, fault>>
    BY <1>2, <2>1 DEF TypeOK
  <2>2. CASE Close(Own(m))
    <3>1. Own(m) \in SUBSET Handle /\ \A h \in Own(m) : hdl[h] \in Open
      BY <1>2, BlocksAndHandles DEF HandlesClosed, Open
    <3> HIDE DEF Own
    <3>2. hdl' = Becomes(Own(m), "closing") /\ fault' = "none"
      BY <2>2, <3>1 DEF Close
    <3>3. "closing" \in HandleState
      BY DEF HandleState
    <3>4. QED
      BY <3>1, <3>2, <3>3, BecomesState
  <2>3. QED
    BY <1>1, <2>1, <2>2
<1>5. Own(m) \subseteq {"thread", "poll", "factory"}
  OBVIOUS
<1>6. ReferencesCounted' /\ Referring' = Referring /\ \A h \in Referrers : hdl'[h] = hdl[h]
  <2> HIDE DEF Own
  <2>1. \A h \in Referrers : hdl'[h] = hdl[h]
    BY <1>4, <1>5, BlocksAndHandles
  <2>2. \A h \in Referrers : hdl[h] \in {"none", "gone"}
    BY <1>0, CasesOver
  <2>3. QED
    BY <1>2, <1>3, <2>1, <2>2, ReferencesKept
<1>7. Sdl2Counted' /\ sdl2Refs' \in Nat
  <2>1. Referring = {} /\ sdl2Refs = IF "sdl2" \in mem THEN 1 ELSE 0
    BY <1>0, CasesOver
  <2>2. "sdl2" \in mem' <=> "sdl2" \in mem /\ m # "sdl2"
    BY <1>1, <1>3
  <2>3. hdl'["run"] # "active"
    BY <1>0, <1>6, CasesOver, BlocksAndHandles
  <2>4. sdl2Refs' = IF m = "sdl2" THEN sdl2Refs - 1 ELSE sdl2Refs
    BY <1>1
  <2>5. QED
    BY <1>2, <1>6, <2>1, <2>2, <2>3, <2>4 DEF Sdl2Counted
<1>8. BlocksOwned'
  <2>1. \A x \in ToSet(Order) \ {"test", "sdl2"} : x \in mem' <=> Pending(x)'
    BY <1>1, <1>2, <1>3, OrderIsSequence DEF BlocksOwned
  <2>2. \A h \in Handle \ {"run"} : h \in mem' <=> hdl'[h] \in Open \cup {"closing"}
    <3> HIDE DEF Own
    <3>1. \A h \in Handle \ {"run"} : h \in mem' <=> h \in mem
      BY <1>1, <1>3, OrderIsSequence, BlocksAndHandles
    <3>2. \A h \in Handle \ {"run"} :
            hdl'[h] \in Open \cup {"closing"} <=> hdl[h] \in Open \cup {"closing"}
      BY <1>4
    <3>3. QED
      BY <3>1, <3>2 DEF BlocksOwned
  <2>3. "run" \in mem' <=> "run" \in mem
    BY <1>1, <1>3, OrderIsSequence
  <2>4. /\ "test" \in mem' => Pending("test")' \/ ~Finds("test")'
        /\ Pending("test")' => "test" \in mem'
    BY <1>1, <1>2, <1>3 DEF BlocksOwned
  <2>5. ("ideas" \in mem' => Pending("exec")') /\ ("entity" \in mem' => Pending("init")')
    BY <1>1, <1>2, <1>3 DEF BlocksOwned
  <2>6. "sdl2" \in mem' <=> Pending("sdl2")' /\ ~robbed'
    BY <1>1, <1>2, <1>3 DEF BlocksOwned
  <2>7. QED
    BY <1>2, <1>3, <2>1, <2>2, <2>3, <2>4, <2>5, <2>6 DEF BlocksOwned
<1>9. HandlesClosed'
  <2>1. /\ hdl'["thread"] = IF m = "lua" THEN "closing" ELSE hdl["thread"]
        /\ hdl'["poll"] = IF m = "sdl2" THEN "closing" ELSE hdl["poll"]
        /\ hdl'["factory"] = IF m = "init" /\ factory THEN "closing" ELSE hdl["factory"]
    BY <1>4, BlocksAndHandles
  <2>2. factory' <=> factory /\ m # "init"
    BY <1>1
  <2>3. "sdl2" \in mem' <=> "sdl2" \in mem /\ m # "sdl2"
    BY <1>1, <1>3
  <2>4. QED
    BY <1>2, <2>1, <2>2, <2>3 DEF HandlesClosed, Open
<1>10. mem' \subseteq Block /\ factory' \in BOOLEAN /\ testRefs' \in Nat
  <2>1. factory' = FALSE \/ factory' = factory
    BY <1>1
  <2>2. factory' \in BOOLEAN
    BY <2>1, Zenon DEF TypeOK
  <2>3. QED
    BY <1>3, <2>2 DEF TypeOK
<1> HIDE DEF Own
<1>11. QED
  BY <1>2, <1>3, <1>4, <1>6, <1>7, <1>8, <1>9, <1>10, AfterMain

(* main() finds a module gone: it is core/sdl2, and main() was robbed.     *)
LEMMA UnloadsGoneStep ==
  ASSUME LifeInv, UnloadsGone
  PROVE  LifeInv'
<1> USE DEF LifeInv
<1>1. /\ phase = "unload" /\ at <= Len(mods) /\ mods[at] \notin mem /\ fault' = "gone"
      /\ UNCHANGED <<phase, at, mods, mem, hdl, factory, testRefs, sdl2Refs, robbed>>
  BY DEF UnloadsGone, counts
<1>2. /\ \A x : Finds(x)' <=> Finds(x)
      /\ \A x : Pending(x)' <=> Pending(x)
      /\ Referring' = Referring
  BY <1>1 DEF Finds, Pending, Referring
<1>3. /\ at \in DOMAIN mods /\ mods[at] \in ToSet(Order) /\ at >= at
  <2>1. at \in Nat \ {0} /\ mods \in Seq(ToSet(Order))
    BY OrderIsSequence DEF TypeOK
  <2>2. QED
    BY <1>1, <2>1
<1>4. Pending(mods[at])
  BY <1>1, <1>3 DEF Pending
<1>5. mods[at] = "sdl2" /\ robbed
  BY <1>1, <1>3, <1>4 DEF BlocksOwned
<1>6. NoStaleUse' /\ LeaksNothing' /\ LoadedInOrder'
  BY <1>1, <1>5 DEF NoStaleUse, LeaksNothing, LoadedInOrder
<1>7. BlocksOwned' /\ HandlesClosed' /\ ReferencesCounted' /\ Sdl2Counted'
  BY <1>1, <1>2 DEF BlocksOwned, HandlesClosed, ReferencesCounted, Sdl2Counted
<1>8. TypeOK'
  BY <1>1 DEF TypeOK
<1>9. QED
  BY <1>6, <1>7, <1>8

(* Where main() goes on without touching a module.                         *)
LEMMA MainStep ==
  ASSUME LifeInv, Started \/ LoadingDone \/ LoopEnds \/ Walk \/ Exit
  PROVE  LifeInv'
<1> USE DEF LifeInv
<1>1. CASE Started
  <2>1. /\ phase = "start" /\ phase' \in {"load", "exit"}
        /\ mods = <<>> /\ mem = {}
        /\ UNCHANGED <<at, mods, mem, hdl, factory, testRefs, sdl2Refs, robbed, fault>>
    BY <1>1 DEF Started, LoadedInOrder, counts
  <2>2. DOMAIN mods = {} /\ Len(mods) = 0
    BY <2>1, EmptySeq
  <2>3. (\A x : ~Finds(x)' /\ ~Finds(x)) /\ (\A x : ~Pending(x)' /\ ~Pending(x))
    BY <2>1, <2>2 DEF Finds, Pending, ToSet
  <2>4. TypeOK'
    BY <2>1 DEF TypeOK
  <2>5. LoadedInOrder'
    BY <2>1, <2>2 DEF LoadedInOrder, TypeOK
  <2>6. BlocksOwned'
    BY <2>1, <2>3 DEF BlocksOwned
  <2>7. HandlesClosed'
    BY <2>1, <2>3 DEF HandlesClosed
  <2>8. ReferencesCounted' /\ Sdl2Counted'
    <3>1. Referring' = Referring
      BY <2>1 DEF Referring
    <3>2. hdl["run"] # "active"
      BY <2>1, BlocksAndHandles DEF ReferencesCounted
    <3>3. ReferencesCounted'
      BY <2>1, <2>3, <3>1 DEF ReferencesCounted
    <3>4. Sdl2Counted'
      BY <2>1, <3>1 DEF Sdl2Counted
    <3>5. QED
      BY <3>3, <3>4
  <2>9. NoStaleUse' /\ LeaksNothing'
    BY <2>1 DEF NoStaleUse, LeaksNothing
  <2>10. QED
    BY <2>4, <2>5, <2>6, <2>7, <2>8, <2>9
<1>2. CASE LoadingDone
  <2>1. /\ phase = "load" /\ phase' = "loop" /\ fault = "none"
        /\ UNCHANGED <<at, mods, mem, hdl, factory, testRefs, sdl2Refs, robbed, fault>>
    BY <1>2 DEF LoadingDone, counts
  <2>2. (\A x : Finds(x)' <=> Finds(x)) /\ (\A x : Pending(x)' <=> Pending(x))
    BY <2>1 DEF Finds, Pending
  <2>3. BlocksOwned'
    BY <2>1, <2>2 DEF BlocksOwned
  <2>4. HandlesClosed'
    BY <2>1, <2>2 DEF HandlesClosed
  <2>5. ReferencesCounted' /\ Referring' = Referring
    BY <2>1, <2>2, ReferencesKept
  <2>6. Sdl2Counted'
    BY <2>1, <2>5, Sdl2Kept
  <2>7. QED
    BY <2>1, <2>3, <2>4, <2>5, <2>6, AfterMain DEF TypeOK
<1>3. CASE LoopEnds
  <2>1. /\ phase = "loop" /\ phase' = "unload" /\ at' = 1 /\ fault = "none"
        /\ \A h \in Handle : hdl[h] \notin {"active", "closing"}
        /\ UNCHANGED <<mods, mem, hdl, factory, testRefs, sdl2Refs, robbed, fault>>
    BY <1>3 DEF LoopEnds, LoopTurn, counts
  <2>2. \A x : Finds(x)' <=> Finds(x)
    BY <2>1 DEF Finds
  <2>3. \A x : Pending(x)' <=> Pending(x)
    <3>1. \A j \in DOMAIN mods : j >= 1
      BY DEF TypeOK
    <3>2. QED
      BY <2>1, <3>1 DEF Pending
  <2>4. BlocksOwned'
    BY <2>1, <2>2, <2>3 DEF BlocksOwned
  <2>5. HandlesClosed'
    BY <2>1, <2>3, BlocksAndHandles DEF HandlesClosed
  <2>6. \A h \in Referrers : hdl[h] \in {"none", "gone"}
    BY <2>1, BlocksAndHandles DEF ReferencesCounted
  <2>7. ReferencesCounted' /\ Sdl2Counted'
    <3>1. ReferencesCounted' /\ Referring' = Referring
      BY <2>1, <2>2, <2>6, ReferencesKept
    <3>2. QED
      BY <2>1, <3>1, Sdl2Kept
  <2>8. 1 \in 1 .. (Len(Order) + 1)
    BY OrderIsSequence
  <2>9. QED
    BY <2>1, <2>4, <2>5, <2>7, <2>8, AfterMain DEF TypeOK
<1>4. CASE Walk
  <2>1. /\ phase = "unload" /\ phase' = "drain" /\ at > Len(mods) /\ fault = "none"
        /\ hdl' = [h \in Handle |-> IF hdl[h] \in Open THEN "orphan" ELSE hdl[h]]
        /\ UNCHANGED <<at, mods, mem, factory, testRefs, sdl2Refs, robbed, fault>>
    BY <1>4 DEF Walk, counts
  <2>2. \A x : Finds(x)' <=> Finds(x)
    BY <2>1 DEF Finds
  <2>3. \A x : ~Pending(x)' /\ ~Pending(x)
    <3>1. \A j \in DOMAIN mods : ~(j >= at)
      BY <2>1 DEF TypeOK
    <3>2. QED
      BY <2>1, <3>1 DEF Pending
  <2>4. \A h \in Handle : hdl[h] \notin Open
    <3>1. \A h \in Referrers : hdl[h] \notin Open
      BY <2>1, CasesOver DEF Open
    <3>2. "sdl2" \notin mem
      BY <2>3 DEF BlocksOwned
    <3>3. \A h \in {"thread", "poll", "factory"} : hdl[h] \notin Open
      BY <2>3, <3>2 DEF HandlesClosed, Open
    <3>4. QED
      BY <3>1, <3>3, BlocksAndHandles
  <2>5. hdl' = hdl
    BY <2>1, <2>4 DEF TypeOK
  <2>6. BlocksOwned'
    BY <2>1, <2>2, <2>3, <2>5 DEF BlocksOwned
  <2>7. HandlesClosed'
    BY <2>1, <2>3, <2>5 DEF HandlesClosed
  <2>8. ReferencesCounted' /\ Sdl2Counted'
    <3>1. \A h \in Referrers : hdl[h] \in {"none", "gone"}
      BY <2>1, CasesOver
    <3>2. ReferencesCounted' /\ Referring' = Referring
      BY <2>1, <2>2, <2>5, <3>1, ReferencesKept
    <3>3. QED
      BY <2>1, <2>5, <3>2, Sdl2Kept
  <2>9. QED
    BY <2>1, <2>5, <2>6, <2>7, <2>8, AfterMain DEF TypeOK
<1>5. CASE Exit
  <2>1. /\ phase = "drain" /\ phase' = "exit" /\ fault = "none"
        /\ \A h \in Handle : hdl[h] # "closing"
        /\ UNCHANGED <<at, mods, mem, hdl, factory, testRefs, sdl2Refs, robbed, fault>>
    BY <1>5 DEF Exit, LoopTurn, counts
  <2>2. \A x : Finds(x)' <=> Finds(x)
    BY <2>1 DEF Finds
  <2>3. \A x : ~Pending(x)' /\ ~Pending(x)
    BY <2>1 DEF Pending
  <2>4. BlocksOwned' /\ HandlesClosed'
    BY <2>1, <2>2, <2>3 DEF BlocksOwned, HandlesClosed
  <2>5. ReferencesCounted' /\ Sdl2Counted'
    <3>1. \A h \in Referrers : hdl[h] \in {"none", "gone"}
      BY <2>1, CasesOver
    <3>2. ReferencesCounted' /\ Referring' = Referring
      BY <2>1, <2>2, <3>1, ReferencesKept
    <3>3. QED
      BY <2>1, <3>2, Sdl2Kept
  <2>6. LeaksNothing'
    <3>1. ("test" \in mem => ~Finds("test")) /\ "sdl2" \notin mem
      BY <2>3 DEF BlocksOwned
    <3>2. \A h \in {"thread", "poll", "factory"} : hdl[h] \notin Open
      BY <2>3, <3>1 DEF HandlesClosed, Open
    <3>3. \A h \in {"thread", "poll", "factory"} : h \notin mem
      BY <2>1, <3>2, BlocksAndHandles DEF BlocksOwned
    <3>4. "run" \notin mem /\ "win" \notin mem /\ mem \cap Script = {}
      BY <2>1, CasesOver
    <3>5. mem \subseteq {"test"}
      BY <2>3, <3>1, <3>3, <3>4, BlocksAndHandles, OrderIsSequence DEF BlocksOwned, TypeOK
    <3>6. QED
      BY <2>1, <3>1, <3>5 DEF LeaksNothing, Finds
  <2>7. TypeOK' /\ LoadedInOrder' /\ NoStaleUse'
    BY <2>1 DEF TypeOK, LoadedInOrder, NoStaleUse
  <2>8. QED
    BY <2>4, <2>5, <2>6, <2>7
<1>6. QED
  BY <1>1, <1>2, <1>3, <1>4, <1>5

-----------------------------------------------------------------------------
(* The life of the program.                                                *)

(* Every step keeps the invariant.                                         *)
LEMMA LifeStep ==
  ASSUME LifeInv, [Next]_vars
  PROVE  LifeInv'
<1>1. CASE UNCHANGED vars
  BY <1>1 DEF vars, LifeInv, TypeOK, LoadedInOrder, BlocksOwned, HandlesClosed,
              ReferencesCounted, Sdl2Counted, Referring, Pending, Finds, NoStaleUse,
              LeaksNothing, counts
<1>2. QED
  BY <1>1, LoadStep, CallbackStep, UnloadStep, UnloadsGoneStep, MainStep
     DEF Next, Main, Terminated

LEMMA LifeHolds == Spec => []LifeInv
<1>1. Init => LifeInv
  <2> SUFFICES ASSUME Init PROVE LifeInv
    OBVIOUS
  <2>1. /\ DOMAIN mods = {} /\ Len(mods) = 0 /\ mods \in Seq(ToSet(Order))
    BY EmptySeq DEF Init
  <2>2. (\A x : ~Finds(x)) /\ (\A x : ~Pending(x))
    BY <2>1 DEF Finds, Pending, ToSet
  <2>3. TypeOK /\ LoadedInOrder
    <3>1. hdl \in [Handle -> HandleState] /\ mem \subseteq Block /\ 1 \in 1 .. (7 + 1)
      BY DEF Init, HandleState
    <3>2. LoadedInOrder
      BY <2>1, OrderIsSequence DEF Init, LoadedInOrder
    <3>3. TypeOK
      BY <2>1, <3>1, OrderIsSequence DEF Init, TypeOK
    <3>4. QED
      BY <3>2, <3>3
  <2>4. BlocksOwned /\ HandlesClosed
    BY <2>2, BlocksAndHandles DEF Init, BlocksOwned, HandlesClosed, Open
  <2>5. ReferencesCounted /\ Sdl2Counted
    <3>1. Referring = {}
      BY BlocksAndHandles DEF Init, Referring
    <3>2. QED
      BY <3>1, BlocksAndHandles, FS_EmptySet DEF Init, ReferencesCounted, Sdl2Counted
  <2>6. NoStaleUse /\ LeaksNothing
    BY DEF Init, NoStaleUse, LeaksNothing
  <2>7. QED
    BY <2>3, <2>4, <2>5, <2>6 DEF LifeInv
<1>2. LifeInv /\ [Next]_vars => LifeInv'
  BY LifeStep
<1>3. QED
  BY <1>1, <1>2, PTL DEF Spec

(* For any set of cases that schedule a thread, the variables keep their   *)
(* types; the counts, which are unsigned, never go below zero.             *)
THEOREM TypeCorrect == Spec => []TypeOK
<1>1. LifeInv => TypeOK
  BY DEF LifeInv
<1>2. QED
  BY <1>1, LifeHolds, PTL

(* For any set of cases that schedule a thread, whatever fails, every      *)
(* handle libuv has still to call lies in a block that is there.           *)
THEOREM OpenHandlesAreAlive == Spec => []HandlesAlive
<1>1. LifeInv => HandlesAlive
  <2> SUFFICES ASSUME LifeInv, NEW h \in Handle, hdl[h] \in Open \cup {"closing"}
               PROVE  h \in mem
    BY DEF HandlesAlive
  <2> USE DEF LifeInv
  <2>1. CASE h = "run"
    <3>1. hdl[h] \in {"active", "closing"} /\ h \in Referring
      BY <2>1, BlocksAndHandles DEF Referring, ReferencesCounted, Open
    <3>2. QED
      BY <2>1, <3>1, ReferringFinite DEF ReferencesCounted, BlocksOwned
  <2>2. CASE h # "run"
    BY <2>2 DEF BlocksOwned
  <2>3. QED
    BY <2>1, <2>2
<1>2. QED
  BY <1>1, LifeHolds, PTL

(* For any set of cases that schedule a thread, once loading is over no    *)
(* callback uses what has been freed, no del_() closes a handle twice, and *)
(* main() finds no module gone but core/sdl2, and that one only after the  *)
(* window test has released the reference that was main()'s.               *)
THEOREM NothingStaleIsUsed == Spec => []NoStaleUse
<1>1. LifeInv => NoStaleUse
  BY DEF LifeInv
<1>2. QED
  BY <1>1, LifeHolds, PTL

(* For any set of cases that schedule a thread, whatever fails to load,    *)
(* main() finds no leak but the instance of a core/test whose runner could *)
(* not be made.                                                            *)
THEOREM NothingLeaks == Spec => []LeaksNothing
<1>1. LifeInv => LeaksNothing
  BY DEF LifeInv
<1>2. QED
  BY <1>1, LifeHolds, PTL
=============================================================================
