--------------------------- MODULE LuaThreadProofs ---------------------------
(***************************************************************************)
(* What holds of core/lua for any threads and pointers, any number of      *)
(* arguments and whatever the clients do with their references.            *)
(***************************************************************************)
EXTENDS LuaThread, TLAPS, FiniteSetTheorems, SequenceTheorems

-----------------------------------------------------------------------------
(* Cardinalities.                                                          *)

LEMMA CountedIn ==
  ASSUME NEW S, IsFiniteSet(S), NEW T \in SUBSET S
  PROVE  /\ IsFiniteSet(T) /\ Cardinality(T) \in Nat
         /\ Cardinality(T) = 0 <=> T = {}
BY FS_Subset, FS_CardinalityType, FS_EmptySet

(* A set that loses a subset loses its elements.                           *)
LEMMA Without ==
  ASSUME NEW S, IsFiniteSet(S), NEW T \in SUBSET S
  PROVE  Cardinality(S \ T) = Cardinality(S) - Cardinality(T)
<1>1. IsFiniteSet(T) /\ IsFiniteSet(S \ T)
  BY FS_Subset
<1>2. Cardinality((S \ T) \cup T) =
        Cardinality(S \ T) + Cardinality(T) - Cardinality((S \ T) \cap T)
  BY <1>1, FS_Union
<1>3. (S \ T) \cup T = S /\ (S \ T) \cap T = {}
  OBVIOUS
<1>4. Cardinality(S \ T) \in Nat /\ Cardinality(T) \in Nat
  BY <1>1, FS_CardinalityType
<1>5. Cardinality((S \ T) \cap T) = 0
  BY <1>3, FS_EmptySet
<1>6. Cardinality(S) = Cardinality(S \ T) + Cardinality(T) - 0
  BY <1>2, <1>3, <1>5
<1>7. QED
  BY <1>4, <1>6

(* What the change of one value does to how often each value is taken.     *)
Where(D, f, x) == {u \in D : f[u] = x}

LEMMA OneMoved ==
  ASSUME NEW D, IsFiniteSet(D), NEW f, NEW d \in D, NEW v, NEW x,
         NEW g, g[d] = v, \A u \in D : u # d => g[u] = f[u]
  PROVE  Cardinality(Where(D, g, x)) =
           Cardinality(Where(D, f, x))
             + (IF x = v THEN 1 ELSE 0) - (IF x = f[d] THEN 1 ELSE 0)
<1> DEFINE S == Where(D, f, x)
           T == Where(D, g, x)
<1>1. /\ IsFiniteSet(S) /\ Cardinality(S) \in Nat
      /\ IsFiniteSet(T) /\ Cardinality(T) \in Nat
  <2>1. S \subseteq D /\ T \subseteq D
    BY DEF Where
  <2>2. QED
    BY <2>1, CountedIn
<1>2. /\ \A u \in D \ {d} : u \in S <=> u \in T
      /\ d \in S <=> x = f[d]
      /\ d \in T <=> x = v
      /\ S \subseteq D /\ T \subseteq D
  BY DEF Where
<1> HIDE DEF S, T
<1>3. CASE d \in S /\ d \notin T
  <2>1. T = S \ {d}
    BY <1>2, <1>3
  <2>2. Cardinality(T) = Cardinality(S) - 1
    BY <1>1, <1>3, <2>1, FS_RemoveElement
  <2>3. QED
    BY <1>1, <1>2, <1>3, <2>2 DEF S, T
<1>4. CASE d \notin S /\ d \in T
  <2>1. T = S \cup {d}
    BY <1>2, <1>4
  <2>2. Cardinality(T) = Cardinality(S) + 1
    BY <1>1, <1>4, <2>1, FS_AddElement
  <2>3. QED
    BY <1>1, <1>2, <1>4, <2>2 DEF S, T
<1>5. CASE d \in S <=> d \in T
  <2>1. S = T
    BY <1>2, <1>5
  <2>2. x = f[d] <=> x = v
    BY <1>2, <1>5
  <2>3. Cardinality(T) = Cardinality(S) + 0 - 0
    BY <1>1, <2>1
  <2>4. QED
    BY <1>1, <2>2, <2>3 DEF S, T
<1>6. QED
  BY <1>3, <1>4, <1>5

-----------------------------------------------------------------------------
(* The terms of the counts.                                                *)

LEMMA CountsAreNat ==
  \A t \in Thread :
    /\ IsFiniteSet(Children(t)) /\ Cardinality(Children(t)) \in Nat
    /\ Cardinality(Children(t)) = 0 <=> Children(t) = {}
    /\ IsFiniteSet(PointersInto(t)) /\ Cardinality(PointersInto(t)) \in Nat
    /\ Cardinality(PointersInto(t)) = 0 <=> PointersInto(t) = {}
<1> SUFFICES ASSUME NEW t \in Thread
             PROVE  /\ IsFiniteSet(Children(t)) /\ Cardinality(Children(t)) \in Nat
                    /\ Cardinality(Children(t)) = 0 <=> Children(t) = {}
                    /\ IsFiniteSet(PointersInto(t)) /\ Cardinality(PointersInto(t)) \in Nat
                    /\ Cardinality(PointersInto(t)) = 0 <=> PointersInto(t) = {}
  OBVIOUS
<1>1. Children(t) \subseteq Thread /\ PointersInto(t) \subseteq Ptr
  BY DEF Children, PointersInto
<1>2. QED
  BY <1>1, FiniteAssumption, CountedIn

LEMMA BoolIsCount ==
  ASSUME NEW b \in BOOLEAN
  PROVE  Bool2Nat(b) \in {0, 1} /\ (Bool2Nat(b) = 1 <=> b)
BY DEF Bool2Nat

LEMMA SumIsZero ==
  ASSUME NEW c \in Nat, NEW q \in Nat, NEW h \in Nat,
         NEW m \in Nat, NEW a \in Nat, NEW r \in Nat,
         c + q + h + m + a + r = 0
  PROVE  c = 0 /\ q = 0 /\ h = 0 /\ m = 0 /\ a = 0 /\ r = 0
OBVIOUS

(* The slots that hold p, for any function of arguments.                   *)
Slots(f, p) ==
  {x \in Thread \X (1 .. MaxArgs) : x[2] \in DOMAIN f[x[1]] /\ f[x[1]][x[2]] = p}

LEMMA SlotsAreCounted ==
  ASSUME NEW f, NEW p
  PROVE  /\ IsFiniteSet(Slots(f, p)) /\ Cardinality(Slots(f, p)) \in Nat
         /\ Cardinality(Slots(f, p)) = 0 <=> Slots(f, p) = {}
<1>1. IsFiniteSet(1 .. MaxArgs)
  BY BoundAssumption, FS_Interval
<1>2. IsFiniteSet(Thread \X (1 .. MaxArgs))
  BY <1>1, FiniteAssumption, FS_Product
<1>3. Slots(f, p) \subseteq Thread \X (1 .. MaxArgs)
  BY DEF Slots
<1>4. QED
  BY <1>2, <1>3, CountedIn

(* Storing or unsetting a thread's values changes the slots by as many as  *)
(* hold the pointer.                                                       *)
LEMMA SlotsSplit ==
  ASSUME NEW f \in [Thread -> Seq(Ptr \cup {NIL})], NEW t \in Thread,
         Len(f[t]) <= MaxArgs, NEW p \in Ptr,
         NEW g, g[t] = <<>>, \A u \in Thread : u # t => g[u] = f[u]
  PROVE  /\ Cardinality(Slots(f, p)) = Cardinality(Slots(g, p)) + Occurrences(p, f[t])
         /\ Occurrences(p, f[t]) \in Nat
         /\ Occurrences(p, f[t]) = 0 <=> \A i \in DOMAIN f[t] : f[t][i] # p
<1> DEFINE I == {i \in DOMAIN f[t] : f[t][i] = p}
           T == {t} \X I
           F == Slots(f, p)
<1>1. /\ f[t] \in Seq(Ptr \cup {NIL}) /\ DOMAIN f[t] = 1 .. Len(f[t])
      /\ Len(f[t]) \in Nat /\ MaxArgs \in Nat
  BY BoundAssumption
<1>2. /\ IsFiniteSet(I) /\ Cardinality(I) \in Nat
      /\ Cardinality(I) = 0 <=> I = {}
  <2>1. IsFiniteSet(1 .. Len(f[t]))
    BY <1>1, FS_Interval
  <2>2. I \subseteq 1 .. Len(f[t])
    BY <1>1
  <2>3. QED
    BY <2>1, <2>2, CountedIn
<1>3. Cardinality(T) = Cardinality(I)
  <2>1. IsFiniteSet({t}) /\ Cardinality({t}) = 1
    BY FS_Singleton
  <2>2. Cardinality(T) = 1 * Cardinality(I)
    BY SMTT(30), <1>2, <2>1, FS_Product
  <2>3. QED
    BY <1>2, <2>2
<1>4. IsFiniteSet(F) /\ Cardinality(F) \in Nat
  BY SlotsAreCounted
<1>5. T \subseteq F
  <2>1. I \subseteq 1 .. MaxArgs
    BY <1>1
  <2>2. QED
    BY <2>1 DEF Slots
<1>6. Slots(g, p) = F \ T
  <2>1. \A x \in Thread \X (1 .. MaxArgs) : x \in Slots(g, p) <=> x \in F /\ x \notin T
    <3> TAKE x \in Thread \X (1 .. MaxArgs)
    <3>1. PICK u \in Thread, i \in 1 .. MaxArgs : x = <<u, i>>
      OBVIOUS
    <3>2. x[1] = u /\ x[2] = i
      BY <3>1
    <3>3. CASE u = t
      <4>1. g[u] = <<>> /\ DOMAIN g[u] = {}
        BY <3>3
      <4>2. x \notin Slots(g, p)
        BY <3>2, <4>1 DEF Slots
      <4>3. x \in F => x \in T
        BY <3>1, <3>2, <3>3 DEF Slots
      <4>4. QED
        BY <4>2, <4>3
    <3>4. CASE u # t
      BY <3>1, <3>2, <3>4 DEF Slots
    <3>5. QED
      BY <3>3, <3>4
  <2>2. F \subseteq Thread \X (1 .. MaxArgs) /\ Slots(g, p) \subseteq Thread \X (1 .. MaxArgs)
    BY DEF Slots
  <2>3. QED
    BY <2>1, <2>2
<1>7. Cardinality(Slots(g, p)) = Cardinality(F) - Cardinality(T)
  BY <1>4, <1>5, <1>6, Without
<1>8. Occurrences(p, f[t]) = Cardinality(I)
  BY DEF Occurrences
<1>9. I = {} <=> \A i \in DOMAIN f[t] : f[t][i] # p
  OBVIOUS
<1> HIDE DEF I, T, F
<1>10. QED
  BY <1>2, <1>3, <1>4, <1>7, <1>8, <1>9 DEF F

-----------------------------------------------------------------------------
(* What the invariant says of one object.                                  *)

(* The counts of a thread, of which each reference is a part.              *)
LEMMA Accounts ==
  ASSUME LuaInv, NEW t \in Thread
  PROVE  /\ refcnt[t] \in Nat /\ held[t] \in Nat
         /\ Bool2Nat(hdl[t] = "active") \in Nat
         /\ Cardinality(Children(t)) + Bool2Nat(hdl[t] = "active") <= refcnt[t]
         /\ Cardinality(PointersInto(t)) + Bool2Nat(hdl[t] = "active") <= refcnt[t]
         /\ held[t] + Bool2Nat(hdl[t] = "active") <= refcnt[t]
         /\ t = Main /\ modRef => 1 + Bool2Nat(hdl[t] = "active") <= refcnt[t]
         /\ t = running => 1 + Bool2Nat(hdl[t] = "active") <= refcnt[t]
         /\ refcnt[t] = 0 =>
              /\ Children(t) = {} /\ PointersInto(t) = {} /\ held[t] = 0
              /\ ~(t = Main /\ modRef) /\ hdl[t] # "active" /\ t # running
         /\ CanUse(t) => refcnt[t] > 0
         /\ refcnt[t] > 0 => hdl[t] \in Open \cup Orphaned
         /\ refcnt[t] > 0 /\ phase \in {"loop", "unload"} => hdl[t] \in Open
<1>1. /\ held[t] \in Int /\ held[t] >= 0 /\ refcnt[t] \in Int
      /\ hdl[t] \in Handle
      /\ modRef \in BOOLEAN
  BY DEF LuaInv, TypeOK, CountsTell
<1>2. /\ Cardinality(Children(t)) \in Nat /\ Cardinality(PointersInto(t)) \in Nat
      /\ Cardinality(Children(t)) = 0 <=> Children(t) = {}
      /\ Cardinality(PointersInto(t)) = 0 <=> PointersInto(t) = {}
  BY CountsAreNat
<1> DEFINE c == Cardinality(Children(t))
           q == Cardinality(PointersInto(t))
           m == Bool2Nat(t = Main /\ modRef)
           a == Bool2Nat(hdl[t] = "active")
           r == Bool2Nat(t = running)
<1>3. /\ m \in {0, 1} /\ (m = 1 <=> t = Main /\ modRef)
      /\ a \in {0, 1} /\ (a = 1 <=> hdl[t] = "active")
      /\ r \in {0, 1} /\ (r = 1 <=> t = running)
  BY BoolIsCount
<1>4. refcnt[t] = c + q + held[t] + m + a + r
  BY DEF LuaInv, RefcntAccurate
<1>5. /\ c \in Nat /\ (c = 0 <=> Children(t) = {})
      /\ q \in Nat /\ (q = 0 <=> PointersInto(t) = {})
  BY <1>2
<1> HIDE DEF c, q, m, a, r
<1>11. /\ refcnt[t] \in Nat /\ held[t] \in Nat /\ a \in Nat
       /\ c + a <= refcnt[t] /\ q + a <= refcnt[t] /\ held[t] + a <= refcnt[t]
       /\ m + a <= refcnt[t] /\ r + a <= refcnt[t]
  BY <1>1, <1>3, <1>4, <1>5
<1>12. refcnt[t] = 0 => c = 0 /\ q = 0 /\ held[t] = 0 /\ m = 0 /\ a = 0 /\ r = 0
  <2>1. m \in Nat /\ a \in Nat /\ r \in Nat /\ c \in Nat /\ q \in Nat /\ held[t] \in Nat
    BY <1>3, <1>5, <1>11
  <2>2. ASSUME refcnt[t] = 0
        PROVE  c = 0 /\ q = 0 /\ held[t] = 0 /\ m = 0 /\ a = 0 /\ r = 0
    <3>1. c + q + held[t] + m + a + r = 0
      BY <1>4, <2>2
    <3>2. QED
      BY ONLY ZenonT(30), <2>1, <3>1, SumIsZero
  <2>3. QED
    BY <2>2
<1>6. CanUse(t) => refcnt[t] > 0
  BY <1>3, <1>11 DEF CanUse
<1>7. /\ refcnt[t] > 0 => hdl[t] \in Open \cup Orphaned
      /\ refcnt[t] > 0 /\ phase \in {"loop", "unload"} => hdl[t] \in Open
  BY <1>1, <1>11 DEF LuaInv, CountsTell, PhasesOrdered, Handle, Open, Orphaned
<1>8. /\ t = Main /\ modRef => 1 + a <= refcnt[t]
      /\ t = running => 1 + a <= refcnt[t]
  BY <1>3, <1>11
<1>9. refcnt[t] = 0 =>
        /\ Children(t) = {} /\ PointersInto(t) = {} /\ held[t] = 0
        /\ ~(t = Main /\ modRef) /\ hdl[t] # "active" /\ t # running
  BY <1>3, <1>5, <1>12
<1>10. QED
  BY <1>6, <1>7, <1>8, <1>9, <1>11 DEF c, q, a

(* A base, the target of a pointer and the thread that runs are there.     *)
LEMMA ReferredIsThere ==
  ASSUME LuaInv
  PROVE  /\ \A t \in Thread : base[t] # None =>
              base[t] \in Thread /\ refcnt[base[t]] > 0
         /\ \A p \in Ptr : pth[p] # None =>
              pth[p] \in Thread /\ refcnt[pth[p]] > 0
         /\ running # None => running \in Thread /\ refcnt[running] > 0
<1>1. ASSUME NEW t \in Thread, base[t] # None
      PROVE  base[t] \in Thread /\ refcnt[base[t]] > 0
  <2>1. base[t] \in Thread
    BY <1>1 DEF LuaInv, TypeOK
  <2>2. t \in Children(base[t])
    BY DEF Children
  <2>3. QED
    BY <2>1, <2>2, Accounts
<1>2. ASSUME NEW p \in Ptr, pth[p] # None
      PROVE  pth[p] \in Thread /\ refcnt[pth[p]] > 0
  <2>1. pth[p] \in Thread
    BY <1>2 DEF LuaInv, TypeOK
  <2>2. p \in PointersInto(pth[p])
    BY DEF PointersInto
  <2>3. QED
    BY <2>1, <2>2, Accounts
<1>3. ASSUME running # None
      PROVE  running \in Thread /\ refcnt[running] > 0
  <2>1. running \in Thread
    BY <1>3 DEF LuaInv, TypeOK
  <2>2. QED
    BY <2>1, Accounts
<1>4. QED
  BY <1>1, <1>2, <1>3

(* The count of a pointer: what is held or stored has not been deleted.    *)
LEMMA PointerAccounts ==
  ASSUME LuaInv, NEW p \in Ptr
  PROVE  /\ pref[p] \in Nat /\ pheld[p] \in Nat
         /\ pheld[p] <= pref[p]
         /\ Cardinality(SlotsOf(p)) <= pref[p]
         /\ SlotsOf(p) = {} => pref[p] = pheld[p]
         /\ SlotsOf(p) = Slots(args, p)
         /\ pth[p] = None <=> pref[p] = 0
<1>1. SlotsOf(p) = Slots(args, p)
  BY DEF SlotsOf, Slots
<1>2. /\ Cardinality(SlotsOf(p)) \in Nat
      /\ Cardinality(SlotsOf(p)) = 0 <=> SlotsOf(p) = {}
  BY <1>1, SlotsAreCounted
<1>3. /\ pref[p] = pheld[p] + Cardinality(SlotsOf(p))
      /\ pheld[p] \in Int /\ pheld[p] >= 0
      /\ pth[p] = None <=> pref[p] = 0
  BY DEF LuaInv, TypeOK, RefcntAccurate, CountsTell
<1>4. QED
  BY <1>1, <1>2, <1>3

-----------------------------------------------------------------------------
(* Releasing references.                                                   *)

(* While nothing is orphaned, releasing references that are there closes   *)
(* the timers of those threads that lose their last one, and fails no      *)
(* assertion; a scheduled thread is not among them.                        *)
LEMMA Released ==
  ASSUME LuaInv, fault = "none", phase \in {"loop", "unload"},
         NEW drop \in [Thread -> Nat], NEW h \in [Thread -> Handle],
         UnrefThreads(drop, h),
         \A t \in Thread :
           /\ drop[t] + Bool2Nat(h[t] = "active") <= refcnt[t]
           /\ \/ h[t] = hdl[t]
              \/ h[t] \in Open /\ hdl[t] \in Open
              \/ drop[t] = 0 /\ hdl[t] = "closing" /\ h[t] = "gone"
  PROVE  /\ fault' = "none"
         /\ refcnt' \in [Thread -> Int] /\ hdl' \in [Thread -> Handle]
         /\ \A t \in Thread :
              /\ refcnt'[t] = refcnt[t] - drop[t]
              /\ hdl'[t] \in {"none", "closing", "gone"} => refcnt'[t] = 0
              /\ hdl'[t] \in Open => refcnt'[t] > 0
              /\ hdl'[t] = "active" <=> h[t] = "active"
              /\ hdl'[t] \in {"none", "gone"} <=> h[t] \in {"none", "gone"}
              /\ hdl'[t] \notin Orphaned
              /\ drop[t] = 0 => hdl'[t] = h[t]
              /\ drop[t] > 0 /\ drop[t] = refcnt[t] => hdl'[t] = "closing"
              /\ hdl'[t] = h[t] \/ hdl'[t] = "closing"
<1>1. ASSUME NEW t \in Thread
      PROVE  /\ refcnt[t] \in Nat /\ drop[t] \in Nat /\ drop[t] <= refcnt[t]
             /\ h[t] = "active" => drop[t] < refcnt[t]
             /\ hdl[t] \in Handle \ Orphaned
             /\ h[t] \in Handle \ Orphaned
             /\ Dies(drop, t) => h[t] \in Open
             /\ hdl[t] \in {"none", "closing", "gone"} => refcnt[t] = 0
             /\ hdl[t] \in Open => refcnt[t] > 0
  <2>1. /\ refcnt[t] \in Nat /\ drop[t] \in Nat
        /\ refcnt[t] > 0 => hdl[t] \in Open
    BY Accounts
  <2>2. Bool2Nat(h[t] = "active") \in {0, 1} /\ (Bool2Nat(h[t] = "active") = 1 <=> h[t] = "active")
    BY BoolIsCount
  <2>3. drop[t] <= refcnt[t] /\ (h[t] = "active" => drop[t] < refcnt[t])
    BY <2>1, <2>2
  <2>4. /\ hdl[t] \in {"none", "closing", "gone"} => refcnt[t] = 0
        /\ hdl[t] \in Open => refcnt[t] > 0
        /\ hdl[t] \in Handle \ Orphaned
    BY DEF LuaInv, TypeOK, CountsTell, PhasesOrdered
  <2>5. h[t] \in Handle \ Orphaned
    BY <2>4 DEF Open, Orphaned
  <2>6. Dies(drop, t) => h[t] \in Open
    BY <2>1, <2>3 DEF Dies, Open
  <2>7. QED
    BY <2>1, <2>3, <2>4, <2>5, <2>6
<1>2. /\ refcnt' = [t \in Thread |-> refcnt[t] - drop[t]]
      /\ hdl' = [t \in Thread |->
                   IF Dies(drop, t) /\ h[t] \in Open THEN "closing" ELSE h[t]]
  BY DEF UnrefThreads
<1>3. fault' = "none"
  <2>1. ~ \E t \in Thread : drop[t] > refcnt[t]
    BY <1>1
  <2>2. ~ \E t \in Thread : Dies(drop, t) /\ h[t] \notin Open
    BY <1>1
  <2>3. QED
    BY <2>1, <2>2 DEF UnrefThreads
<1>4. refcnt' \in [Thread -> Int]
  BY <1>1, <1>2
<1>5. hdl' \in [Thread -> Handle]
  BY <1>1, <1>2 DEF Handle
<1>6. ASSUME NEW t \in Thread
      PROVE  /\ refcnt'[t] = refcnt[t] - drop[t]
             /\ hdl'[t] \in {"none", "closing", "gone"} => refcnt'[t] = 0
             /\ hdl'[t] \in Open => refcnt'[t] > 0
             /\ hdl'[t] = "active" <=> h[t] = "active"
             /\ hdl'[t] \in {"none", "gone"} <=> h[t] \in {"none", "gone"}
             /\ hdl'[t] \notin Orphaned
             /\ drop[t] = 0 => hdl'[t] = h[t]
             /\ drop[t] > 0 /\ drop[t] = refcnt[t] => hdl'[t] = "closing"
             /\ hdl'[t] = h[t] \/ hdl'[t] = "closing"
  <2>1. refcnt'[t] = refcnt[t] - drop[t]
    BY <1>2
  <2>2. CASE Dies(drop, t)
    <3>1. hdl'[t] = "closing" /\ refcnt'[t] = 0 /\ h[t] = "idle" /\ drop[t] # 0
      BY <1>1, <1>2, <2>1, <2>2 DEF Dies, Open
    <3>2. QED
      BY <1>1, <2>1, <3>1 DEF Open, Orphaned
  <2>3. CASE ~Dies(drop, t)
    <3>1. hdl'[t] = h[t]
      BY <1>2, <2>3
    <3>2. drop[t] = 0 \/ refcnt'[t] > 0
      BY <1>1, <2>1, <2>3 DEF Dies
    <3>3. ~(drop[t] > 0 /\ drop[t] = refcnt[t])
      BY <2>3 DEF Dies
    <3>4. \/ h[t] = hdl[t]
          \/ h[t] \in Open /\ hdl[t] \in Open
          \/ drop[t] = 0 /\ hdl[t] = "closing" /\ h[t] = "gone"
      OBVIOUS
    <3>5. h[t] \in {"none", "closing", "gone"} => refcnt'[t] = 0
      BY <1>1, <2>1, <3>2, <3>4 DEF Open
    <3>6. h[t] \in Open => refcnt'[t] > 0
      BY <1>1, <2>1, <3>2, <3>4 DEF Open
    <3>7. QED
      BY <1>1, <2>1, <3>1, <3>3, <3>5, <3>6
  <2>4. QED
    BY <2>2, <2>3
<1>7. QED
  BY <1>3, <1>4, <1>5, <1>6

(* What releasing references to pointers does, and how many references to  *)
(* threads it releases.                                                    *)
LEMMA PointersReleased ==
  ASSUME LuaInv, NEW drop \in [Ptr -> Nat], UnrefPtrs(drop),
         \A p \in Ptr : drop[p] <= pref[p]
  PROVE  /\ pref' \in [Ptr -> Int] /\ pth' \in [Ptr -> Thread \cup {None}]
         /\ \A p \in Ptr :
              /\ pref'[p] = pref[p] - drop[p]
              /\ pth'[p] = None <=> pref'[p] = 0
         /\ ThreadsReleased(drop) \in [Thread -> Nat]
         /\ \A t \in Thread :
              /\ Cardinality(PointersInto(t)') =
                   Cardinality(PointersInto(t)) - ThreadsReleased(drop)[t]
              /\ ThreadsReleased(drop)[t] <= Cardinality(PointersInto(t))
<1>1. /\ pref' = [p \in Ptr |-> pref[p] - drop[p]]
      /\ pth' = [p \in Ptr |-> IF PtrDies(drop, p) THEN None ELSE pth[p]]
  BY DEF UnrefPtrs
<1>2. ASSUME NEW p \in Ptr
      PROVE  /\ pref[p] \in Nat /\ drop[p] \in Nat
             /\ pth[p] \in Thread \cup {None}
             /\ pth[p] = None <=> pref[p] = 0
  BY PointerAccounts DEF LuaInv, TypeOK
<1>3. pref' \in [Ptr -> Int] /\ pth' \in [Ptr -> Thread \cup {None}]
  BY <1>1, <1>2
<1>4. ASSUME NEW p \in Ptr
      PROVE  pref'[p] = pref[p] - drop[p] /\ (pth'[p] = None <=> pref'[p] = 0)
  <2>1. /\ pref'[p] = pref[p] - drop[p]
        /\ pth'[p] = IF PtrDies(drop, p) THEN None ELSE pth[p]
    BY <1>1
  <2>2. QED
    BY <1>2, <2>1 DEF PtrDies
<1>5. ASSUME NEW t \in Thread
      PROVE  /\ ThreadsReleased(drop)[t] \in Nat
             /\ Cardinality(PointersInto(t)') =
                  Cardinality(PointersInto(t)) - ThreadsReleased(drop)[t]
             /\ ThreadsReleased(drop)[t] <= Cardinality(PointersInto(t))
  <2> DEFINE Lost == {p \in Ptr : PtrDies(drop, p) /\ pth[p] = t}
  <2>1. Lost \subseteq PointersInto(t)
    BY DEF PointersInto
  <2>2. PointersInto(t)' = PointersInto(t) \ Lost
    <3>1. t # None
      BY NoneAssumption
    <3>2. QED
      BY <1>1, <3>1 DEF PointersInto
  <2>3. IsFiniteSet(PointersInto(t))
    BY CountsAreNat
  <2>4. Cardinality(Lost) \in Nat
    BY <2>1, <2>3, CountedIn
  <2>5. Cardinality(PointersInto(t) \ Lost) = Cardinality(PointersInto(t)) - Cardinality(Lost)
    BY <2>1, <2>3, Without
  <2>6. ThreadsReleased(drop)[t] = Cardinality(Lost)
    BY DEF ThreadsReleased
  <2>7. Cardinality(Lost) <= Cardinality(PointersInto(t))
    BY <2>1, <2>3, FS_Subset
  <2>8. QED
    BY <2>2, <2>4, <2>5, <2>6, <2>7
<1>6. ThreadsReleased(drop) \in [Thread -> Nat]
  <2>1. ThreadsReleased(drop) = [t \in Thread |-> ThreadsReleased(drop)[t]]
    BY DEF ThreadsReleased
  <2>2. QED
    BY <1>5, <2>1
<1>7. QED
  BY <1>3, <1>4, <1>5, <1>6

-----------------------------------------------------------------------------
(* What a step leaves alone.                                               *)

LEMMA Kept ==
  /\ UNCHANGED base => \A t \in Thread : Children(t)' = Children(t)
  /\ UNCHANGED pth => \A t \in Thread : PointersInto(t)' = PointersInto(t)
  /\ UNCHANGED args => \A p \in Ptr : SlotsOf(p)' = SlotsOf(p)
BY DEF Children, PointersInto, SlotsOf

(* The accounts of a thread are still right after a step that changes its  *)
(* count as much as what it counts.                                        *)
LEMMA ThreadBalance ==
  ASSUME TypeOK, TypeOK', RefcntAccurate, NEW t \in Thread,
         NEW c, c = Cardinality(Children(t)') - Cardinality(Children(t)),
         NEW q, q = Cardinality(PointersInto(t)') - Cardinality(PointersInto(t)),
         NEW m, m = Bool2Nat(t = Main /\ modRef') - Bool2Nat(t = Main /\ modRef),
         NEW a, a = Bool2Nat(hdl'[t] = "active") - Bool2Nat(hdl[t] = "active"),
         NEW r, r = Bool2Nat(t = running') - Bool2Nat(t = running),
         refcnt'[t] = refcnt[t] + c + q + (held'[t] - held[t]) + m + a + r
  PROVE  refcnt'[t] = Cardinality(Children(t)') + Cardinality(PointersInto(t)')
                        + held'[t]
                        + Bool2Nat(t = Main /\ modRef')
                        + Bool2Nat(hdl'[t] = "active") + Bool2Nat(t = running')
<1> DEFINE C == Cardinality(Children(t))
           Q == Cardinality(PointersInto(t))
           M == Bool2Nat(t = Main /\ modRef)
           A == Bool2Nat(hdl[t] = "active")
           R == Bool2Nat(t = running)
           C1 == Cardinality(Children(t)')
           Q1 == Cardinality(PointersInto(t)')
           M1 == Bool2Nat(t = Main /\ modRef')
           A1 == Bool2Nat(hdl'[t] = "active")
           R1 == Bool2Nat(t = running')
<1>1. C \in Int /\ Q \in Int
  BY CountsAreNat
<1>2. C1 \in Int /\ Q1 \in Int
  <2>1. Children(t)' \subseteq Thread /\ PointersInto(t)' \subseteq Ptr
    BY DEF Children, PointersInto
  <2>2. QED
    BY <2>1, FiniteAssumption, CountedIn
<1>3. M \in Int /\ A \in Int /\ R \in Int /\ M1 \in Int /\ A1 \in Int /\ R1 \in Int
  BY DEF Bool2Nat
<1>4. refcnt[t] = C + Q + held[t] + M + A + R
  BY DEF RefcntAccurate
<1>5. held[t] \in Int /\ held'[t] \in Int
  BY DEF TypeOK
<1>6. c = C1 - C /\ q = Q1 - Q /\ m = M1 - M /\ a = A1 - A /\ r = R1 - R
  OBVIOUS
<1>7. c \in Int /\ q \in Int /\ m \in Int /\ a \in Int /\ r \in Int
  BY <1>1, <1>2, <1>3, <1>6
<1> HIDE DEF C, Q, M, A, R, C1, Q1, M1, A1, R1
<1>8. refcnt'[t] = C1 + Q1 + held'[t] + M1 + A1 + R1
  BY <1>1, <1>2, <1>3, <1>4, <1>5, <1>6, <1>7
<1>9. QED
  BY <1>8 DEF C1, Q1, M1, A1, R1

LEMMA AccountsKept ==
  ASSUME RefcntAccurate,
         UNCHANGED <<refcnt, base, pth, held, modRef, running, args, pref, pheld>>,
         \A t \in Thread : hdl'[t] = "active" <=> hdl[t] = "active"
  PROVE  RefcntAccurate'
<1>1. \A t \in Thread : /\ Children(t)' = Children(t) /\ PointersInto(t)' = PointersInto(t)
                        /\ Bool2Nat(hdl'[t] = "active") = Bool2Nat(hdl[t] = "active")
  BY Kept DEF Bool2Nat
<1>2. \A p \in Ptr : SlotsOf(p)' = SlotsOf(p)
  BY Kept
<1>3. QED
  BY <1>1, <1>2 DEF RefcntAccurate

(* The threads stay grounded when the bases do not change and no thread    *)
(* comes or goes that has or is one.                                       *)
LEMMA GroundKept ==
  ASSUME BasesGrounded, UNCHANGED base,
         \A t \in Thread : hdl'[t] \in {"none", "gone"} => hdl[t] \in {"none", "gone"},
         hdl'[Main] # "none"
  PROVE  BasesGrounded'
<1>1. \A t \in Thread : base'[t] # None => hdl'[t] \notin {"none", "gone"}
  BY DEF BasesGrounded
<1>2. base'[Main] = None
  BY DEF BasesGrounded
<1>3. \A S \in SUBSET Thread : S # {} => \E t \in S : \A u \in S : base'[u] # t
  BY DEF BasesGrounded
<1>4. QED
  BY <1>1, <1>2, <1>3 DEF BasesGrounded

(* A thread that has not been made, or is gone, is nobody's and nothing's. *)
LEMMA Unmade ==
  ASSUME LuaInv, NEW t \in Thread, hdl[t] = "none"
  PROVE  /\ refcnt[t] = 0 /\ held[t] = 0 /\ t # running /\ t # Main
         /\ Children(t) = {} /\ PointersInto(t) = {}
         /\ base[t] = None /\ args[t] = <<>>
         /\ st[t] \notin {"SCHEDULED", "RUNNING"}
<1>1. refcnt[t] = 0
  BY DEF LuaInv, CountsTell
<1>2. held[t] = 0 /\ t # running /\ Children(t) = {} /\ PointersInto(t) = {}
  BY <1>1, Accounts
<1>3. t # Main
  BY DEF LuaInv, BasesGrounded
<1>4. base[t] = None /\ args[t] = <<>>
  BY DEF LuaInv, BasesGrounded, ArgsScheduled
<1>5. st[t] \notin {"SCHEDULED", "RUNNING"}
  BY <1>2 DEF LuaInv, ScheduledPinned
<1>6. QED
  BY <1>1, <1>2, <1>3, <1>4, <1>5

-----------------------------------------------------------------------------
(* The steps of clients.                                                   *)

LEMMA NewOwnerStep ==
  ASSUME LuaInv, NEW t \in Thread, NewOwner(t)
  PROVE  LuaInv'
<1>1. /\ fault = "none" /\ phase = "loop" /\ client # "idle" /\ hdl[t] = "none"
      /\ hdl' = [hdl EXCEPT ![t] = "idle"]
      /\ refcnt' = [refcnt EXCEPT ![t] = 1]
      /\ held' = [held EXCEPT ![t] = 1]
      /\ UNCHANGED <<st, base, owner, args, pth, pref, pheld, phase, client,
                     modRef, running, fault>>
  BY DEF NewOwner, MayTake, ClientTurn, ptrVars, mainVars
<1>2. TypeOK
  BY DEF LuaInv
<1>3. /\ refcnt[t] = 0 /\ held[t] = 0 /\ t # running /\ t # Main
      /\ base[t] = None /\ st[t] \notin {"SCHEDULED", "RUNNING"}
  BY <1>1, Unmade
<1>4. /\ hdl' \in [Thread -> Handle] /\ held' \in [Thread -> Int]
      /\ refcnt' \in [Thread -> Int]
      /\ \A u \in Thread : u # t => hdl'[u] = hdl[u] /\ refcnt'[u] = refcnt[u] /\ held'[u] = held[u]
      /\ hdl'[t] = "idle" /\ refcnt'[t] = 1 /\ held'[t] = 1
  BY <1>1, <1>2 DEF TypeOK, Handle
<1>5. TypeOK'
  BY <1>1, <1>2, <1>4 DEF TypeOK
<1>6. RefcntAccurate'
  <2>1. ASSUME NEW u \in Thread
        PROVE  (refcnt[u] = Cardinality(Children(u)) + Cardinality(PointersInto(u))
                  + held[u] + Bool2Nat(u = Main /\ modRef)
                  + Bool2Nat(hdl[u] = "active") + Bool2Nat(u = running))'
    <3>1. Children(u)' = Children(u) /\ PointersInto(u)' = PointersInto(u)
      BY <1>1, Kept
    <3>2. /\ 0 = Cardinality(Children(u)') - Cardinality(Children(u))
          /\ 0 = Cardinality(PointersInto(u)') - Cardinality(PointersInto(u))
      BY <3>1, CountsAreNat
    <3>3. /\ 0 = Bool2Nat(u = Main /\ modRef') - Bool2Nat(u = Main /\ modRef)
          /\ 0 = Bool2Nat(hdl'[u] = "active") - Bool2Nat(hdl[u] = "active")
          /\ 0 = Bool2Nat(u = running') - Bool2Nat(u = running)
      BY <1>1, <1>3, <1>4 DEF Bool2Nat
    <3>4. refcnt'[u] = refcnt[u] + 0 + 0 + (held'[u] - held[u]) + 0 + 0 + 0
      <4>1. refcnt[u] \in Int /\ held[u] \in Int
        BY <1>2 DEF TypeOK
      <4>2. refcnt'[u] = refcnt[u] + (held'[u] - held[u])
        BY <1>3, <1>4, <4>1
      <4>3. held'[u] \in Int
        BY <1>4
      <4>4. QED
        BY <4>1, <4>2, <4>3
    <3>5. QED
      BY <1>2, <1>5, <3>2, <3>3, <3>4, ThreadBalance DEF LuaInv
  <2>2. \A p \in Ptr : SlotsOf(p)' = SlotsOf(p)
    BY <1>1, Kept
  <2>3. QED
    BY <1>1, <2>1, <2>2 DEF LuaInv, RefcntAccurate
<1>7. CountsTell' /\ ScheduledPinned' /\ ArgsScheduled'
  BY <1>1, <1>3, <1>4 DEF LuaInv, CountsTell, ScheduledPinned, ArgsScheduled, Open
<1>8. BasesGrounded'
  BY <1>1, <1>3, <1>4, MainAssumption, GroundKept DEF LuaInv, BasesGrounded
<1>9. PhasesOrdered' /\ IdleLeavesMain' /\ FaultsAreLate'
  BY <1>1, <1>4 DEF LuaInv, PhasesOrdered, IdleLeavesMain, FaultsAreLate, Orphaned
<1>10. QED
  BY <1>5, <1>6, <1>7, <1>8, <1>9 DEF LuaInv

LEMMA NewOwnerFailsStep ==
  ASSUME LuaInv, NEW t \in Thread, NewOwnerFails(t)
  PROVE  LuaInv'
<1>1. /\ fault = "none" /\ phase = "loop" /\ hdl[t] = "none"
      /\ hdl' = [hdl EXCEPT ![t] = "closing"]
      /\ UNCHANGED <<refcnt, held, st, base, owner, args, pth, pref, pheld, phase,
                     client, modRef, running, fault>>
  BY DEF NewOwnerFails, MayTake, ClientTurn, ptrVars, mainVars
<1>2. TypeOK
  BY DEF LuaInv
<1>3. /\ refcnt[t] = 0 /\ t # Main /\ base[t] = None /\ args[t] = <<>>
      /\ st[t] # "SCHEDULED"
  BY <1>1, Unmade
<1>4. /\ hdl' \in [Thread -> Handle] /\ hdl'[t] = "closing"
      /\ \A u \in Thread : u # t => hdl'[u] = hdl[u]
  BY <1>1, <1>2 DEF TypeOK, Handle
<1>5. TypeOK'
  BY <1>1, <1>2, <1>4 DEF TypeOK
<1>6. RefcntAccurate'
  BY <1>1, <1>4, AccountsKept DEF LuaInv
<1>7. CountsTell' /\ ScheduledPinned' /\ ArgsScheduled'
  BY <1>1, <1>3, <1>4 DEF LuaInv, CountsTell, ScheduledPinned, ArgsScheduled, Open
<1>8. BasesGrounded'
  BY <1>1, <1>3, <1>4, MainAssumption, GroundKept DEF LuaInv, BasesGrounded
<1>9. PhasesOrdered' /\ IdleLeavesMain' /\ FaultsAreLate'
  BY <1>1, <1>4 DEF LuaInv, PhasesOrdered, IdleLeavesMain, FaultsAreLate, Orphaned
<1>10. QED
  BY <1>5, <1>6, <1>7, <1>8, <1>9 DEF LuaInv

LEMMA RefThreadStep ==
  ASSUME LuaInv, NEW t \in Thread, RefThread(t)
  PROVE  LuaInv'
<1>1. /\ fault = "none" /\ phase = "loop" /\ client # "idle" /\ CanUse(t)
      /\ refcnt' = [refcnt EXCEPT ![t] = @ + 1]
      /\ held' = [held EXCEPT ![t] = @ + 1]
      /\ UNCHANGED <<hdl, st, base, owner, args, pth, pref, pheld, phase,
                     client, modRef, running, fault>>
  BY DEF RefThread, MayTake, ClientTurn, ptrVars, mainVars
<1>2. TypeOK
  BY DEF LuaInv
<1>3. refcnt[t] \in Nat /\ held[t] \in Nat /\ refcnt[t] > 0
  BY <1>1, Accounts
<1>4. /\ refcnt' \in [Thread -> Int] /\ held' \in [Thread -> Int]
      /\ refcnt'[t] = refcnt[t] + 1 /\ held'[t] = held[t] + 1
      /\ \A u \in Thread : u # t => refcnt'[u] = refcnt[u] /\ held'[u] = held[u]
  BY <1>1, <1>2, <1>3 DEF TypeOK
<1>5. TypeOK'
  BY <1>1, <1>2, <1>4 DEF TypeOK
<1>6. RefcntAccurate'
  <2>1. ASSUME NEW u \in Thread
        PROVE  (refcnt[u] = Cardinality(Children(u)) + Cardinality(PointersInto(u))
                  + held[u] + Bool2Nat(u = Main /\ modRef)
                  + Bool2Nat(hdl[u] = "active") + Bool2Nat(u = running))'
    <3>1. Children(u)' = Children(u) /\ PointersInto(u)' = PointersInto(u)
      BY <1>1, Kept
    <3>2. /\ 0 = Cardinality(Children(u)') - Cardinality(Children(u))
          /\ 0 = Cardinality(PointersInto(u)') - Cardinality(PointersInto(u))
      BY <3>1, CountsAreNat
    <3>3. /\ 0 = Bool2Nat(u = Main /\ modRef') - Bool2Nat(u = Main /\ modRef)
          /\ 0 = Bool2Nat(hdl'[u] = "active") - Bool2Nat(hdl[u] = "active")
          /\ 0 = Bool2Nat(u = running') - Bool2Nat(u = running)
      BY <1>1 DEF Bool2Nat
    <3>4. refcnt'[u] = refcnt[u] + 0 + 0 + (held'[u] - held[u]) + 0 + 0 + 0
      <4>1. refcnt[u] \in Nat /\ held[u] \in Nat
        BY Accounts
      <4>2. refcnt'[u] = refcnt[u] + (held'[u] - held[u])
        BY <1>4, <4>1
      <4>3. held'[u] \in Int
        BY <1>4
      <4>4. QED
        BY <4>1, <4>2, <4>3
    <3>5. QED
      BY <1>2, <1>5, <3>2, <3>3, <3>4, ThreadBalance DEF LuaInv
  <2>2. \A p \in Ptr : SlotsOf(p)' = SlotsOf(p)
    BY <1>1, Kept
  <2>3. QED
    BY <1>1, <2>1, <2>2 DEF LuaInv, RefcntAccurate
<1>7. CountsTell' /\ ScheduledPinned' /\ ArgsScheduled'
  BY <1>1, <1>3, <1>4 DEF LuaInv, CountsTell, ScheduledPinned, ArgsScheduled, Open
<1>8. BasesGrounded'
  BY <1>1, MainAssumption, GroundKept DEF LuaInv, BasesGrounded
<1>9. PhasesOrdered' /\ IdleLeavesMain' /\ FaultsAreLate'
  BY <1>1 DEF LuaInv, PhasesOrdered, IdleLeavesMain, FaultsAreLate
<1>10. QED
  BY <1>5, <1>6, <1>7, <1>8, <1>9 DEF LuaInv

(* Steps that change no count, no argument and no base: the client leaves, *)
(* a coroutine returns, or main() goes on.                                 *)
LEMMA CountlessStep ==
  ASSUME LuaInv, TypeOK',
         UNCHANGED <<refcnt, base, pth, held, modRef, running, args, pref, pheld>>,
         \A t \in Thread :
           /\ hdl'[t] = "active" <=> hdl[t] = "active"
           /\ hdl'[t] \in {"none", "closing", "gone"} => hdl'[t] = hdl[t]
           /\ hdl'[t] \in Open => hdl'[t] = hdl[t],
         ScheduledPinned', PhasesOrdered', IdleLeavesMain', FaultsAreLate'
  PROVE  LuaInv'
<1>1. RefcntAccurate'
  BY AccountsKept DEF LuaInv
<1>2. CountsTell' /\ ArgsScheduled'
  BY DEF LuaInv, CountsTell, ArgsScheduled
<1>3. BasesGrounded'
  BY MainAssumption, GroundKept DEF LuaInv, BasesGrounded
<1>4. QED
  BY <1>1, <1>2, <1>3 DEF LuaInv

LEMMA ClientLeavesStep ==
  ASSUME LuaInv, NEW how \in {"idle", "late"}, ClientLeaves(how)
  PROVE  LuaInv'
<1>1. /\ fault = "none" /\ phase = "loop"
      /\ how = "idle" => /\ \A t \in Thread : held[t] = 0
                         /\ \A p \in Ptr : pheld[p] = 0
      /\ client' = how
      /\ UNCHANGED <<hdl, st, refcnt, base, owner, args, held, pth, pref, pheld,
                     phase, modRef, running, fault>>
  BY DEF ClientLeaves, ClientTurn, threadVars, ptrVars
<1>2. TypeOK'
  BY <1>1 DEF LuaInv, TypeOK
<1>3. ScheduledPinned' /\ PhasesOrdered' /\ IdleLeavesMain' /\ FaultsAreLate'
  BY <1>1 DEF LuaInv, ScheduledPinned, PhasesOrdered, IdleLeavesMain, FaultsAreLate
<1>4. QED
  BY <1>1, <1>2, <1>3, CountlessStep

-----------------------------------------------------------------------------
(* The steps of the loop and of main() that release nothing.               *)

LEMMA LuaReturnsStep ==
  ASSUME LuaInv, NEW res \in LuaResult, LuaReturns(res)
  PROVE  LuaInv'
<1>1. /\ running # None /\ st[running] = "RUNNING"
      /\ st' = [st EXCEPT ![running] = Outcome(res)]
      /\ UNCHANGED <<hdl, refcnt, base, owner, args, held, pth, pref, pheld,
                     phase, client, modRef, running, fault>>
  BY DEF LuaReturns, ptrVars, mainVars
<1>2. /\ running \in Thread /\ Outcome(res) \in State
      /\ Outcome(res) \notin {"SCHEDULED", "RUNNING"}
  BY <1>1 DEF LuaInv, TypeOK, Outcome, LuaResult, State
<1>3. /\ st' \in [Thread -> State]
      /\ \A t \in Thread : st'[t] = IF t = running THEN Outcome(res) ELSE st[t]
  BY <1>1, <1>2 DEF LuaInv, TypeOK
<1>4. TypeOK'
  BY <1>1, <1>3 DEF LuaInv, TypeOK
<1>5. ScheduledPinned'
  BY <1>1, <1>2, <1>3 DEF LuaInv, ScheduledPinned
<1>6. PhasesOrdered' /\ IdleLeavesMain' /\ FaultsAreLate'
  BY <1>1 DEF LuaInv, PhasesOrdered, IdleLeavesMain, FaultsAreLate
<1>7. QED
  BY <1>1, <1>4, <1>5, <1>6, CountlessStep

LEMMA OrphanClosedStep ==
  ASSUME LuaInv, NEW t \in Thread, OrphanClosed(t)
  PROVE  LuaInv'
<1>1. /\ fault = "none" /\ hdl[t] = "orphan"
      /\ hdl' = [hdl EXCEPT ![t] = "leaked"]
      /\ UNCHANGED <<st, refcnt, base, owner, args, held, pth, pref, pheld,
                     phase, client, modRef, running, fault>>
  BY DEF OrphanClosed, LoopTurn, ptrVars, mainVars
<1>2. /\ hdl' \in [Thread -> Handle] /\ hdl'[t] = "leaked"
      /\ \A u \in Thread : u # t => hdl'[u] = hdl[u]
  BY <1>1 DEF LuaInv, TypeOK, Handle
<1>3. TypeOK'
  BY <1>1, <1>2 DEF LuaInv, TypeOK
<1>4. ScheduledPinned' /\ FaultsAreLate'
  BY <1>1, <1>2 DEF LuaInv, ScheduledPinned, FaultsAreLate
<1>5. PhasesOrdered'
  BY <1>1, <1>2 DEF LuaInv, PhasesOrdered, Orphaned, Open
<1>6. IdleLeavesMain'
  BY <1>1, <1>2, MainAssumption DEF LuaInv, IdleLeavesMain
<1>7. QED
  BY <1>1, <1>2, <1>3, <1>4, <1>5, <1>6, CountlessStep DEF Open

LEMMA WalkStep ==
  ASSUME LuaInv, Walk
  PROVE  LuaInv'
<1>1. /\ fault = "none" /\ phase = "unload" /\ ~modRef /\ phase' = "drain"
      /\ hdl' = [t \in Thread |-> IF hdl[t] \in Open THEN "orphan" ELSE hdl[t]]
      /\ UNCHANGED <<st, refcnt, base, owner, args, held, pth, pref, pheld,
                     client, modRef, running, fault>>
  BY DEF Walk, ptrVars
<1>2. /\ hdl' \in [Thread -> Handle]
      /\ \A t \in Thread : hdl'[t] = IF hdl[t] \in Open THEN "orphan" ELSE hdl[t]
  BY <1>1 DEF LuaInv, TypeOK, Handle
<1>3. TypeOK'
  BY <1>1, <1>2 DEF LuaInv, TypeOK, Phase
<1>4. \A t \in Thread : hdl[t] # "active"
  BY <1>1 DEF LuaInv, PhasesOrdered
<1>5. ScheduledPinned' /\ FaultsAreLate'
  BY <1>1, <1>2, <1>4 DEF LuaInv, ScheduledPinned, FaultsAreLate, Open
<1>6. PhasesOrdered'
  BY <1>1, <1>2, <1>4 DEF LuaInv, PhasesOrdered, Open
<1>7. IdleLeavesMain'
  BY <1>1, <1>2, MainAssumption DEF LuaInv, IdleLeavesMain, Open
<1>8. QED
  BY <1>1, <1>2, <1>3, <1>4, <1>5, <1>6, <1>7, CountlessStep DEF Open

LEMMA ExitStep ==
  ASSUME LuaInv, Exit
  PROVE  LuaInv'
<1>1. /\ fault = "none" /\ phase = "drain" /\ phase' = "exit"
      /\ \A t \in Thread : hdl[t] \notin {"closing", "orphan"}
      /\ UNCHANGED <<hdl, st, refcnt, base, owner, args, held, pth, pref, pheld,
                     client, modRef, running, fault>>
  BY DEF Exit, LoopTurn, threadVars, ptrVars
<1>2. TypeOK'
  BY <1>1 DEF LuaInv, TypeOK, Phase
<1>3. ScheduledPinned' /\ PhasesOrdered' /\ IdleLeavesMain' /\ FaultsAreLate'
  BY <1>1 DEF LuaInv, ScheduledPinned, PhasesOrdered, IdleLeavesMain, FaultsAreLate
<1>4. QED
  BY <1>1, <1>2, <1>3, CountlessStep

(* When the loop ends although clients hold nothing, nothing is left but   *)
(* the main thread: among the other threads that were there would be one   *)
(* that no other is based on, and nothing would refer to it.               *)
LEMMA LoopEndsStep ==
  ASSUME LuaInv, LoopEnds
  PROVE  LuaInv'
<1>1. /\ fault = "none" /\ phase = "loop" /\ phase' = "unload" /\ running = None
      /\ client # "active"
      /\ \A t \in Thread : hdl[t] \notin {"active", "closing"}
      /\ UNCHANGED <<hdl, st, refcnt, base, owner, args, held, pth, pref, pheld,
                     client, modRef, running, fault>>
  BY DEF LoopEnds, LoopTurn, threadVars, ptrVars
<1>2. TypeOK'
  BY <1>1 DEF LuaInv, TypeOK, Phase
<1>3. ScheduledPinned' /\ PhasesOrdered' /\ FaultsAreLate'
  BY <1>1 DEF LuaInv, ScheduledPinned, PhasesOrdered, FaultsAreLate
<1>4. modRef
  BY <1>1 DEF LuaInv, PhasesOrdered
<1>5. \A t \in Thread : hdl[t] \in {"none", "idle", "gone"}
  BY <1>1 DEF LuaInv, TypeOK, PhasesOrdered, Handle, Orphaned
<1>6. ASSUME client = "idle"
      PROVE  /\ \A p \in Ptr : pth[p] = None
             /\ \A t \in Thread \ {Main} : hdl[t] \in {"none", "gone"}
  <2>1. /\ \A t \in Thread : held[t] = 0
        /\ \A p \in Ptr : pheld[p] = 0
    BY <1>6 DEF LuaInv, IdleLeavesMain
  <2>2. \A t \in Thread : args[t] = <<>>
    BY <1>5 DEF LuaInv, ArgsScheduled
  <2>3. ASSUME NEW p \in Ptr
        PROVE  pth[p] = None
    <3>1. \A t \in Thread : DOMAIN args[t] = {}
      BY <2>2
    <3>2. SlotsOf(p) = {}
      BY <3>1 DEF SlotsOf
    <3>3. QED
      BY <2>1, <3>2, PointerAccounts
  <2> DEFINE S == {t \in Thread \ {Main} : hdl[t] = "idle"}
  <2>4. ASSUME NEW t \in S, \A u \in S : base[u] # t
        PROVE  FALSE
    <3>1. t \in Thread /\ t # Main /\ hdl[t] = "idle" /\ t # None
      BY NoneAssumption
    <3>2. Children(t) = {}
      <4>1. ASSUME NEW u \in Thread, base[u] = t
            PROVE  FALSE
        <5>1. u # Main /\ hdl[u] \notin {"none", "gone"}
          BY <3>1, <4>1 DEF LuaInv, BasesGrounded
        <5>2. u \in S
          BY <1>5, <5>1
        <5>3. QED
          BY <2>4, <4>1, <5>2
      <4>2. QED
        BY <4>1 DEF Children
    <3>3. PointersInto(t) = {}
      BY <2>3, <3>1 DEF PointersInto
    <3>4. Cardinality(Children(t)) = 0 /\ Cardinality(PointersInto(t)) = 0
      BY <3>1, <3>2, <3>3, CountsAreNat
    <3>5. /\ Bool2Nat(t = Main /\ modRef) = 0
          /\ Bool2Nat(hdl[t] = "active") = 0
          /\ Bool2Nat(t = running) = 0
      BY <1>1, <3>1 DEF Bool2Nat
    <3>6. refcnt[t] = 0 + 0 + held[t] + 0 + 0 + 0
      BY <3>1, <3>4, <3>5 DEF LuaInv, RefcntAccurate
    <3>7. held[t] = 0 /\ refcnt[t] > 0
      BY <2>1, <3>1 DEF LuaInv, CountsTell, Open
    <3>8. QED
      BY <3>6, <3>7
  <2>5. S = {}
    <3>1. S \in SUBSET Thread
      OBVIOUS
    <3>2. S # {} => \E t \in S : \A u \in S : base[u] # t
      BY <3>1 DEF LuaInv, BasesGrounded
    <3>3. QED
      BY <2>4, <3>2
  <2>6. QED
    BY <1>5, <2>3, <2>5
<1>7. hdl[Main] = "idle"
  <2>1. refcnt[Main] > 0
    <3>1. 1 + Bool2Nat(hdl[Main] = "active") <= refcnt[Main] /\ refcnt[Main] \in Nat
      BY <1>4, MainAssumption, Accounts
    <3>2. QED
      BY <3>1 DEF Bool2Nat
  <2>2. hdl[Main] \in Open
    BY <1>1, <2>1, MainAssumption, Accounts
  <2>3. QED
    BY <1>5, <2>2, MainAssumption DEF Open
<1>8. IdleLeavesMain'
  BY <1>1, <1>4, <1>6, <1>7 DEF LuaInv, IdleLeavesMain
<1>9. QED
  BY <1>1, <1>2, <1>3, <1>8, CountlessStep

-----------------------------------------------------------------------------
(* The steps that release references.                                      *)

(* What is left to show of a step of the loop's first run, or of unloading *)
(* modules, that releases references to threads: that it takes as many     *)
(* away as it releases.                                                    *)
LEMMA ReleasingStep ==
  ASSUME LuaInv, fault = "none", phase \in {"loop", "unload"}, UNCHANGED phase,
         NEW drop \in [Thread -> Nat], NEW h \in [Thread -> Handle],
         UnrefThreads(drop, h),
         \A t \in Thread :
           /\ drop[t] + Bool2Nat(h[t] = "active") <= refcnt[t]
           /\ \/ h[t] = hdl[t]
              \/ h[t] = "idle" /\ hdl[t] \in Open
              \/ drop[t] = 0 /\ hdl[t] = "closing" /\ h[t] = "gone" /\ base'[t] = None,
         TypeOK' , RefcntAccurate',
         \A t \in Thread : held'[t] >= 0,
         \A p \in Ptr : pheld'[p] >= 0 /\ (pth'[p] = None <=> pref'[p] = 0),
         \A t \in Thread :
           /\ st'[t] = "SCHEDULED" <=> h[t] = "active"
           /\ st'[t] = "RUNNING" => t = running'
           /\ Len(args'[t]) <= MaxArgs /\ (h[t] # "active" => args'[t] = <<>>)
           /\ base'[t] = base[t] \/ base'[t] = None,
         phase # "loop" => running' = None /\ client' # "active",
         phase = "loop" => modRef',
         IdleLeavesMain'
  PROVE  LuaInv'
<1>1. /\ fault' = "none"
      /\ \A t \in Thread :
           /\ hdl'[t] \in {"none", "closing", "gone"} => refcnt'[t] = 0
           /\ hdl'[t] \in Open => refcnt'[t] > 0
           /\ hdl'[t] = "active" <=> h[t] = "active"
           /\ hdl'[t] \in {"none", "gone"} <=> h[t] \in {"none", "gone"}
           /\ hdl'[t] \notin Orphaned
           /\ hdl'[t] = h[t] \/ hdl'[t] = "closing"
  BY Released DEF Open
<1>2. CountsTell' /\ ScheduledPinned' /\ ArgsScheduled'
  BY <1>1 DEF CountsTell, ScheduledPinned, ArgsScheduled
<1>3. ASSUME NEW t \in Thread
      PROVE  \/ h[t] = hdl[t]
             \/ h[t] = "idle" /\ hdl[t] \in Open
             \/ hdl[t] = "closing" /\ h[t] = "gone" /\ base'[t] = None
  OBVIOUS
<1>4. BasesGrounded'
  <2>1. ASSUME NEW t \in Thread, base'[t] # None
        PROVE  hdl'[t] \notin {"none", "gone"}
    <3>1. base[t] # None
      BY <2>1
    <3>2. hdl[t] \notin {"none", "gone"}
      BY <3>1 DEF LuaInv, BasesGrounded
    <3>3. h[t] \notin {"none", "gone"}
      BY <1>3, <2>1, <3>2 DEF Open
    <3>4. QED
      BY <1>1, <3>3
  <2>2. base'[Main] = None
    BY MainAssumption DEF LuaInv, BasesGrounded
  <2>3. hdl'[Main] # "none"
    <3>1. hdl[Main] # "none"
      BY DEF LuaInv, BasesGrounded
    <3>2. h[Main] # "none"
      BY <1>3, <3>1, MainAssumption DEF Open
    <3>3. QED
      BY <1>1, <3>2, MainAssumption
  <2>4. ASSUME NEW S \in SUBSET Thread, S # {}
        PROVE  \E t \in S : \A u \in S : base'[u] # t
    <3>1. PICK t \in S : \A u \in S : base[u] # t
      BY <2>4 DEF LuaInv, BasesGrounded
    <3>2. t # None
      BY NoneAssumption
    <3>3. QED
      BY <3>1, <3>2
  <2>5. QED
    BY <2>1, <2>2, <2>3, <2>4 DEF BasesGrounded
<1>5. PhasesOrdered'
  <2>1. phase # "loop" => \A t \in Thread : h[t] # "active"
    <3>1. phase # "loop" => \A t \in Thread : hdl[t] # "active"
      BY DEF LuaInv, PhasesOrdered
    <3>2. QED
      BY <1>3, <3>1
  <2>2. QED
    BY <1>1, <2>1 DEF LuaInv, PhasesOrdered
<1>6. FaultsAreLate'
  BY <1>1 DEF FaultsAreLate
<1>7. QED
  BY <1>2, <1>4, <1>5, <1>6 DEF LuaInv

LEMMA UnrefThreadStep ==
  ASSUME LuaInv, NEW t \in Thread, UnrefThread(t)
  PROVE  LuaInv'
<1> DEFINE drop == One(t)
<1>1. /\ MayRelease /\ held[t] > 0 /\ held' = [held EXCEPT ![t] = @ - 1]
      /\ UnrefThreads(drop, hdl)
      /\ UNCHANGED <<st, base, owner, args, pth, pref, pheld, phase, client,
                     modRef, running>>
  BY DEF UnrefThread, ptrVars, mainVars
<1>2. /\ TypeOK /\ fault = "none" /\ phase \in {"loop", "unload"} /\ client # "idle"
      /\ hdl \in [Thread -> Handle]
  BY <1>1 DEF LuaInv, TypeOK, MayRelease, ClientTurn, IdleLeavesMain
<1>3. /\ drop \in [Thread -> Nat]
      /\ \A u \in Thread : drop[u] = IF u = t THEN 1 ELSE 0
  BY DEF One
<1> HIDE DEF drop
<1>4. \A u \in Thread : drop[u] + Bool2Nat(hdl[u] = "active") <= refcnt[u]
  <2>1. ASSUME NEW u \in Thread
        PROVE  drop[u] + Bool2Nat(hdl[u] = "active") <= refcnt[u]
    <3>1. /\ held[u] \in Nat /\ refcnt[u] \in Nat /\ Bool2Nat(hdl[u] = "active") \in Nat
          /\ held[u] + Bool2Nat(hdl[u] = "active") <= refcnt[u]
      BY Accounts
    <3>2. drop[u] \in Nat /\ drop[u] <= held[u]
      BY <1>1, <1>3, <3>1
    <3>3. QED
      BY <3>1, <3>2
  <2>2. QED
    BY <2>1
<1>5. /\ fault' = "none" /\ refcnt' \in [Thread -> Int] /\ hdl' \in [Thread -> Handle]
      /\ \A u \in Thread : /\ refcnt'[u] = refcnt[u] - drop[u]
                           /\ hdl'[u] = "active" <=> hdl[u] = "active"
  BY <1>1, <1>2, <1>3, <1>4, Released
<1>6. /\ held' \in [Thread -> Int]
      /\ \A u \in Thread : held'[u] = held[u] - drop[u]
      /\ \A u \in Thread : held'[u] >= 0
  <2>1. held \in [Thread -> Int] /\ \A u \in Thread : held[u] \in Nat
    BY <1>2, Accounts DEF TypeOK
  <2>2. \A u \in Thread : held'[u] = held[u] - drop[u]
    BY <1>1, <1>3, <2>1
  <2>3. \A u \in Thread : held'[u] >= 0
    BY <1>1, <1>3, <2>1, <2>2
  <2>4. QED
    BY <1>1, <2>1, <2>2, <2>3
<1>7. TypeOK'
  BY <1>1, <1>2, <1>5, <1>6 DEF TypeOK
<1>8. RefcntAccurate'
  <2>1. ASSUME NEW u \in Thread
        PROVE  (refcnt[u] = Cardinality(Children(u)) + Cardinality(PointersInto(u))
                  + held[u] + Bool2Nat(u = Main /\ modRef)
                  + Bool2Nat(hdl[u] = "active") + Bool2Nat(u = running))'
    <3>1. Children(u)' = Children(u) /\ PointersInto(u)' = PointersInto(u)
      BY <1>1, Kept
    <3>2. /\ 0 = Cardinality(Children(u)') - Cardinality(Children(u))
          /\ 0 = Cardinality(PointersInto(u)') - Cardinality(PointersInto(u))
      BY <3>1, CountsAreNat
    <3>3. /\ 0 = Bool2Nat(u = Main /\ modRef') - Bool2Nat(u = Main /\ modRef)
          /\ 0 = Bool2Nat(hdl'[u] = "active") - Bool2Nat(hdl[u] = "active")
          /\ 0 = Bool2Nat(u = running') - Bool2Nat(u = running)
      BY <1>1, <1>5 DEF Bool2Nat
    <3>4. refcnt'[u] = refcnt[u] + 0 + 0 + (held'[u] - held[u]) + 0 + 0 + 0
      <4>1. refcnt[u] \in Nat /\ held[u] \in Nat /\ drop[u] \in Nat
        BY <1>3, Accounts
      <4>2. refcnt'[u] = refcnt[u] - drop[u] /\ held'[u] = held[u] - drop[u]
        BY <1>5, <1>6
      <4>3. QED
        BY <4>1, <4>2
    <3>5. QED
      BY <1>2, <1>7, <3>2, <3>3, <3>4, ThreadBalance DEF LuaInv
  <2>2. \A p \in Ptr : SlotsOf(p)' = SlotsOf(p)
    BY <1>1, Kept
  <2>3. QED
    BY <1>1, <2>1, <2>2 DEF LuaInv, RefcntAccurate
<1>9. \A p \in Ptr : pheld'[p] >= 0 /\ (pth'[p] = None <=> pref'[p] = 0)
  BY <1>1 DEF LuaInv, CountsTell
<1>10. \A u \in Thread :
         /\ st'[u] = "SCHEDULED" <=> hdl[u] = "active"
         /\ st'[u] = "RUNNING" => u = running'
         /\ Len(args'[u]) <= MaxArgs /\ (hdl[u] # "active" => args'[u] = <<>>)
         /\ base'[u] = base[u] \/ base'[u] = None
  BY <1>1 DEF LuaInv, ScheduledPinned, ArgsScheduled
<1>11. /\ phase # "loop" => running' = None /\ client' # "active"
       /\ phase = "loop" => modRef'
       /\ IdleLeavesMain'
  BY <1>1, <1>2 DEF LuaInv, PhasesOrdered, IdleLeavesMain
<1>12. QED
  BY <1>1, <1>2, <1>3, <1>4, <1>6, <1>7, <1>8, <1>9, <1>10, <1>11, ReleasingStep

LEMMA PostExecDoneStep ==
  ASSUME LuaInv, PostExecDone
  PROVE  LuaInv'
<1> DEFINE drop == One(running)
<1>1. /\ PostExec /\ fault = "none" /\ running' = None
      /\ UnrefThreads(drop, hdl)
      /\ UNCHANGED <<st, base, owner, args, held, pth, pref, pheld, phase, client,
                     modRef>>
  BY DEF PostExecDone, ptrVars, mainVars
<1>2. /\ TypeOK /\ phase = "loop" /\ running \in Thread /\ running # None
      /\ st[running] # "RUNNING" /\ hdl \in [Thread -> Handle]
  BY <1>1 DEF LuaInv, TypeOK, PostExec, PhasesOrdered
<1>3. /\ drop \in [Thread -> Nat]
      /\ \A u \in Thread : drop[u] = IF u = running THEN 1 ELSE 0
  BY DEF One
<1> HIDE DEF drop
<1>4. \A u \in Thread : drop[u] + Bool2Nat(hdl[u] = "active") <= refcnt[u]
  <2>1. ASSUME NEW u \in Thread
        PROVE  drop[u] + Bool2Nat(hdl[u] = "active") <= refcnt[u]
    <3>1. /\ held[u] \in Nat /\ refcnt[u] \in Nat /\ Bool2Nat(hdl[u] = "active") \in Nat
          /\ held[u] + Bool2Nat(hdl[u] = "active") <= refcnt[u]
          /\ u = running => 1 + Bool2Nat(hdl[u] = "active") <= refcnt[u]
      BY Accounts
    <3>2. drop[u] = IF u = running THEN 1 ELSE 0
      BY <1>3
    <3>3. QED
      BY <3>1, <3>2
  <2>2. QED
    BY <2>1
<1>5. /\ fault' = "none" /\ refcnt' \in [Thread -> Int] /\ hdl' \in [Thread -> Handle]
      /\ \A u \in Thread : /\ refcnt'[u] = refcnt[u] - drop[u]
                           /\ hdl'[u] = "active" <=> hdl[u] = "active"
  BY <1>1, <1>2, <1>3, <1>4, Released
<1>6. TypeOK'
  BY <1>1, <1>2, <1>5 DEF TypeOK
<1>7. RefcntAccurate'
  <2>1. ASSUME NEW u \in Thread
        PROVE  (refcnt[u] = Cardinality(Children(u)) + Cardinality(PointersInto(u))
                  + held[u] + Bool2Nat(u = Main /\ modRef)
                  + Bool2Nat(hdl[u] = "active") + Bool2Nat(u = running))'
    <3>1. Children(u)' = Children(u) /\ PointersInto(u)' = PointersInto(u)
      BY <1>1, Kept
    <3>2. /\ 0 = Cardinality(Children(u)') - Cardinality(Children(u))
          /\ 0 = Cardinality(PointersInto(u)') - Cardinality(PointersInto(u))
      BY <3>1, CountsAreNat
    <3>3. /\ 0 = Bool2Nat(u = Main /\ modRef') - Bool2Nat(u = Main /\ modRef)
          /\ 0 = Bool2Nat(hdl'[u] = "active") - Bool2Nat(hdl[u] = "active")
      BY <1>1, <1>5 DEF Bool2Nat
    <3>4. 0 - drop[u] = Bool2Nat(u = running') - Bool2Nat(u = running)
      <4>1. u # None
        BY NoneAssumption
      <4>2. QED
        BY <1>1, <1>3, <4>1 DEF Bool2Nat
    <3>5. refcnt'[u] = refcnt[u] + 0 + 0 + (held'[u] - held[u]) + 0 + 0 + (0 - drop[u])
      <4>1. refcnt[u] \in Nat /\ held[u] \in Nat /\ drop[u] \in Nat
        BY <1>3, Accounts
      <4>2. refcnt'[u] = refcnt[u] - drop[u] /\ held'[u] = held[u]
        BY <1>1, <1>5
      <4>3. QED
        BY <4>1, <4>2
    <3>6. QED
      BY <1>2, <1>6, <3>2, <3>3, <3>4, <3>5, ThreadBalance DEF LuaInv
  <2>2. \A p \in Ptr : SlotsOf(p)' = SlotsOf(p)
    BY <1>1, Kept
  <2>3. QED
    BY <1>1, <2>1, <2>2 DEF LuaInv, RefcntAccurate
<1>8. /\ \A u \in Thread : held'[u] >= 0
      /\ \A p \in Ptr : pheld'[p] >= 0 /\ (pth'[p] = None <=> pref'[p] = 0)
  BY <1>1 DEF LuaInv, CountsTell
<1>9. \A u \in Thread :
        /\ st'[u] = "SCHEDULED" <=> hdl[u] = "active"
        /\ st'[u] = "RUNNING" => u = running'
        /\ Len(args'[u]) <= MaxArgs /\ (hdl[u] # "active" => args'[u] = <<>>)
        /\ base'[u] = base[u] \/ base'[u] = None
  BY <1>1, <1>2 DEF LuaInv, ScheduledPinned, ArgsScheduled
<1>10. phase = "loop" => modRef' /\ IdleLeavesMain'
  BY <1>1, <1>2 DEF LuaInv, PhasesOrdered, IdleLeavesMain
<1>11. QED
  BY <1>1, <1>2, <1>3, <1>4, <1>6, <1>7, <1>8, <1>9, <1>10, ReleasingStep

(* The module gives up its main thread.  When clients hold nothing, it was *)
(* the last reference.                                                     *)
LEMMA UnloadLuaStep ==
  ASSUME LuaInv, UnloadLua
  PROVE  LuaInv'
<1> DEFINE drop == One(Main)
<1>1. /\ fault = "none" /\ phase = "unload" /\ modRef /\ modRef' = FALSE
      /\ UnrefThreads(drop, hdl)
      /\ UNCHANGED <<st, base, owner, args, held, pth, pref, pheld, phase, client,
                     running>>
  BY DEF UnloadLua, ptrVars
<1>2. /\ TypeOK /\ hdl \in [Thread -> Handle]
      /\ running = None /\ client # "active" /\ \A u \in Thread : hdl[u] # "active"
  BY <1>1 DEF LuaInv, TypeOK, PhasesOrdered
<1>3. /\ drop \in [Thread -> Nat]
      /\ \A u \in Thread : drop[u] = IF u = Main THEN 1 ELSE 0
  BY DEF One
<1> HIDE DEF drop
<1>4. \A u \in Thread : drop[u] + Bool2Nat(hdl[u] = "active") <= refcnt[u]
  <2>1. ASSUME NEW u \in Thread
        PROVE  drop[u] + Bool2Nat(hdl[u] = "active") <= refcnt[u]
    <3>1. /\ held[u] \in Nat /\ refcnt[u] \in Nat /\ Bool2Nat(hdl[u] = "active") \in Nat
          /\ held[u] + Bool2Nat(hdl[u] = "active") <= refcnt[u]
          /\ u = Main => 1 + Bool2Nat(hdl[u] = "active") <= refcnt[u]
      BY <1>1, Accounts
    <3>2. drop[u] = IF u = Main THEN 1 ELSE 0
      BY <1>3
    <3>3. QED
      BY <3>1, <3>2
  <2>2. QED
    BY <2>1
<1>5. /\ fault' = "none" /\ refcnt' \in [Thread -> Int] /\ hdl' \in [Thread -> Handle]
      /\ \A u \in Thread : /\ refcnt'[u] = refcnt[u] - drop[u]
                           /\ hdl'[u] = "active" <=> hdl[u] = "active"
                           /\ drop[u] = 0 => hdl'[u] = hdl[u]
                           /\ drop[u] > 0 /\ drop[u] = refcnt[u] => hdl'[u] = "closing"
  BY <1>1, <1>2, <1>3, <1>4, Released
<1>6. TypeOK'
  BY <1>1, <1>2, <1>5 DEF TypeOK
<1>7. RefcntAccurate'
  <2>1. ASSUME NEW u \in Thread
        PROVE  (refcnt[u] = Cardinality(Children(u)) + Cardinality(PointersInto(u))
                  + held[u] + Bool2Nat(u = Main /\ modRef)
                  + Bool2Nat(hdl[u] = "active") + Bool2Nat(u = running))'
    <3>1. Children(u)' = Children(u) /\ PointersInto(u)' = PointersInto(u)
      BY <1>1, Kept
    <3>2. /\ 0 = Cardinality(Children(u)') - Cardinality(Children(u))
          /\ 0 = Cardinality(PointersInto(u)') - Cardinality(PointersInto(u))
      BY <3>1, CountsAreNat
    <3>3. /\ 0 = Bool2Nat(hdl'[u] = "active") - Bool2Nat(hdl[u] = "active")
          /\ 0 = Bool2Nat(u = running') - Bool2Nat(u = running)
      BY <1>1, <1>5 DEF Bool2Nat
    <3>4. 0 - drop[u] = Bool2Nat(u = Main /\ modRef') - Bool2Nat(u = Main /\ modRef)
      BY <1>1, <1>3 DEF Bool2Nat
    <3>5. refcnt'[u] = refcnt[u] + 0 + 0 + (held'[u] - held[u]) + (0 - drop[u]) + 0 + 0
      <4>1. refcnt[u] \in Nat /\ held[u] \in Nat /\ drop[u] \in Nat
        BY <1>3, Accounts
      <4>2. refcnt'[u] = refcnt[u] - drop[u] /\ held'[u] = held[u]
        BY <1>1, <1>5
      <4>3. QED
        BY <4>1, <4>2
    <3>6. QED
      BY <1>2, <1>6, <3>2, <3>3, <3>4, <3>5, ThreadBalance DEF LuaInv
  <2>2. \A p \in Ptr : SlotsOf(p)' = SlotsOf(p)
    BY <1>1, Kept
  <2>3. QED
    BY <1>1, <2>1, <2>2 DEF LuaInv, RefcntAccurate
<1>8. IdleLeavesMain'
  <2> SUFFICES ASSUME client = "idle"
               PROVE  hdl'[Main] = "closing"
    BY <1>1, <1>3, <1>5 DEF LuaInv, IdleLeavesMain
  <2>1. /\ \A t \in Thread \ {Main} : hdl[t] \in {"none", "gone"}
        /\ \A p \in Ptr : pth[p] = None
        /\ held[Main] = 0
    BY <1>1, MainAssumption DEF LuaInv, IdleLeavesMain
  <2>2. Children(Main) = {}
    <3>1. Main # None
      BY MainAssumption, NoneAssumption
    <3>2. \A u \in Thread : base[u] = None
      BY <2>1 DEF LuaInv, BasesGrounded
    <3>3. QED
      BY <3>1, <3>2 DEF Children
  <2>3. PointersInto(Main) = {}
    BY <2>1, MainAssumption, NoneAssumption DEF PointersInto
  <2>4. Cardinality(Children(Main)) = 0 /\ Cardinality(PointersInto(Main)) = 0
    BY <2>2, <2>3, MainAssumption, CountsAreNat
  <2>5. /\ Bool2Nat(Main = Main /\ modRef) = 1
        /\ Bool2Nat(hdl[Main] = "active") = 0
        /\ Bool2Nat(Main = running) = 0
    BY <1>1, <1>2, MainAssumption, NoneAssumption DEF Bool2Nat
  <2>6. refcnt[Main] = 0 + 0 + 0 + 1 + 0 + 0
    BY <2>1, <2>4, <2>5, MainAssumption DEF LuaInv, RefcntAccurate
  <2>7. drop[Main] = 1
    BY <1>3, MainAssumption
  <2>8. QED
    BY <1>5, <2>6, <2>7, MainAssumption
<1>9. /\ \A u \in Thread : held'[u] >= 0
      /\ \A p \in Ptr : pheld'[p] >= 0 /\ (pth'[p] = None <=> pref'[p] = 0)
  BY <1>1 DEF LuaInv, CountsTell
<1>10. \A u \in Thread :
         /\ st'[u] = "SCHEDULED" <=> hdl[u] = "active"
         /\ st'[u] = "RUNNING" => u = running'
         /\ Len(args'[u]) <= MaxArgs /\ (hdl[u] # "active" => args'[u] = <<>>)
         /\ base'[u] = base[u] \/ base'[u] = None
  BY <1>1 DEF LuaInv, ScheduledPinned, ArgsScheduled
<1>11. QED
  BY <1>1, <1>2, <1>3, <1>4, <1>6, <1>7, <1>8, <1>9, <1>10, ReleasingStep

LEMMA UnrefPtrStep ==
  ASSUME LuaInv, NEW p \in Ptr, UnrefPtr(p)
  PROVE  LuaInv'
<1> DEFINE pdrop == [q \in Ptr |-> IF q = p THEN 1 ELSE 0]
           drop == ThreadsReleased(pdrop)
<1>1. /\ MayRelease /\ pheld[p] > 0 /\ pheld' = [pheld EXCEPT ![p] = @ - 1]
      /\ UnrefPtrs(pdrop) /\ UnrefThreads(drop, hdl)
      /\ UNCHANGED <<st, base, owner, args, held, phase, client, modRef, running>>
  BY DEF UnrefPtr, mainVars
<1>2. /\ TypeOK /\ fault = "none" /\ phase \in {"loop", "unload"} /\ client # "idle"
      /\ hdl \in [Thread -> Handle]
  BY <1>1 DEF LuaInv, TypeOK, MayRelease, ClientTurn, IdleLeavesMain
<1>3. /\ pdrop \in [Ptr -> Nat]
      /\ \A q \in Ptr : pdrop[q] = IF q = p THEN 1 ELSE 0
  OBVIOUS
<1> HIDE DEF pdrop
<1>4. \A q \in Ptr : /\ pheld[q] \in Nat /\ pref[q] \in Nat
                     /\ pdrop[q] <= pheld[q] /\ pdrop[q] <= pref[q]
  <2>1. ASSUME NEW q \in Ptr
        PROVE  /\ pheld[q] \in Nat /\ pref[q] \in Nat
               /\ pdrop[q] <= pheld[q] /\ pdrop[q] <= pref[q]
    <3>1. pheld[q] \in Nat /\ pref[q] \in Nat /\ pheld[q] <= pref[q]
      BY PointerAccounts
    <3>2. QED
      BY <1>1, <1>3, <3>1
  <2>2. QED
    BY <2>1
<1>5. /\ pref' \in [Ptr -> Int] /\ pth' \in [Ptr -> Thread \cup {None}]
      /\ \A q \in Ptr : /\ pref'[q] = pref[q] - pdrop[q]
                        /\ pth'[q] = None <=> pref'[q] = 0
      /\ drop \in [Thread -> Nat]
      /\ \A u \in Thread :
           /\ Cardinality(PointersInto(u)') = Cardinality(PointersInto(u)) - drop[u]
           /\ drop[u] <= Cardinality(PointersInto(u))
  BY <1>1, <1>3, <1>4, PointersReleased
<1> HIDE DEF drop
<1>6. \A u \in Thread : drop[u] + Bool2Nat(hdl[u] = "active") <= refcnt[u]
  <2>1. ASSUME NEW u \in Thread
        PROVE  drop[u] + Bool2Nat(hdl[u] = "active") <= refcnt[u]
    <3>1. /\ refcnt[u] \in Nat /\ Bool2Nat(hdl[u] = "active") \in Nat
          /\ Cardinality(PointersInto(u)) + Bool2Nat(hdl[u] = "active") <= refcnt[u]
      BY Accounts
    <3>2. /\ drop[u] \in Nat /\ drop[u] <= Cardinality(PointersInto(u))
          /\ Cardinality(PointersInto(u)) \in Nat
      BY <1>5, CountsAreNat
    <3>3. QED
      BY <3>1, <3>2
  <2>2. QED
    BY <2>1
<1>7. /\ fault' = "none" /\ refcnt' \in [Thread -> Int] /\ hdl' \in [Thread -> Handle]
      /\ \A u \in Thread : /\ refcnt'[u] = refcnt[u] - drop[u]
                           /\ hdl'[u] = "active" <=> hdl[u] = "active"
  BY <1>1, <1>2, <1>5, <1>6, Released
<1>8. /\ pheld' \in [Ptr -> Int]
      /\ \A q \in Ptr : pheld'[q] = pheld[q] - pdrop[q] /\ pheld'[q] >= 0
  <2>1. pheld \in [Ptr -> Int]
    BY <1>2 DEF TypeOK
  <2>2. pheld' \in [Ptr -> Int]
    BY <1>1, <2>1
  <2>3. \A q \in Ptr : pheld'[q] = pheld[q] - pdrop[q]
    BY <1>1, <1>3, <1>4, <2>1
  <2>4. QED
    BY <1>3, <1>4, <2>2, <2>3
<1>9. TypeOK'
  BY <1>1, <1>2, <1>5, <1>7, <1>8 DEF TypeOK
<1>10. RefcntAccurate'
  <2>1. ASSUME NEW u \in Thread
        PROVE  (refcnt[u] = Cardinality(Children(u)) + Cardinality(PointersInto(u))
                  + held[u] + Bool2Nat(u = Main /\ modRef)
                  + Bool2Nat(hdl[u] = "active") + Bool2Nat(u = running))'
    <3>1. Children(u)' = Children(u)
      BY <1>1, Kept
    <3>2. /\ Cardinality(Children(u)) \in Nat /\ Cardinality(PointersInto(u)) \in Nat
          /\ drop[u] \in Nat /\ refcnt[u] \in Nat /\ held[u] \in Nat
      BY <1>5, CountsAreNat, Accounts
    <3>3. /\ 0 = Cardinality(Children(u)') - Cardinality(Children(u))
          /\ 0 - drop[u] = Cardinality(PointersInto(u)') - Cardinality(PointersInto(u))
      BY <1>5, <3>1, <3>2
    <3>4. /\ 0 = Bool2Nat(u = Main /\ modRef') - Bool2Nat(u = Main /\ modRef)
          /\ 0 = Bool2Nat(hdl'[u] = "active") - Bool2Nat(hdl[u] = "active")
          /\ 0 = Bool2Nat(u = running') - Bool2Nat(u = running)
      BY <1>1, <1>7 DEF Bool2Nat
    <3>5. refcnt'[u] = refcnt[u] + 0 + (0 - drop[u]) + (held'[u] - held[u]) + 0 + 0 + 0
      BY <1>1, <1>7, <3>2
    <3>6. QED
      BY <1>2, <1>9, <3>3, <3>4, <3>5, ThreadBalance DEF LuaInv
  <2>2. ASSUME NEW q \in Ptr
        PROVE  (pref[q] = pheld[q] + Cardinality(SlotsOf(q)))'
    <3>1. SlotsOf(q)' = SlotsOf(q)
      BY <1>1, Kept
    <3>2. pref[q] = pheld[q] + Cardinality(SlotsOf(q)) /\ Cardinality(SlotsOf(q)) \in Nat
      BY SlotsAreCounted, PointerAccounts DEF LuaInv, RefcntAccurate
    <3>3. pref'[q] = pref[q] - pdrop[q] /\ pheld'[q] = pheld[q] - pdrop[q]
      BY <1>5, <1>8
    <3>4. pdrop[q] \in Nat /\ pheld[q] \in Nat
      BY <1>3, <1>4
    <3>5. QED
      BY <3>1, <3>2, <3>3, <3>4
  <2>3. QED
    BY <2>1, <2>2 DEF RefcntAccurate
<1>11. /\ \A u \in Thread : held'[u] >= 0
       /\ \A q \in Ptr : pheld'[q] >= 0 /\ (pth'[q] = None <=> pref'[q] = 0)
  BY <1>1, <1>5, <1>8 DEF LuaInv, CountsTell
<1>12. \A u \in Thread :
         /\ st'[u] = "SCHEDULED" <=> hdl[u] = "active"
         /\ st'[u] = "RUNNING" => u = running'
         /\ Len(args'[u]) <= MaxArgs /\ (hdl[u] # "active" => args'[u] = <<>>)
         /\ base'[u] = base[u] \/ base'[u] = None
  BY <1>1 DEF LuaInv, ScheduledPinned, ArgsScheduled
<1>13. /\ phase # "loop" => running' = None /\ client' # "active"
       /\ phase = "loop" => modRef'
       /\ IdleLeavesMain'
  BY <1>1, <1>2 DEF LuaInv, PhasesOrdered, IdleLeavesMain
<1>14. QED
  BY <1>1, <1>2, <1>5, <1>6, <1>9, <1>10, <1>11, <1>12, <1>13, ReleasingStep

LEMMA OnTimeStep ==
  ASSUME LuaInv, NEW t \in Thread, OnTime(t)
  PROVE  LuaInv'
<1> DEFINE pdrop == Pushed(t)
           drop == ThreadsReleased(pdrop)
           h == [hdl EXCEPT ![t] = "idle"]
<1>1. /\ fault = "none" /\ hdl[t] = "active" /\ running = None
      /\ UnrefPtrs(pdrop) /\ UnrefThreads(drop, h)
      /\ st' = [st EXCEPT ![t] = "RUNNING"]
      /\ args' = [args EXCEPT ![t] = <<>>]
      /\ running' = t
      /\ UNCHANGED <<base, owner, held, pheld, phase, client, modRef>>
  BY DEF OnTime, LoopTurn, mainVars
<1>2. /\ TypeOK /\ phase = "loop" /\ t # None
      /\ st \in [Thread -> State] /\ hdl \in [Thread -> Handle]
      /\ args \in [Thread -> Seq(Ptr \cup {NIL})]
      /\ Len(args[t]) <= MaxArgs
  BY <1>1, NoneAssumption DEF LuaInv, TypeOK, PhasesOrdered, ArgsScheduled
<1>3. \A q \in Ptr : /\ pdrop[q] = Occurrences(q, args[t])
                     /\ Occurrences(q, args[t]) \in Nat
                     /\ Cardinality(Slots(args, q)) = Cardinality(Slots(args', q)) + pdrop[q]
                     /\ Cardinality(Slots(args', q)) \in Nat
  <2>1. \A q \in Ptr : pdrop[q] = Occurrences(q, args[t])
    BY DEF Pushed
  <2>2. ASSUME NEW q \in Ptr
        PROVE  /\ Cardinality(Slots(args, q)) = Cardinality(Slots(args', q)) + Occurrences(q, args[t])
               /\ Occurrences(q, args[t]) \in Nat
               /\ Cardinality(Slots(args', q)) \in Nat
    <3> HIDE DEF pdrop, drop, h
    <3> DEFINE f == args
               g == args'
    <3>1. /\ f \in [Thread -> Seq(Ptr \cup {NIL})] /\ Len(f[t]) <= MaxArgs
          /\ g[t] = <<>> /\ \A u \in Thread : u # t => g[u] = f[u]
      BY <1>1, <1>2
    <3> HIDE DEF f, g
    <3>5. /\ Cardinality(Slots(f, q)) = Cardinality(Slots(g, q)) + Occurrences(q, f[t])
          /\ Occurrences(q, f[t]) \in Nat
      BY ONLY <3>1, SlotsSplit
    <3>2. /\ Cardinality(Slots(args, q)) = Cardinality(Slots(args', q)) + Occurrences(q, args[t])
          /\ Occurrences(q, args[t]) \in Nat
      BY <3>5 DEF f, g
    <3>3. Cardinality(Slots(args', q)) \in Nat
      BY SlotsAreCounted
    <3>4. QED
      BY <3>2, <3>3
  <2> HIDE DEF pdrop
  <2>3. QED
    BY <2>1, <2>2
<1>4. pdrop \in [Ptr -> Nat]
  <2>1. pdrop = [q \in Ptr |-> Occurrences(q, args[t])]
    BY DEF Pushed
  <2> HIDE DEF pdrop
  <2>2. QED
    BY <1>3, <2>1
<1> HIDE DEF pdrop
<1>5. \A q \in Ptr : pdrop[q] <= pref[q] /\ pref[q] \in Nat
  <2>1. ASSUME NEW q \in Ptr
        PROVE  pdrop[q] <= pref[q] /\ pref[q] \in Nat
    <3>1. /\ Cardinality(SlotsOf(q)) <= pref[q] /\ pref[q] \in Nat
          /\ SlotsOf(q) = Slots(args, q)
      BY PointerAccounts
    <3>2. /\ Cardinality(Slots(args, q)) = Cardinality(Slots(args', q)) + pdrop[q]
          /\ Cardinality(Slots(args', q)) \in Nat /\ pdrop[q] \in Nat
      BY <1>3
    <3>3. QED
      BY <3>1, <3>2
  <2>2. QED
    BY <2>1
<1>6. /\ pref' \in [Ptr -> Int] /\ pth' \in [Ptr -> Thread \cup {None}]
      /\ \A q \in Ptr : /\ pref'[q] = pref[q] - pdrop[q]
                        /\ pth'[q] = None <=> pref'[q] = 0
      /\ drop \in [Thread -> Nat]
      /\ \A u \in Thread :
           /\ Cardinality(PointersInto(u)') = Cardinality(PointersInto(u)) - drop[u]
           /\ drop[u] <= Cardinality(PointersInto(u))
  BY <1>1, <1>4, <1>5, PointersReleased
<1>7. /\ h \in [Thread -> Handle] /\ h[t] = "idle"
      /\ \A u \in Thread : u # t => h[u] = hdl[u]
  BY <1>2 DEF Handle
<1> HIDE DEF drop, h
<1>8. \A u \in Thread : drop[u] + Bool2Nat(h[u] = "active") <= refcnt[u]
  <2>1. ASSUME NEW u \in Thread
        PROVE  drop[u] + Bool2Nat(h[u] = "active") <= refcnt[u]
    <3>1. /\ refcnt[u] \in Nat /\ Bool2Nat(hdl[u] = "active") \in Nat
          /\ Cardinality(PointersInto(u)) + Bool2Nat(hdl[u] = "active") <= refcnt[u]
      BY Accounts
    <3>2. /\ drop[u] \in Nat /\ drop[u] <= Cardinality(PointersInto(u))
          /\ Cardinality(PointersInto(u)) \in Nat
      BY <1>6, CountsAreNat
    <3>3. Bool2Nat(h[u] = "active") \in Nat /\ Bool2Nat(h[u] = "active") <= Bool2Nat(hdl[u] = "active")
      BY <1>7 DEF Bool2Nat
    <3>4. QED
      BY <3>1, <3>2, <3>3
  <2>2. QED
    BY <2>1
<1>17. \A u \in Thread :
         /\ drop[u] + Bool2Nat(h[u] = "active") <= refcnt[u]
         /\ \/ h[u] = hdl[u]
            \/ h[u] = "idle" /\ hdl[u] \in Open
            \/ drop[u] = 0 /\ hdl[u] = "closing" /\ h[u] = "gone" /\ base'[u] = None
  BY <1>1, <1>7, <1>8 DEF Open
<1>9. /\ fault' = "none" /\ refcnt' \in [Thread -> Int] /\ hdl' \in [Thread -> Handle]
      /\ \A u \in Thread : /\ refcnt'[u] = refcnt[u] - drop[u]
                           /\ hdl'[u] = "active" <=> h[u] = "active"
  <2>1. \A u \in Thread :
          /\ drop[u] + Bool2Nat(h[u] = "active") <= refcnt[u]
          /\ \/ h[u] = hdl[u]
             \/ h[u] \in Open /\ hdl[u] \in Open
             \/ drop[u] = 0 /\ hdl[u] = "closing" /\ h[u] = "gone"
    BY <1>17 DEF Open
  <2>2. UnrefThreads(drop, h) /\ fault = "none" /\ phase \in {"loop", "unload"}
    BY <1>1, <1>2
  <2>3. QED
    BY <1>6, <1>7, <2>1, <2>2, Released
<1>10. /\ st' \in [Thread -> State] /\ args' \in [Thread -> Seq(Ptr \cup {NIL})]
       /\ st'[t] = "RUNNING" /\ args'[t] = <<>>
       /\ \A u \in Thread : u # t => st'[u] = st[u] /\ args'[u] = args[u]
  BY <1>1, <1>2 DEF State
<1>11. TypeOK'
  BY <1>1, <1>2, <1>6, <1>9, <1>10 DEF TypeOK
<1>12. RefcntAccurate'
  <2>1. ASSUME NEW u \in Thread
        PROVE  (refcnt[u] = Cardinality(Children(u)) + Cardinality(PointersInto(u))
                  + held[u] + Bool2Nat(u = Main /\ modRef)
                  + Bool2Nat(hdl[u] = "active") + Bool2Nat(u = running))'
    <3> DEFINE s == IF u = t THEN 1 ELSE 0
    <3>1. Children(u)' = Children(u)
      BY <1>1, Kept
    <3>2. /\ Cardinality(Children(u)) \in Nat /\ Cardinality(PointersInto(u)) \in Nat
          /\ drop[u] \in Nat /\ refcnt[u] \in Nat /\ held[u] \in Nat
      BY <1>6, CountsAreNat, Accounts
    <3>3. /\ 0 = Cardinality(Children(u)') - Cardinality(Children(u))
          /\ 0 - drop[u] = Cardinality(PointersInto(u)') - Cardinality(PointersInto(u))
      BY <1>6, <3>1, <3>2
    <3>4. /\ 0 = Bool2Nat(u = Main /\ modRef') - Bool2Nat(u = Main /\ modRef)
          /\ 0 - s = Bool2Nat(hdl'[u] = "active") - Bool2Nat(hdl[u] = "active")
          /\ s = Bool2Nat(u = running') - Bool2Nat(u = running)
      <4>1. u # None
        BY NoneAssumption
      <4>2. QED
        BY <1>1, <1>7, <1>9, <4>1 DEF Bool2Nat
    <3>5. refcnt'[u] = refcnt[u] + 0 + (0 - drop[u]) + (held'[u] - held[u]) + 0 + (0 - s) + s
      <4>1. s \in Nat
        OBVIOUS
      <4>2. refcnt'[u] = refcnt[u] - drop[u] /\ held'[u] = held[u]
        BY <1>1, <1>9
      <4> HIDE DEF s
      <4>3. QED
        BY <3>2, <4>1, <4>2
    <3> HIDE DEF s
    <3>6. QED
      <4>1. TypeOK /\ TypeOK' /\ RefcntAccurate
        BY <1>11 DEF LuaInv
      <4>2. QED
        BY <3>3, <3>4, <3>5, <4>1, ThreadBalance
  <2>2. ASSUME NEW q \in Ptr
        PROVE  (pref[q] = pheld[q] + Cardinality(SlotsOf(q)))'
    <3>1. SlotsOf(q)' = Slots(args', q) /\ SlotsOf(q) = Slots(args, q)
      BY DEF SlotsOf, Slots
    <3>2. pref[q] = pheld[q] + Cardinality(Slots(args, q))
      BY <3>1 DEF LuaInv, RefcntAccurate
    <3>3. /\ pref'[q] = pref[q] - pdrop[q] /\ pheld'[q] = pheld[q]
          /\ Cardinality(Slots(args, q)) = Cardinality(Slots(args', q)) + pdrop[q]
          /\ Cardinality(Slots(args', q)) \in Nat
      BY <1>1, <1>3, <1>6
    <3>4. pdrop[q] \in Nat /\ pheld[q] \in Nat
      BY <1>4, PointerAccounts
    <3>5. QED
      BY <3>1, <3>2, <3>3, <3>4
  <2>3. QED
    BY <2>1, <2>2 DEF RefcntAccurate
<1>13. /\ \A u \in Thread : held'[u] >= 0
       /\ \A q \in Ptr : pheld'[q] >= 0 /\ (pth'[q] = None <=> pref'[q] = 0)
  BY <1>1, <1>6 DEF LuaInv, CountsTell
<1>14. \A u \in Thread :
         /\ st'[u] = "SCHEDULED" <=> h[u] = "active"
         /\ st'[u] = "RUNNING" => u = running'
         /\ Len(args'[u]) <= MaxArgs /\ (h[u] # "active" => args'[u] = <<>>)
         /\ base'[u] = base[u] \/ base'[u] = None
  <2>1. ASSUME NEW u \in Thread, u # t
        PROVE  /\ st'[u] = "SCHEDULED" <=> h[u] = "active"
               /\ st'[u] = "RUNNING" => u = running'
               /\ Len(args'[u]) <= MaxArgs /\ (h[u] # "active" => args'[u] = <<>>)
    <3>1. u # None
      BY NoneAssumption
    <3>2. QED
      BY <1>1, <1>7, <1>10, <2>1, <3>1 DEF LuaInv, ScheduledPinned, ArgsScheduled
  <2>2. Len(args'[t]) <= MaxArgs
    <3>1. Len(<<>>) = 0
      OBVIOUS
    <3>2. QED
      BY <1>10, <3>1, BoundAssumption
  <2>3. QED
    BY <1>1, <1>7, <1>10, <2>1, <2>2
<1>15. modRef' /\ IdleLeavesMain'
  BY <1>1, <1>2 DEF LuaInv, PhasesOrdered, IdleLeavesMain
<1>16. QED
  <2>1. /\ UnrefThreads(drop, h) /\ fault = "none" /\ UNCHANGED phase
        /\ phase \in {"loop", "unload"}
        /\ phase # "loop" => running' = None /\ client' # "active"
        /\ phase = "loop" => modRef'
    BY <1>1, <1>2, <1>15
  <2>2. drop \in [Thread -> Nat] /\ h \in [Thread -> Handle]
    BY <1>6, <1>7
  <2>3. QED
    BY <1>11, <1>12, <1>13, <1>14, <1>15, <1>17, <2>1, <2>2, ReleasingStep

(* A thread is freed and releases its base.  That the last reference to a  *)
(* base main() has closed goes is what clients that are late bring about.  *)
LEMMA OnCloseStep ==
  ASSUME LuaInv, NEW t \in Thread, OnClose(t)
  PROVE  LuaInv'
<1> DEFINE drop == BaseOf(t)
           h == Freed(t)
<1>1. /\ fault = "none" /\ phase \in {"loop", "drain"} /\ hdl[t] = "closing"
      /\ UnrefThreads(drop, h)
      /\ base' = [base EXCEPT ![t] = None]
      /\ UNCHANGED <<st, owner, args, held, pth, pref, pheld, phase, client, modRef,
                     running>>
  BY DEF OnClose, LoopTurn, ptrVars, mainVars
<1>2. /\ TypeOK /\ RefcntAccurate
      /\ hdl \in [Thread -> Handle] /\ base \in [Thread -> Thread \cup {None}]
  BY DEF LuaInv, TypeOK
<1>3. /\ refcnt[t] = 0 /\ Children(t) = {} /\ hdl[t] # "active"
  <2>1. refcnt[t] = 0
    BY <1>1 DEF LuaInv, CountsTell
  <2>2. QED
    BY <1>1, <2>1, Accounts
<1>4. /\ drop \in [Thread -> Nat] /\ h \in [Thread -> Handle]
      /\ \A u \in Thread : drop[u] = IF u = base[t] THEN 1 ELSE 0
      /\ h[t] = "gone" /\ \A u \in Thread : u # t => h[u] = hdl[u]
  BY <1>2 DEF BaseOf, Freed, Handle
<1> HIDE DEF drop, h
<1>5. base[t] # t /\ drop[t] = 0
  <2>1. t \notin Children(t)
    BY <1>3
  <2>2. QED
    BY <1>4, <2>1 DEF Children
<1>6. ASSUME NEW u \in Thread
      PROVE  /\ refcnt[u] \in Nat /\ drop[u] \in Nat
             /\ drop[u] + Bool2Nat(h[u] = "active") <= refcnt[u]
             /\ Cardinality(Children(u)') = Cardinality(Children(u)) - drop[u]
             /\ Cardinality(Children(u)) \in Nat
  <2>1. /\ refcnt[u] \in Nat /\ Bool2Nat(hdl[u] = "active") \in Nat
        /\ Cardinality(Children(u)) + Bool2Nat(hdl[u] = "active") <= refcnt[u]
    BY Accounts
  <2>2. /\ Cardinality(Children(u)) \in Nat
        /\ Cardinality(Children(u)) = 0 <=> Children(u) = {}
    BY CountsAreNat
  <2>3. /\ drop[u] \in Nat
        /\ drop[u] = IF u = base[t] THEN 1 ELSE 0
    BY <1>4
  <2>4. u = base[t] => t \in Children(u)
    BY DEF Children
  <2>5. drop[u] <= Cardinality(Children(u))
    BY <2>2, <2>3, <2>4
  <2>6. Bool2Nat(h[u] = "active") = Bool2Nat(hdl[u] = "active")
    BY <1>3, <1>4
  <2>7. drop[u] + Bool2Nat(h[u] = "active") <= refcnt[u]
    BY <2>1, <2>2, <2>3, <2>5, <2>6
  <2>8. Cardinality({x \in Thread : base'[x] = u}) =
          Cardinality({x \in Thread : base[x] = u})
            + (IF u = None THEN 1 ELSE 0) - (IF u = base[t] THEN 1 ELSE 0)
    <3> DEFINE f == base
               g == base'
    <3>1. /\ IsFiniteSet(Thread) /\ g[t] = None
          /\ \A x \in Thread : x # t => g[x] = f[x]
      BY <1>1, <1>2, FiniteAssumption
    <3> HIDE DEF f, g
    <3>2. Cardinality(Where(Thread, g, u)) =
            Cardinality(Where(Thread, f, u))
              + (IF u = None THEN 1 ELSE 0) - (IF u = f[t] THEN 1 ELSE 0)
      BY ONLY <3>1, t \in Thread, OneMoved
    <3>3. QED
      BY <3>2 DEF f, g, Where
  <2>9. u # None
    BY NoneAssumption
  <2>10. Cardinality(Children(u)') = Cardinality(Children(u)) - drop[u]
    <3> DEFINE C == Cardinality(Children(u))
               C1 == Cardinality(Children(u)')
    <3>1. C1 = C + (IF u = None THEN 1 ELSE 0) - (IF u = base[t] THEN 1 ELSE 0)
      BY <2>8 DEF Children
    <3>2. C \in Nat
      BY <2>2
    <3> HIDE DEF C, C1
    <3>3. C1 = C - drop[u]
      BY <2>3, <2>9, <3>1, <3>2
    <3>4. QED
      BY <3>3 DEF C, C1
  <2>11. QED
    BY <2>1, <2>2, <2>3, <2>7, <2>10
<1>7. /\ refcnt' = [u \in Thread |-> refcnt[u] - drop[u]]
      /\ hdl' = [u \in Thread |->
                   IF Dies(drop, u) /\ h[u] \in Open THEN "closing" ELSE h[u]]
  BY <1>1 DEF UnrefThreads
<1>8. /\ refcnt' \in [Thread -> Int]
      /\ \A u \in Thread : refcnt'[u] = refcnt[u] - drop[u]
  BY <1>6, <1>7
<1>9. /\ hdl' \in [Thread -> Handle]
      /\ \A u \in Thread :
           hdl'[u] = IF Dies(drop, u) /\ h[u] \in Open THEN "closing" ELSE h[u]
  BY <1>4, <1>7 DEF Handle
<1>10. ASSUME NEW u \in Thread
       PROVE  hdl'[u] = "active" <=> hdl[u] = "active"
  <2>1. h[u] = "active" => ~Dies(drop, u)
    <3>1. Bool2Nat(h[u] = "active") = 1 <=> h[u] = "active"
      BY BoolIsCount
    <3>2. QED
      BY <1>6, <3>1 DEF Dies
  <2>2. QED
    BY <1>3, <1>4, <1>9, <2>1
<1>11. /\ fault' \in {"none", "double_close"}
       /\ fault' # "none" => \E u \in Thread : Dies(drop, u)
  <2>1. ~ \E u \in Thread : drop[u] > refcnt[u]
    <3>1. ASSUME NEW u \in Thread
          PROVE  ~(drop[u] > refcnt[u])
      <4>1. Bool2Nat(h[u] = "active") \in {0, 1}
        BY BoolIsCount
      <4>2. QED
        BY <1>6, <4>1
    <3>2. QED
      BY <3>1
  <2>2. QED
    BY <1>1, <2>1 DEF UnrefThreads
<1>12. /\ base' \in [Thread -> Thread \cup {None}] /\ base'[t] = None
       /\ \A u \in Thread : u # t => base'[u] = base[u]
  BY <1>1, <1>2
<1>13. TypeOK'
  BY <1>1, <1>2, <1>8, <1>9, <1>11, <1>12 DEF TypeOK
<1>14. RefcntAccurate'
  <2>1. ASSUME NEW u \in Thread
        PROVE  (refcnt[u] = Cardinality(Children(u)) + Cardinality(PointersInto(u))
                  + held[u] + Bool2Nat(u = Main /\ modRef)
                  + Bool2Nat(hdl[u] = "active") + Bool2Nat(u = running))'
    <3>1. PointersInto(u)' = PointersInto(u)
      BY <1>1, Kept
    <3>2. /\ Cardinality(Children(u)) \in Nat /\ Cardinality(PointersInto(u)) \in Nat
          /\ drop[u] \in Nat /\ refcnt[u] \in Nat /\ held[u] \in Nat
      BY <1>6, CountsAreNat, Accounts
    <3>3. /\ 0 - drop[u] = Cardinality(Children(u)') - Cardinality(Children(u))
          /\ 0 = Cardinality(PointersInto(u)') - Cardinality(PointersInto(u))
      BY <1>6, <3>1, <3>2
    <3>4. /\ 0 = Bool2Nat(u = Main /\ modRef') - Bool2Nat(u = Main /\ modRef)
          /\ 0 = Bool2Nat(hdl'[u] = "active") - Bool2Nat(hdl[u] = "active")
          /\ 0 = Bool2Nat(u = running') - Bool2Nat(u = running)
      BY <1>1, <1>10 DEF Bool2Nat
    <3>5. refcnt'[u] = refcnt[u] + (0 - drop[u]) + 0 + (held'[u] - held[u]) + 0 + 0 + 0
      BY <1>1, <1>8, <3>2
    <3>6. QED
      BY <1>2, <1>13, <3>3, <3>4, <3>5, ThreadBalance
  <2>2. \A p \in Ptr : SlotsOf(p)' = SlotsOf(p)
    BY <1>1, Kept
  <2>3. QED
    BY <1>1, <1>2, <2>1, <2>2 DEF RefcntAccurate
<1>15. CASE phase = "loop"
  <2>1. \A u \in Thread :
          /\ drop[u] + Bool2Nat(h[u] = "active") <= refcnt[u]
          /\ \/ h[u] = hdl[u]
             \/ h[u] = "idle" /\ hdl[u] \in Open
             \/ drop[u] = 0 /\ hdl[u] = "closing" /\ h[u] = "gone" /\ base'[u] = None
    BY <1>1, <1>4, <1>5, <1>6, <1>12
  <2>2. /\ \A u \in Thread : held'[u] >= 0
        /\ \A q \in Ptr : pheld'[q] >= 0 /\ (pth'[q] = None <=> pref'[q] = 0)
    BY <1>1 DEF LuaInv, CountsTell
  <2>3. \A u \in Thread :
          /\ st'[u] = "SCHEDULED" <=> h[u] = "active"
          /\ st'[u] = "RUNNING" => u = running'
          /\ Len(args'[u]) <= MaxArgs /\ (h[u] # "active" => args'[u] = <<>>)
          /\ base'[u] = base[u] \/ base'[u] = None
    BY <1>1, <1>3, <1>4, <1>12 DEF LuaInv, ScheduledPinned, ArgsScheduled
  <2>4. modRef' /\ IdleLeavesMain'
    BY <1>1, <1>15 DEF LuaInv, PhasesOrdered, IdleLeavesMain
  <2>5. /\ fault = "none" /\ phase \in {"loop", "unload"} /\ UNCHANGED phase
        /\ UnrefThreads(drop, h)
        /\ phase # "loop" => running' = None /\ client' # "active"
        /\ phase = "loop" => modRef'
    BY <1>1, <1>15, <2>4
  <2>6. drop \in [Thread -> Nat] /\ h \in [Thread -> Handle]
    BY <1>4
  <2>7. QED
    BY <1>13, <1>14, <2>1, <2>2, <2>3, <2>4, <2>5, <2>6, ReleasingStep
<1>16. CASE phase = "drain"
  <2>1. /\ ~modRef /\ running = None /\ client # "active"
        /\ \A u \in Thread : hdl[u] \notin Open
    BY <1>16 DEF LuaInv, PhasesOrdered
  <2>2. \A u \in Thread : hdl'[u] = h[u] /\ (u # t => hdl'[u] = hdl[u])
    <3>1. \A u \in Thread : h[u] \notin Open
      BY <1>4, <2>1 DEF Open
    <3>2. QED
      BY <1>4, <1>9, <3>1
  <2>3. hdl'[t] = "gone"
    BY <1>4, <2>2
  <2>4. ASSUME NEW u \in Thread, hdl'[u] \in {"none", "closing", "gone"}
        PROVE  refcnt'[u] = 0
    <3>1. refcnt[u] = 0
      <4>1. CASE u = t
        BY <1>3, <4>1
      <4>2. CASE u # t
        BY <2>2, <2>4, <4>2 DEF LuaInv, CountsTell
      <4>3. QED
        BY <4>1, <4>2
    <3>2. drop[u] = 0
      <4>1. Bool2Nat(h[u] = "active") \in {0, 1}
        BY BoolIsCount
      <4>2. QED
        BY <1>6, <3>1, <4>1
    <3>3. QED
      BY <1>8, <3>1, <3>2
  <2>5. CountsTell'
    <3>1. \A u \in Thread : hdl'[u] \notin Open
      BY <2>1, <2>2, <2>3 DEF Open
    <3>2. /\ \A u \in Thread : held'[u] >= 0
          /\ \A q \in Ptr : pheld'[q] >= 0 /\ (pth'[q] = None <=> pref'[q] = 0)
      BY <1>1 DEF LuaInv, CountsTell
    <3>3. QED
      BY <2>4, <3>1, <3>2 DEF CountsTell
  <2>6. ScheduledPinned' /\ ArgsScheduled'
    BY <1>1, <1>10 DEF LuaInv, ScheduledPinned, ArgsScheduled
  <2>7. BasesGrounded'
    <3>1. ASSUME NEW u \in Thread, base'[u] # None
          PROVE  hdl'[u] \notin {"none", "gone"}
      BY <1>12, <2>2, <3>1 DEF LuaInv, BasesGrounded
    <3>2. base'[Main] = None /\ hdl'[Main] # "none"
      BY <1>12, <2>2, <2>3, MainAssumption DEF LuaInv, BasesGrounded
    <3>3. ASSUME NEW S \in SUBSET Thread, S # {}
          PROVE  \E x \in S : \A u \in S : base'[u] # x
      <4>1. PICK x \in S : \A u \in S : base[u] # x
        BY <3>3 DEF LuaInv, BasesGrounded
      <4>2. x # None
        BY NoneAssumption
      <4>3. QED
        BY <1>12, <4>1, <4>2
    <3>4. QED
      BY <3>1, <3>2, <3>3 DEF BasesGrounded
  <2>8. PhasesOrdered'
    BY <1>1, <1>16, <2>1, <2>2, <2>3 DEF PhasesOrdered, Open
  <2>9. IdleLeavesMain'
    BY <1>1, <1>16, <2>1, <2>2, <2>3, MainAssumption DEF LuaInv, IdleLeavesMain
  <2>10. FaultsAreLate'
    <3>1. ASSUME fault' # "none"
          PROVE  client = "late"
      <4>1. PICK b \in Thread : Dies(drop, b)
        BY <1>11, <3>1
      <4>2. b = base[t] /\ b # None
        BY <1>4, <4>1, NoneAssumption DEF Dies
      <4>3. t # Main
        BY <4>2 DEF LuaInv, BasesGrounded
      <4>4. client # "idle"
        BY <1>1, <1>16, <4>3 DEF LuaInv, IdleLeavesMain
      <4>5. QED
        BY <2>1, <4>4 DEF LuaInv, TypeOK
    <3>2. QED
      BY <1>1, <1>11, <1>16, <3>1 DEF FaultsAreLate
  <2>11. QED
    BY <1>13, <1>14, <2>5, <2>6, <2>7, <2>8, <2>9, <2>10 DEF LuaInv
<1>17. QED
  BY <1>1, <1>15, <1>16

-----------------------------------------------------------------------------
(* The steps of clients that add references.                               *)

(* A coroutine comes with a reference to its base, which is another thread *)
(* and is there; nothing is based on the coroutine yet.                    *)
LEMMA NewChildStep ==
  ASSUME LuaInv, NEW t \in Thread, NEW b \in Thread, NEW f \in Ptr \cup {None},
         NewChild(t, b, f)
  PROVE  LuaInv'
<1>1. /\ fault = "none" /\ phase = "loop" /\ client # "idle" /\ CanUse(b)
      /\ hdl[t] = "none"
      /\ hdl' = [hdl EXCEPT ![t] = "idle"]
      /\ st' = [st EXCEPT ![t] = IF f = None THEN "DONE" ELSE "PAUSED"]
      /\ refcnt' = [refcnt EXCEPT ![t] = 1, ![b] = @ + 1]
      /\ base' = [base EXCEPT ![t] = b]
      /\ owner' = [owner EXCEPT ![t] = owner[b]]
      /\ held' = [held EXCEPT ![t] = 1]
      /\ UNCHANGED <<args, pth, pref, pheld, phase, client, modRef, running, fault>>
  BY DEF NewChild, MayTake, ClientTurn, WithChild, ptrVars, mainVars
<1>2. TypeOK /\ RefcntAccurate
  BY DEF LuaInv
<1>3. /\ refcnt[t] = 0 /\ held[t] = 0 /\ t # running /\ t # Main
      /\ Children(t) = {}
      /\ base[t] = None /\ st[t] \notin {"SCHEDULED", "RUNNING"}
  BY <1>1, Unmade
<1>4. refcnt[b] \in Nat /\ refcnt[b] > 0 /\ b # t
  BY <1>1, <1>3, Accounts
<1>5. /\ hdl' \in [Thread -> Handle] /\ hdl'[t] = "idle"
      /\ st' \in [Thread -> State] /\ st'[t] \in {"DONE", "PAUSED"}
      /\ base' \in [Thread -> Thread \cup {None}] /\ base'[t] = b
      /\ owner' \in [Thread -> Thread]
      /\ held' \in [Thread -> Int] /\ held'[t] = 1
      /\ \A u \in Thread : u # t => /\ hdl'[u] = hdl[u] /\ st'[u] = st[u]
                                    /\ base'[u] = base[u] /\ held'[u] = held[u]
  BY <1>1, <1>2 DEF TypeOK, Handle, State
<1>6. /\ refcnt' \in [Thread -> Int] /\ refcnt'[t] = 1 /\ refcnt'[b] = refcnt[b] + 1
      /\ \A u \in Thread : u # t /\ u # b => refcnt'[u] = refcnt[u]
  BY SMTT(30), <1>1, <1>2, <1>4 DEF TypeOK
<1>7. TypeOK'
  BY <1>1, <1>2, <1>5, <1>6 DEF TypeOK
<1>8. RefcntAccurate'
  <2>1. ASSUME NEW u \in Thread
        PROVE  (refcnt[u] = Cardinality(Children(u)) + Cardinality(PointersInto(u))
                  + held[u] + Bool2Nat(u = Main /\ modRef)
                  + Bool2Nat(hdl[u] = "active") + Bool2Nat(u = running))'
    <3> DEFINE c == IF u = b THEN 1 ELSE 0
               old == base
               new == base'
    <3>1. PointersInto(u)' = PointersInto(u)
      BY <1>1, Kept
    <3>2. /\ Cardinality(Children(u)) \in Nat /\ Cardinality(PointersInto(u)) \in Nat
          /\ refcnt[u] \in Nat /\ held[u] \in Nat /\ c \in Nat
      BY CountsAreNat, Accounts
    <3>3. /\ IsFiniteSet(Thread) /\ new[t] = b /\ old[t] = None /\ u # None
          /\ \A x \in Thread : x # t => new[x] = old[x]
      BY <1>3, <1>5, FiniteAssumption, NoneAssumption
    <3> HIDE DEF old, new
    <3>4. Cardinality(Where(Thread, new, u)) =
            Cardinality(Where(Thread, old, u))
              + (IF u = b THEN 1 ELSE 0) - (IF u = old[t] THEN 1 ELSE 0)
      BY ONLY <3>3, t \in Thread, OneMoved
    <3>5. Children(u)' = Where(Thread, new, u) /\ Children(u) = Where(Thread, old, u)
      BY DEF Children, Where, old, new
    <3>6. c = Cardinality(Children(u)') - Cardinality(Children(u))
      BY <3>2, <3>3, <3>4, <3>5
    <3>7. 0 = Cardinality(PointersInto(u)') - Cardinality(PointersInto(u))
      BY <3>1, <3>2
    <3>8. /\ 0 = Bool2Nat(u = Main /\ modRef') - Bool2Nat(u = Main /\ modRef)
          /\ 0 = Bool2Nat(hdl'[u] = "active") - Bool2Nat(hdl[u] = "active")
          /\ 0 = Bool2Nat(u = running') - Bool2Nat(u = running)
      BY <1>1, <1>5 DEF Bool2Nat
    <3>9. refcnt'[u] = refcnt[u] + c + 0 + (held'[u] - held[u]) + 0 + 0 + 0
      <4>1. CASE u = t
        BY <1>3, <1>4, <1>5, <1>6, <4>1
      <4>2. CASE u # t
        <5>1. refcnt'[u] = refcnt[u] + c /\ held'[u] = held[u]
          BY <1>5, <1>6, <3>2, <4>2
        <5>2. QED
          BY <3>2, <5>1
      <4>3. QED
        BY <4>1, <4>2
    <3> HIDE DEF c
    <3>10. QED
      BY <1>2, <1>7, <3>6, <3>7, <3>8, <3>9, ThreadBalance
  <2>2. \A p \in Ptr : SlotsOf(p)' = SlotsOf(p)
    BY <1>1, Kept
  <2>3. QED
    BY <1>1, <1>2, <2>1, <2>2 DEF RefcntAccurate
<1>9. CountsTell'
  <2>1. ASSUME NEW u \in Thread
        PROVE  /\ held'[u] >= 0
               /\ hdl'[u] \in {"none", "closing", "gone"} => refcnt'[u] = 0
               /\ hdl'[u] \in Open => refcnt'[u] > 0
    <3>1. CASE u = t
      BY <1>5, <1>6, <3>1
    <3>2. CASE u = b
      BY <1>4, <1>5, <1>6, <3>2 DEF LuaInv, CountsTell
    <3>3. CASE u # t /\ u # b
      BY <1>5, <1>6, <3>3 DEF LuaInv, CountsTell
    <3>4. QED
      BY <3>1, <3>2, <3>3
  <2>2. \A p \in Ptr : pheld'[p] >= 0 /\ (pth'[p] = None <=> pref'[p] = 0)
    BY <1>1 DEF LuaInv, CountsTell
  <2>3. QED
    BY <2>1, <2>2 DEF CountsTell
<1>10. ScheduledPinned' /\ ArgsScheduled'
  BY <1>1, <1>3, <1>5 DEF LuaInv, ScheduledPinned, ArgsScheduled
<1>11. BasesGrounded'
  <2>1. ASSUME NEW u \in Thread, base'[u] # None
        PROVE  hdl'[u] \notin {"none", "gone"}
    BY <1>5, <2>1 DEF LuaInv, BasesGrounded
  <2>2. base'[Main] = None /\ hdl'[Main] # "none"
    BY <1>3, <1>5, MainAssumption DEF LuaInv, BasesGrounded
  <2>3. ASSUME NEW S \in SUBSET Thread, S # {}
        PROVE  \E x \in S : \A u \in S : base'[u] # x
    <3>1. CASE t \in S
      <4>1. \A u \in Thread : base[u] # t
        BY <1>3 DEF Children
      <4>2. \A u \in S : base'[u] # t
        BY <1>4, <1>5, <4>1
      <4>3. QED
        BY <3>1, <4>2
    <3>2. CASE t \notin S
      <4>1. PICK x \in S : \A u \in S : base[u] # x
        BY <2>3 DEF LuaInv, BasesGrounded
      <4>2. QED
        BY <1>5, <3>2, <4>1
    <3>3. QED
      BY <3>1, <3>2
  <2>4. QED
    BY <2>1, <2>2, <2>3 DEF BasesGrounded
<1>12. PhasesOrdered' /\ IdleLeavesMain' /\ FaultsAreLate'
  BY <1>1, <1>5 DEF LuaInv, PhasesOrdered, IdleLeavesMain, FaultsAreLate, Orphaned
<1>13. QED
  BY <1>7, <1>8, <1>9, <1>10, <1>11, <1>12 DEF LuaInv

LEMMA NewPtrStep ==
  ASSUME LuaInv, NEW p \in Ptr, NEW t \in Thread, NewPtr(p, t)
  PROVE  LuaInv'
<1>1. /\ fault = "none" /\ phase = "loop" /\ client # "idle" /\ CanUse(t)
      /\ pth[p] = None
      /\ pth' = [pth EXCEPT ![p] = t]
      /\ pref' = [pref EXCEPT ![p] = 1]
      /\ pheld' = [pheld EXCEPT ![p] = 1]
      /\ refcnt' = [refcnt EXCEPT ![t] = @ + 1]
      /\ UNCHANGED <<hdl, st, base, owner, args, held, phase, client, modRef,
                     running, fault>>
  BY DEF NewPtr, MayTake, ClientTurn, PointedAt, mainVars
<1>2. TypeOK /\ RefcntAccurate
  BY DEF LuaInv
<1>3. refcnt[t] \in Nat /\ refcnt[t] > 0 /\ t # None
  BY <1>1, NoneAssumption, Accounts
<1>4. /\ pref[p] = 0 /\ pheld[p] = 0 /\ Cardinality(SlotsOf(p)) = 0
  <2>1. /\ pref[p] = 0 /\ pheld[p] \in Nat /\ pheld[p] <= pref[p]
        /\ Cardinality(SlotsOf(p)) <= pref[p] /\ SlotsOf(p) = Slots(args, p)
    BY <1>1, PointerAccounts
  <2>2. Cardinality(SlotsOf(p)) \in Nat
    BY <2>1, SlotsAreCounted
  <2>3. QED
    BY <2>1, <2>2
<1>5. /\ pth' \in [Ptr -> Thread \cup {None}] /\ pth'[p] = t
      /\ pref' \in [Ptr -> Int] /\ pref'[p] = 1
      /\ pheld' \in [Ptr -> Int] /\ pheld'[p] = 1
      /\ \A q \in Ptr : q # p =>
           pth'[q] = pth[q] /\ pref'[q] = pref[q] /\ pheld'[q] = pheld[q]
  BY <1>1, <1>2 DEF TypeOK
<1>6. /\ refcnt' \in [Thread -> Int] /\ refcnt'[t] = refcnt[t] + 1
      /\ \A u \in Thread : u # t => refcnt'[u] = refcnt[u]
  BY <1>1, <1>2, <1>3 DEF TypeOK
<1>7. TypeOK'
  BY <1>1, <1>2, <1>5, <1>6 DEF TypeOK
<1>8. RefcntAccurate'
  <2>1. ASSUME NEW u \in Thread
        PROVE  (refcnt[u] = Cardinality(Children(u)) + Cardinality(PointersInto(u))
                  + held[u] + Bool2Nat(u = Main /\ modRef)
                  + Bool2Nat(hdl[u] = "active") + Bool2Nat(u = running))'
    <3> DEFINE q == IF u = t THEN 1 ELSE 0
               old == pth
               new == pth'
    <3>1. Children(u)' = Children(u)
      BY <1>1, Kept
    <3>2. /\ Cardinality(Children(u)) \in Nat /\ Cardinality(PointersInto(u)) \in Nat
          /\ refcnt[u] \in Nat /\ held[u] \in Nat /\ q \in Nat
      BY CountsAreNat, Accounts
    <3>3. /\ IsFiniteSet(Ptr) /\ new[p] = t /\ old[p] = None /\ u # None
          /\ \A x \in Ptr : x # p => new[x] = old[x]
      BY <1>1, <1>5, FiniteAssumption, NoneAssumption
    <3> HIDE DEF old, new
    <3>4. Cardinality(Where(Ptr, new, u)) =
            Cardinality(Where(Ptr, old, u))
              + (IF u = t THEN 1 ELSE 0) - (IF u = old[p] THEN 1 ELSE 0)
      BY ONLY <3>3, p \in Ptr, OneMoved
    <3>5. PointersInto(u)' = Where(Ptr, new, u) /\ PointersInto(u) = Where(Ptr, old, u)
      BY DEF PointersInto, Where, old, new
    <3>6. q = Cardinality(PointersInto(u)') - Cardinality(PointersInto(u))
      BY <3>2, <3>3, <3>4, <3>5
    <3>7. 0 = Cardinality(Children(u)') - Cardinality(Children(u))
      BY <3>1, <3>2
    <3>8. /\ 0 = Bool2Nat(u = Main /\ modRef') - Bool2Nat(u = Main /\ modRef)
          /\ 0 = Bool2Nat(hdl'[u] = "active") - Bool2Nat(hdl[u] = "active")
          /\ 0 = Bool2Nat(u = running') - Bool2Nat(u = running)
      BY <1>1 DEF Bool2Nat
    <3>9. refcnt'[u] = refcnt[u] + 0 + q + (held'[u] - held[u]) + 0 + 0 + 0
      BY <1>1, <1>6, <3>2
    <3> HIDE DEF q
    <3>10. QED
      BY <1>2, <1>7, <3>6, <3>7, <3>8, <3>9, ThreadBalance
  <2>2. ASSUME NEW q \in Ptr
        PROVE  (pref[q] = pheld[q] + Cardinality(SlotsOf(q)))'
    <3>1. SlotsOf(q)' = SlotsOf(q)
      BY <1>1, Kept
    <3>2. CASE q = p
      BY <1>4, <1>5, <3>1, <3>2
    <3>3. CASE q # p
      BY <1>2, <1>5, <3>1, <3>3 DEF RefcntAccurate
    <3>4. QED
      BY <3>2, <3>3
  <2>3. QED
    BY <2>1, <2>2 DEF RefcntAccurate
<1>9. CountsTell'
  <2>1. \A u \in Thread :
          /\ held'[u] >= 0
          /\ hdl'[u] \in {"none", "closing", "gone"} => refcnt'[u] = 0
          /\ hdl'[u] \in Open => refcnt'[u] > 0
    BY <1>1, <1>3, <1>6 DEF LuaInv, CountsTell
  <2>2. \A q \in Ptr : pheld'[q] >= 0 /\ (pth'[q] = None <=> pref'[q] = 0)
    BY <1>3, <1>5 DEF LuaInv, CountsTell
  <2>3. QED
    BY <2>1, <2>2 DEF CountsTell
<1>10. ScheduledPinned' /\ ArgsScheduled'
  BY <1>1 DEF LuaInv, ScheduledPinned, ArgsScheduled
<1>11. BasesGrounded'
  BY <1>1, GroundKept DEF LuaInv, BasesGrounded
<1>12. PhasesOrdered' /\ IdleLeavesMain' /\ FaultsAreLate'
  BY <1>1 DEF LuaInv, PhasesOrdered, IdleLeavesMain, FaultsAreLate
<1>13. QED
  BY <1>7, <1>8, <1>9, <1>10, <1>11, <1>12 DEF LuaInv

LEMMA RefPtrStep ==
  ASSUME LuaInv, NEW p \in Ptr, RefPtr(p)
  PROVE  LuaInv'
<1>1. /\ fault = "none" /\ phase = "loop" /\ client # "idle"
      /\ pheld[p] \in 1 .. (MaxHeld - 1)
      /\ pref' = [pref EXCEPT ![p] = @ + 1]
      /\ pheld' = [pheld EXCEPT ![p] = @ + 1]
      /\ UNCHANGED <<hdl, st, refcnt, base, owner, args, held, pth, phase, client,
                     modRef, running, fault>>
  BY DEF RefPtr, MayTake, ClientTurn, threadVars, mainVars
<1>2. TypeOK /\ RefcntAccurate
  BY DEF LuaInv
<1>3. /\ pref[p] \in Nat /\ pheld[p] \in Nat /\ pref[p] > 0
  <2>1. pref[p] \in Nat /\ pheld[p] \in Nat /\ pheld[p] <= pref[p]
    BY PointerAccounts
  <2>2. QED
    BY <1>1, <2>1, BoundAssumption
<1>4. /\ pref' \in [Ptr -> Int] /\ pref'[p] = pref[p] + 1
      /\ pheld' \in [Ptr -> Int] /\ pheld'[p] = pheld[p] + 1
      /\ \A q \in Ptr : q # p => pref'[q] = pref[q] /\ pheld'[q] = pheld[q]
  BY <1>1, <1>2, <1>3 DEF TypeOK
<1>5. TypeOK'
  BY <1>1, <1>2, <1>4 DEF TypeOK
<1>6. RefcntAccurate'
  <2>1. \A t \in Thread : Children(t)' = Children(t) /\ PointersInto(t)' = PointersInto(t)
    BY <1>1, Kept
  <2>2. ASSUME NEW q \in Ptr
        PROVE  (pref[q] = pheld[q] + Cardinality(SlotsOf(q)))'
    <3>1. SlotsOf(q)' = SlotsOf(q)
      BY <1>1, Kept
    <3>2. pref[q] = pheld[q] + Cardinality(SlotsOf(q)) /\ Cardinality(SlotsOf(q)) \in Nat
      BY SlotsAreCounted, PointerAccounts DEF LuaInv, RefcntAccurate
    <3>3. CASE q = p
      BY <1>3, <1>4, <3>1, <3>2, <3>3
    <3>4. CASE q # p
      BY <1>4, <3>1, <3>2, <3>4
    <3>5. QED
      BY <3>3, <3>4
  <2>3. QED
    BY <1>1, <1>2, <2>1, <2>2 DEF RefcntAccurate
<1>7. CountsTell'
  <2>1. \A q \in Ptr : pheld'[q] >= 0 /\ (pth'[q] = None <=> pref'[q] = 0)
    BY <1>1, <1>3, <1>4 DEF LuaInv, CountsTell
  <2>2. QED
    BY <1>1, <2>1 DEF LuaInv, CountsTell
<1>8. ScheduledPinned' /\ ArgsScheduled'
  BY <1>1 DEF LuaInv, ScheduledPinned, ArgsScheduled
<1>9. BasesGrounded'
  BY <1>1, GroundKept DEF LuaInv, BasesGrounded
<1>10. PhasesOrdered' /\ IdleLeavesMain' /\ FaultsAreLate'
  BY <1>1 DEF LuaInv, PhasesOrdered, IdleLeavesMain, FaultsAreLate
<1>11. QED
  BY <1>5, <1>6, <1>7, <1>8, <1>9, <1>10 DEF LuaInv

(* The values are stored in a thread that has none, and a pointer among    *)
(* them is held, so that it is there.                                      *)
LEMMA ResumeStep ==
  ASSUME LuaInv, NEW t \in Thread, NEW n \in 0 .. MaxArgs,
         NEW as \in [1 .. n -> Ptr \cup {NIL}], Resume(t, as)
  PROVE  LuaInv'
<1>1. /\ fault = "none" /\ phase = "loop" /\ CanUse(t) /\ st[t] = "PAUSED"
      /\ \A i \in DOMAIN as : as[i] # NIL => pheld[as[i]] > 0
      /\ args' = [args EXCEPT ![t] = as]
      /\ pref' = [p \in Ptr |-> pref[p] + Occurrences(p, as)]
      /\ hdl' = [hdl EXCEPT ![t] = "active"]
      /\ refcnt' = [refcnt EXCEPT ![t] = @ + 1]
      /\ st' = [st EXCEPT ![t] = "SCHEDULED"]
      /\ UNCHANGED <<base, owner, held, pth, pheld, phase, client, modRef,
                     running, fault>>
  BY DEF Resume, ClientTurn, Schedule, mainVars
<1>2. TypeOK /\ RefcntAccurate
  BY DEF LuaInv
<1>3. /\ n \in Nat /\ MaxArgs \in Nat /\ n <= MaxArgs
      /\ as \in Seq(Ptr \cup {NIL}) /\ Len(as) = n
  <2>1. n \in Nat /\ MaxArgs \in Nat /\ n <= MaxArgs
    BY BoundAssumption
  <2>2. as \in Seq(Ptr \cup {NIL})
    BY <2>1, SeqDef
  <2>3. Len(as) = n
    BY <2>1, <2>2, LenProperties
  <2>4. QED
    BY <2>1, <2>2, <2>3
<1>4. /\ refcnt[t] \in Nat /\ refcnt[t] > 0 /\ hdl[t] \in Open /\ hdl[t] # "active"
      /\ args[t] = <<>>
  <2>1. refcnt[t] \in Nat /\ refcnt[t] > 0 /\ hdl[t] \in Open
    BY <1>1, Accounts
  <2>2. hdl[t] # "active"
    BY <1>1 DEF LuaInv, ScheduledPinned
  <2>3. args[t] = <<>>
    BY <2>2 DEF LuaInv, ArgsScheduled
  <2>4. QED
    BY <2>1, <2>2, <2>3
<1>5. /\ hdl' \in [Thread -> Handle] /\ hdl'[t] = "active"
      /\ st' \in [Thread -> State] /\ st'[t] = "SCHEDULED"
      /\ args' \in [Thread -> Seq(Ptr \cup {NIL})] /\ args'[t] = as
      /\ refcnt' \in [Thread -> Int] /\ refcnt'[t] = refcnt[t] + 1
      /\ \A u \in Thread : u # t => /\ hdl'[u] = hdl[u] /\ st'[u] = st[u]
                                    /\ args'[u] = args[u] /\ refcnt'[u] = refcnt[u]
  <2>1. hdl' \in [Thread -> Handle] /\ st' \in [Thread -> State]
    BY <1>1, <1>2 DEF TypeOK, Handle, State
  <2>2. args' \in [Thread -> Seq(Ptr \cup {NIL})]
    BY <1>1, <1>2, <1>3 DEF TypeOK
  <2>3. refcnt' \in [Thread -> Int]
    BY <1>1, <1>2 DEF TypeOK
  <2>4. QED
    BY <1>1, <1>2, <1>4, <2>1, <2>2, <2>3 DEF TypeOK
<1>6. ASSUME NEW p \in Ptr
      PROVE  /\ Cardinality(SlotsOf(p)') = Cardinality(SlotsOf(p)) + Occurrences(p, as)
             /\ Cardinality(SlotsOf(p)) \in Nat
             /\ Occurrences(p, as) \in Nat
             /\ Occurrences(p, as) = 0 <=> \A i \in DOMAIN as : as[i] # p
  <2> DEFINE f == args'
             g == args
  <2>6. f[t] = as
    BY <1>5
  <2>1. /\ f \in [Thread -> Seq(Ptr \cup {NIL})] /\ Len(f[t]) <= MaxArgs
        /\ g[t] = <<>> /\ \A u \in Thread : u # t => g[u] = f[u]
    BY <1>3, <1>4, <1>5
  <2> HIDE DEF f, g
  <2>2. /\ Cardinality(Slots(f, p)) = Cardinality(Slots(g, p)) + Occurrences(p, f[t])
        /\ Occurrences(p, f[t]) \in Nat
        /\ Occurrences(p, f[t]) = 0 <=> \A i \in DOMAIN f[t] : f[t][i] # p
    BY ONLY <2>1, t \in Thread, p \in Ptr, SlotsSplit
  <2>3. SlotsOf(p)' = Slots(f, p) /\ SlotsOf(p) = Slots(g, p)
    BY DEF SlotsOf, Slots, f, g
  <2>4. Cardinality(Slots(g, p)) \in Nat
    BY SlotsAreCounted
  <2>5. QED
    BY <2>2, <2>3, <2>4, <2>6
<1>7. ASSUME NEW p \in Ptr
      PROVE  /\ pref'[p] = pref[p] + Occurrences(p, as)
             /\ pref[p] \in Nat /\ pheld[p] \in Nat
             /\ pth'[p] = None <=> pref'[p] = 0
  <2>1. pref'[p] = pref[p] + Occurrences(p, as)
    BY <1>1
  <2>2. /\ pref[p] \in Nat /\ pheld[p] \in Nat /\ pheld[p] <= pref[p]
        /\ pth[p] = None <=> pref[p] = 0
    BY PointerAccounts
  <2>3. p # NIL
    BY NoneAssumption
  <2>4. pref[p] = 0 => Occurrences(p, as) = 0
    <3>1. ASSUME pref[p] = 0, NEW i \in DOMAIN as, as[i] = p
          PROVE  FALSE
      <4>1. pheld[p] > 0
        BY <1>1, <2>3, <3>1
      <4>2. QED
        BY <2>2, <3>1, <4>1
    <3>2. QED
      BY <1>6, <3>1
  <2>5. pref'[p] = 0 <=> pref[p] = 0
    <3> DEFINE o == Occurrences(p, as)
    <3>1. o \in Nat /\ pref'[p] = pref[p] + o /\ (pref[p] = 0 => o = 0)
      BY <1>6, <2>1, <2>4
    <3> HIDE DEF o
    <3>2. QED
      BY <2>2, <3>1
  <2>6. QED
    BY <1>1, <2>1, <2>2, <2>5
<1>8. pref' \in [Ptr -> Int]
  <2>1. \A p \in Ptr : pref[p] + Occurrences(p, as) \in Int
    <3>1. ASSUME NEW p \in Ptr
          PROVE  pref[p] + Occurrences(p, as) \in Int
      <4> DEFINE o == Occurrences(p, as)
      <4>1. pref[p] \in Nat /\ o \in Nat
        BY <1>6, <1>7
      <4> HIDE DEF o
      <4>2. pref[p] + o \in Int
        BY <4>1
      <4>3. QED
        BY <4>2 DEF o
    <3>2. QED
      BY <3>1
  <2>2. QED
    BY <1>1, <2>1
<1>9. TypeOK'
  BY <1>1, <1>2, <1>5, <1>8 DEF TypeOK
<1>10. RefcntAccurate'
  <2>1. ASSUME NEW u \in Thread
        PROVE  (refcnt[u] = Cardinality(Children(u)) + Cardinality(PointersInto(u))
                  + held[u] + Bool2Nat(u = Main /\ modRef)
                  + Bool2Nat(hdl[u] = "active") + Bool2Nat(u = running))'
    <3> DEFINE a == IF u = t THEN 1 ELSE 0
    <3>1. Children(u)' = Children(u) /\ PointersInto(u)' = PointersInto(u)
      BY <1>1, Kept
    <3>2. refcnt[u] \in Nat /\ held[u] \in Nat /\ a \in Nat
      BY Accounts
    <3>3. /\ 0 = Cardinality(Children(u)') - Cardinality(Children(u))
          /\ 0 = Cardinality(PointersInto(u)') - Cardinality(PointersInto(u))
      BY <3>1, CountsAreNat
    <3>4. /\ 0 = Bool2Nat(u = Main /\ modRef') - Bool2Nat(u = Main /\ modRef)
          /\ a = Bool2Nat(hdl'[u] = "active") - Bool2Nat(hdl[u] = "active")
          /\ 0 = Bool2Nat(u = running') - Bool2Nat(u = running)
      BY <1>1, <1>4, <1>5 DEF Bool2Nat
    <3>5. refcnt'[u] = refcnt[u] + 0 + 0 + (held'[u] - held[u]) + 0 + a + 0
      <4>1. refcnt'[u] = refcnt[u] + a /\ held'[u] = held[u]
        BY <1>1, <1>5, <3>2
      <4> HIDE DEF a
      <4>2. QED
        BY <3>2, <4>1
    <3> HIDE DEF a
    <3>6. QED
      BY <1>2, <1>9, <3>3, <3>4, <3>5, ThreadBalance
  <2>2. ASSUME NEW p \in Ptr
        PROVE  (pref[p] = pheld[p] + Cardinality(SlotsOf(p)))'
    <3>1. pref[p] = pheld[p] + Cardinality(SlotsOf(p))
      BY <1>2 DEF RefcntAccurate
    <3> DEFINE o == Occurrences(p, as)
               S == Cardinality(SlotsOf(p))
    <3>2. /\ pheld'[p] = pheld[p] /\ pheld[p] \in Nat /\ o \in Nat /\ S \in Nat
          /\ pref'[p] = pref[p] + o /\ Cardinality(SlotsOf(p)') = S + o
          /\ pref[p] = pheld[p] + S
      BY <1>1, <1>6, <1>7, <3>1
    <3> HIDE DEF o, S
    <3>3. pref'[p] = pheld'[p] + Cardinality(SlotsOf(p)')
      BY <3>2
    <3>4. QED
      BY <3>3
  <2>3. QED
    BY <2>1, <2>2 DEF RefcntAccurate
<1>11. CountsTell'
  <2>1. \A u \in Thread :
          /\ held'[u] >= 0
          /\ hdl'[u] \in {"none", "closing", "gone"} => refcnt'[u] = 0
          /\ hdl'[u] \in Open => refcnt'[u] > 0
    BY <1>1, <1>4, <1>5 DEF LuaInv, CountsTell
  <2>2. \A p \in Ptr : pheld'[p] >= 0 /\ (pth'[p] = None <=> pref'[p] = 0)
    BY <1>1, <1>7 DEF LuaInv, CountsTell
  <2>3. QED
    BY <2>1, <2>2 DEF CountsTell
<1>12. ScheduledPinned' /\ ArgsScheduled'
  BY <1>1, <1>3, <1>4, <1>5 DEF LuaInv, ScheduledPinned, ArgsScheduled
<1>13. BasesGrounded'
  <2>1. \A u \in Thread : hdl'[u] \in {"none", "gone"} => hdl[u] \in {"none", "gone"}
    BY <1>5
  <2>2. hdl'[Main] # "none"
    BY <1>5, MainAssumption DEF LuaInv, BasesGrounded
  <2>3. QED
    BY <1>1, <2>1, <2>2, GroundKept DEF LuaInv
<1>14. PhasesOrdered' /\ IdleLeavesMain' /\ FaultsAreLate'
  BY <1>1, <1>5 DEF LuaInv, PhasesOrdered, IdleLeavesMain, FaultsAreLate, Orphaned
<1>15. QED
  BY <1>9, <1>10, <1>11, <1>12, <1>13, <1>14 DEF LuaInv

-----------------------------------------------------------------------------
(* The invariant.                                                          *)

LEMMA LuaInit == Init => LuaInv
<1> SUFFICES ASSUME Init PROVE LuaInv
  OBVIOUS
<1>1. /\ hdl = [t \in Thread |-> IF t = Main THEN "idle" ELSE "none"]
      /\ st = [t \in Thread |-> "DONE"]
      /\ refcnt = [t \in Thread |-> IF t = Main THEN 1 ELSE 0]
      /\ base = [t \in Thread |-> None] /\ owner = [t \in Thread |-> t]
      /\ args = [t \in Thread |-> <<>>]
      /\ pth = [p \in Ptr |-> None] /\ pref = [p \in Ptr |-> 0]
      /\ held = [t \in Thread |-> 0] /\ pheld = [p \in Ptr |-> 0]
      /\ running = None /\ phase = "loop" /\ client = "active"
      /\ modRef = TRUE /\ fault = "none"
  BY DEF Init
<1>2. \A t \in Thread : /\ hdl[t] = IF t = Main THEN "idle" ELSE "none"
                        /\ st[t] = "DONE" /\ base[t] = None /\ owner[t] = t
                        /\ refcnt[t] = IF t = Main THEN 1 ELSE 0
                        /\ args[t] = <<>> /\ held[t] = 0
  BY <1>1
<1>3. \A p \in Ptr : pth[p] = None /\ pref[p] = 0 /\ pheld[p] = 0
  BY <1>1
<1>4. TypeOK
  <2>1. /\ hdl \in [Thread -> Handle] /\ st \in [Thread -> State]
        /\ refcnt \in [Thread -> Int] /\ base \in [Thread -> Thread \cup {None}]
        /\ owner \in [Thread -> Thread] /\ held \in [Thread -> Int]
    BY <1>1 DEF Handle, State
  <2>2. args \in [Thread -> Seq(Ptr \cup {NIL})]
    <3>1. <<>> \in Seq(Ptr \cup {NIL})
      OBVIOUS
    <3>2. QED
      BY <1>1, <3>1
  <2>3. /\ pth \in [Ptr -> Thread \cup {None}] /\ pref \in [Ptr -> Int]
        /\ pheld \in [Ptr -> Int]
    BY <1>1
  <2>4. QED
    BY <1>1, <2>1, <2>2, <2>3 DEF TypeOK, Phase
<1>5. RefcntAccurate
  <2>1. ASSUME NEW t \in Thread
        PROVE  refcnt[t] = Cardinality(Children(t)) + Cardinality(PointersInto(t))
                  + held[t] + Bool2Nat(t = Main /\ modRef)
                  + Bool2Nat(hdl[t] = "active") + Bool2Nat(t = running)
    <3>1. t # None
      BY NoneAssumption
    <3>2. Children(t) = {} /\ PointersInto(t) = {}
      BY <1>2, <1>3, <3>1 DEF Children, PointersInto
    <3>3. Cardinality(Children(t)) = 0 /\ Cardinality(PointersInto(t)) = 0
      BY <3>2, CountsAreNat
    <3>4. /\ Bool2Nat(t = Main /\ modRef) = IF t = Main THEN 1 ELSE 0
          /\ Bool2Nat(hdl[t] = "active") = 0
          /\ Bool2Nat(t = running) = 0
      BY <1>1, <1>2, <3>1 DEF Bool2Nat
    <3>5. QED
      BY <1>2, <3>3, <3>4
  <2>2. ASSUME NEW p \in Ptr
        PROVE  pref[p] = pheld[p] + Cardinality(SlotsOf(p))
    <3>1. \A t \in Thread : DOMAIN args[t] = {}
      BY <1>2
    <3>2. Slots(args, p) = {} /\ SlotsOf(p) = Slots(args, p)
      BY <3>1 DEF SlotsOf, Slots
    <3>3. Cardinality(SlotsOf(p)) = 0
      BY <3>2, SlotsAreCounted
    <3>4. QED
      BY <1>3, <3>3
  <2>3. QED
    BY <2>1, <2>2 DEF RefcntAccurate
<1>6. CountsTell /\ ScheduledPinned
  BY <1>2, <1>3 DEF CountsTell, ScheduledPinned, Open
<1>7. ArgsScheduled
  <2>1. Len(<<>>) = 0 /\ MaxArgs \in Nat
    BY BoundAssumption
  <2>2. QED
    BY <1>2, <2>1 DEF ArgsScheduled
<1>8. BasesGrounded
  <2>1. \A S \in SUBSET Thread : S # {} => \E t \in S : \A u \in S : base[u] # t
    <3>1. \A t \in Thread : t # None
      BY NoneAssumption
    <3>2. QED
      BY <1>2, <3>1
  <2>2. QED
    BY <1>2, <2>1, MainAssumption DEF BasesGrounded
<1>9. PhasesOrdered /\ IdleLeavesMain /\ FaultsAreLate
  BY <1>1, <1>2 DEF PhasesOrdered, IdleLeavesMain, FaultsAreLate, Orphaned
<1>10. QED
  BY <1>4, <1>5, <1>6, <1>7, <1>8, <1>9 DEF LuaInv

LEMMA LuaStep == LuaInv /\ [Next]_vars => LuaInv'
<1> SUFFICES ASSUME LuaInv, [Next]_vars PROVE LuaInv'
  OBVIOUS
<1>1. CASE Client
  BY <1>1, NewOwnerStep, NewOwnerFailsStep, RefThreadStep, UnrefThreadStep, NewChildStep,
     NewPtrStep, RefPtrStep, UnrefPtrStep, ResumeStep, ClientLeavesStep DEF Client
<1>2. CASE Loop
  BY <1>2, OnTimeStep, OnCloseStep, OrphanClosedStep, LuaReturnsStep, PostExecDoneStep DEF Loop
<1>3. CASE Program
  BY <1>3, LoopEndsStep, UnloadLuaStep, WalkStep, ExitStep DEF Program
<1>4. CASE UNCHANGED vars
  <2>1. TypeOK'
    BY <1>4 DEF LuaInv, TypeOK, vars, threadVars, ptrVars, mainVars
  <2>2. ScheduledPinned' /\ PhasesOrdered' /\ IdleLeavesMain' /\ FaultsAreLate'
    BY <1>4 DEF LuaInv, vars, threadVars, ptrVars, mainVars,
                ScheduledPinned, PhasesOrdered, IdleLeavesMain, FaultsAreLate
  <2>3. QED
    BY <1>4, <2>1, <2>2, CountlessStep DEF vars, threadVars, ptrVars, mainVars
<1>5. QED
  BY <1>1, <1>2, <1>3, <1>4 DEF Next, Terminated

LEMMA LuaHolds == Spec => []LuaInv
BY LuaInit, LuaStep, PTL DEF Spec

(* For any threads and pointers, the variables keep their types.           *)
THEOREM TypeCorrect == Spec => []TypeOK
<1>1. LuaInv => TypeOK
  BY DEF LuaInv
<1>2. QED
  BY <1>1, LuaHolds, PTL

(* For any threads, pointers and arguments, every reference to a thread or *)
(* a pointer is counted, and nothing else is.                              *)
THEOREM ReferencesAreCounted == Spec => []RefcntAccurate
<1>1. LuaInv => RefcntAccurate
  BY DEF LuaInv
<1>2. QED
  BY <1>1, LuaHolds, PTL

(* For any threads and pointers, what a coroutine is based on, a pointer   *)
(* names, an argument holds or the loop runs has not been freed, nor is it *)
(* about to be.                                                            *)
THEOREM NothingDangles == Spec => []NoDangling
<1>1. LuaInv => NoDangling
  <2> SUFFICES ASSUME LuaInv PROVE NoDangling
    OBVIOUS
  <2>1. /\ \A t \in Thread : base[t] # None =>
             base[t] \in Thread /\ refcnt[base[t]] > 0
        /\ \A p \in Ptr : pth[p] # None => pth[p] \in Thread /\ refcnt[pth[p]] > 0
        /\ running # None => running \in Thread /\ refcnt[running] > 0
    BY ReferredIsThere
  <2>2. /\ \A t \in Thread : base[t] # None => hdl[base[t]] \in Open \cup Orphaned
        /\ \A p \in Ptr : pth[p] # None => hdl[pth[p]] \in Open \cup Orphaned
    BY <2>1, Accounts
  <2>3. running # None => hdl[running] \in Open
    <3>1. running # None => phase \in {"loop", "unload"}
      BY DEF LuaInv, PhasesOrdered
    <3>2. QED
      BY <2>1, <3>1, Accounts
  <2>4. ASSUME NEW t \in Thread, NEW i \in DOMAIN args[t], args[t][i] # NIL
        PROVE  pth[args[t][i]] # None
    <3> DEFINE p == args[t][i]
    <3>1. /\ args[t] \in Seq(Ptr \cup {NIL}) /\ Len(args[t]) <= MaxArgs
          /\ DOMAIN args[t] = 1 .. Len(args[t]) /\ Len(args[t]) \in Nat
      BY DEF LuaInv, TypeOK, ArgsScheduled
    <3>2. p \in Ptr /\ i \in 1 .. MaxArgs
      BY <2>4, <3>1, BoundAssumption
    <3>3. <<t, i>> \in SlotsOf(p)
      BY <3>2 DEF SlotsOf
    <3> HIDE DEF p
    <3>4. /\ Cardinality(SlotsOf(p)) <= pref[p] /\ pref[p] \in Nat
          /\ SlotsOf(p) = Slots(args, p)
          /\ pth[p] = None <=> pref[p] = 0
      BY <3>2, PointerAccounts
    <3>5. Cardinality(SlotsOf(p)) \in Nat /\ Cardinality(SlotsOf(p)) # 0
      BY <3>3, <3>4, SlotsAreCounted
    <3>6. pth[p] # None
      BY <3>4, <3>5
    <3>7. QED
      BY <3>6 DEF p
  <2>5. QED
    BY <2>2, <2>3, <2>4 DEF NoDangling
<1>2. QED
  BY <1>1, LuaHolds, PTL

(* For any threads, the state says SCHEDULED exactly while the timer is    *)
(* started, and RUNNING only of the thread that the loop runs.             *)
THEOREM StateTellsTimer == Spec => []ScheduledPinned
<1>1. LuaInv => ScheduledPinned
  BY DEF LuaInv
<1>2. QED
  BY <1>1, LuaHolds, PTL

(* For any threads and pointers, no assertion fails where clients release  *)
(* what they hold while the loop runs.                                     *)
THEOREM NoAssertionFails == Spec => []NoFault
<1>1. LuaInv => NoFault
  BY DEF LuaInv, FaultsAreLate, NoFault
<1>2. QED
  BY <1>1, LuaHolds, PTL

(* For any threads and pointers, such clients leave no leak to find.       *)
THEOREM NothingLeaksAtExit == Spec => []NoLeakAtExit
<1>1. LuaInv => NoLeakAtExit
  <2> SUFFICES ASSUME LuaInv, phase = "exit", client = "idle"
               PROVE  /\ \A t \in Thread : hdl[t] \in {"none", "gone"}
                      /\ \A p \in Ptr : pth[p] = None
    BY DEF NoLeakAtExit
  <2>1. ~modRef /\ \A t \in Thread : hdl[t] # "closing"
    BY DEF LuaInv, PhasesOrdered
  <2>2. QED
    BY <2>1, MainAssumption DEF LuaInv, IdleLeavesMain
<1>2. QED
  BY <1>1, LuaHolds, PTL
=============================================================================
