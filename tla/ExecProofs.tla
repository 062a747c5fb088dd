------------------------------ MODULE ExecProofs ------------------------------
(***************************************************************************)
(* What holds of core/exec, core/any and core/null for any number of       *)
(* entities and buffers and any nesting of calls.                          *)
(***************************************************************************)
EXTENDS Exec, TLAPS, SequenceTheorems, FiniteSetTheorems

-----------------------------------------------------------------------------
(* What the library's steps do to the stack of calls.                      *)

(* The innermost call, and the stack once it has returned.                 *)
LEMMA TopCall ==
  ASSUME TypeOK, calls # <<>>
  PROVE  /\ Len(calls) \in Nat \ {0}
         /\ Top \in Call /\ Top.ent \in Entity /\ Top.buf \in Buffer
         /\ Front(calls) \in Seq(Call)
         /\ Len(Front(calls)) = Len(calls) - 1
         /\ \A d \in 1 .. (Len(calls) - 1) : Front(calls)[d] = calls[d]
<1>1. Len(calls) \in 1 .. Len(calls)
  BY EmptySeq DEF TypeOK
<1>2. Top \in Call
  BY <1>1, ElementOfSeq DEF TypeOK, Top
<1>3. /\ Front(calls) \in Seq(Call)
      /\ Len(Front(calls)) = Len(calls) - 1
      /\ \A d \in 1 .. (Len(calls) - 1) : Front(calls)[d] = calls[d]
  <2> DEFINE n == Len(calls) - 1
  <2>1. n \in Nat /\ \A d \in 1 .. n : calls[d] \in Call
    BY <1>1, ElementOfSeq DEF TypeOK
  <2> HIDE DEF n
  <2>2. /\ SubSeq(calls, 1, n) \in Seq(Call)
        /\ Len(SubSeq(calls, 1, n)) = n
        /\ \A d \in 1 .. n : SubSeq(calls, 1, n)[d] = calls[d]
    BY <2>1, SubSeqProperties
  <2>3. QED
    BY <2>2 DEF Front, n
<1>4. Top.ent \in Entity /\ Top.buf \in Buffer
  BY <1>2 DEF Call
<1>5. Len(calls) \in Nat \ {0}
  BY <1>1 DEF TypeOK
<1>6. QED
  BY <1>2, <1>3, <1>4, <1>5

(* Moving the innermost call on leaves the others, and its buffer, alone.  *)
LEMMA TopGoes ==
  ASSUME TypeOK, calls # <<>>,
         NEW ent \in Entity, NEW pc \in {"send", "reply", "inside", "exit"},
         NEW reply \in {"empty", "FAIL"},
         Goto(ent, pc, reply)
  PROVE  /\ calls' \in Seq(Call)
         /\ Len(calls') = Len(calls)
         /\ \A d \in 1 .. (Len(calls) - 1) : calls'[d] = calls[d]
         /\ calls'[Len(calls)].ent = ent
         /\ calls'[Len(calls)].pc = pc
         /\ calls'[Len(calls)].reply = reply
         /\ \A d \in 1 .. Len(calls) : calls'[d].buf = calls[d].buf
<1> DEFINE g == [via |-> Top.via, ent |-> ent, buf |-> Top.buf,
                 pc |-> pc, reply |-> reply]
           n == Len(calls)
<1>1. Top \in Call /\ n \in Nat \ {0}
  BY TopCall
<1>2. g \in Call
  <2>1. Top.via \in Entity /\ Top.buf \in Buffer
    BY <1>1 DEF Call
  <2>2. QED
    BY <2>1 DEF Call
<1>3. calls' = [calls EXCEPT ![n] = g]
  BY DEF Goto
<1>4. g.ent = ent /\ g.pc = pc /\ g.reply = reply /\ g.buf = calls[n].buf
  BY DEF Top
<1>5. calls \in Seq(Call)
  BY DEF TypeOK
<1>6. n \in 1 .. Len(calls)
  <2>1. Len(calls) \in Nat /\ Len(calls) # 0
    BY <1>1
  <2>2. QED
    BY <2>1
<1> HIDE DEF g
<1>7. /\ calls' \in Seq(Call)
      /\ Len(calls') = Len(calls)
      /\ \A d \in 1 .. Len(calls) :
           calls'[d] = IF d = n THEN g ELSE calls[d]
  BY <1>2, <1>3, <1>5, <1>6, ExceptSeq
<1>8. \A d \in 1 .. (Len(calls) - 1) : calls'[d] = calls[d]
  <2>1. ASSUME NEW d \in 1 .. (Len(calls) - 1)
        PROVE  d \in 1 .. Len(calls) /\ d # n
    BY <1>6
  <2>2. QED
    BY <1>7, <2>1
<1>9. \A d \in 1 .. Len(calls) : calls'[d].buf = calls[d].buf
  BY <1>4, <1>7
<1>10. calls'[n] = g
  BY <1>6, <1>7
<1>11. QED
  BY <1>4, <1>7, <1>8, <1>9, <1>10

(* A creation that fails writes the null pointer that is there already.    *)
LEMMA CreateFailsKeeps ==
  ASSUME TypeOK, CreateFails
  PROVE  UNCHANGED entityVars
<1>1. Top.ent \in Entity /\ sub \in [Entity -> Entity \cup {None}]
  BY TopCall DEF CreateFails, At, TypeOK
<1>2. sub[Top.ent] = None /\ sub' = [sub EXCEPT ![Top.ent] = None]
  BY DEF CreateFails, Pipes
<1>3. sub' = sub
  BY <1>1, <1>2
<1>4. QED
  BY <1>3 DEF CreateFails, entityVars

(* While the client has the control every call is inside its on_recv.      *)
LEMMA ClientTurnInside ==
  ASSUME TypeOK, OnlyTopRuns, ClientTurn, NEW d \in DOMAIN calls
  PROVE  calls[d].pc = "inside"
<1>1. Len(calls) \in Nat /\ d \in 1 .. Len(calls) /\ calls # <<>>
  BY EmptySeq DEF TypeOK
<1>2. QED
  BY <1>1 DEF OnlyTopRuns, ClientTurn, Top

-----------------------------------------------------------------------------
(* Type correctness.                                                       *)

(* The calls stay calls, and only the innermost of them runs, in each      *)
(* step.                                                                   *)
LEMMA CallsStep ==
  ASSUME TypeOK, OnlyTopRuns, EntitiesOwned, [Next]_vars
  PROVE  calls' \in Seq(Call) /\ OnlyTopRuns'
<1>1. CASE UNCHANGED calls
  BY <1>1 DEF TypeOK, OnlyTopRuns
<1>2. ASSUME calls # <<>>,
             NEW ent \in Entity, NEW pc \in {"send", "reply", "inside", "exit"},
             NEW reply \in {"empty", "FAIL"}, Goto(ent, pc, reply)
      PROVE  calls' \in Seq(Call) /\ OnlyTopRuns'
  <2>1. /\ Len(calls) \in Nat
        /\ calls' \in Seq(Call) /\ Len(calls') = Len(calls)
        /\ \A d \in 1 .. (Len(calls) - 1) : calls'[d] = calls[d]
    BY <1>2, TopGoes, TopCall
  <2>2. ASSUME NEW d \in DOMAIN calls', d < Len(calls')
        PROVE  calls'[d].pc = "inside"
    <3>1. calls \in Seq(Call)
      BY DEF TypeOK
    <3>2. d \in 1 .. (Len(calls) - 1) /\ d \in DOMAIN calls /\ d < Len(calls)
      BY <2>1, <2>2, <3>1
    <3>3. QED
      BY <2>1, <3>2 DEF OnlyTopRuns
  <2>3. QED
    BY <2>1, <2>2 DEF OnlyTopRuns
<1>3. ASSUME calls # <<>>, calls' = Front(calls)
      PROVE  calls' \in Seq(Call) /\ OnlyTopRuns'
  <2>1. /\ Len(calls) \in Nat
        /\ calls' \in Seq(Call) /\ Len(calls') = Len(calls) - 1
        /\ \A d \in 1 .. (Len(calls) - 1) : calls'[d] = calls[d]
    BY <1>3, TopCall
  <2>2. ASSUME NEW d \in DOMAIN calls', d < Len(calls')
        PROVE  calls'[d].pc = "inside"
    <3>1. calls \in Seq(Call)
      BY DEF TypeOK
    <3>2. d \in 1 .. (Len(calls) - 1) /\ d \in DOMAIN calls /\ d < Len(calls)
      BY <2>1, <2>2, <3>1
    <3>3. QED
      BY <2>1, <3>2 DEF OnlyTopRuns
  <2>3. QED
    BY <2>1, <2>2 DEF OnlyTopRuns
<1>4. ASSUME NEW e \in Entity, NEW b \in Buffer, Send(e, b)
      PROVE  calls' \in Seq(Call) /\ OnlyTopRuns'
  <2> DEFINE f == [via |-> e, ent |-> e, buf |-> b, pc |-> "send", reply |-> "empty"]
  <2>1. f \in Call /\ calls' = Append(calls, f)
    BY <1>4 DEF Send, Call
  <2> HIDE DEF f
  <2>2. \A d \in DOMAIN calls : calls[d].pc = "inside"
    BY <1>4, ClientTurnInside DEF Send
  <2>3. /\ calls \in Seq(Call) /\ Len(calls) \in Nat
        /\ calls' \in Seq(Call) /\ Len(calls') = Len(calls) + 1
        /\ \A d \in 1 .. Len(calls) : calls'[d] = calls[d]
    BY <2>1, AppendProperties DEF TypeOK
  <2>4. QED
    BY <2>2, <2>3 DEF OnlyTopRuns
<1>5. CASE Forward
  <2>1. calls # <<>> /\ sub[Top.ent] \in Entity
    BY <1>5, TopCall DEF Forward, At, TypeOK, Pipes
  <2>2. QED
    BY <1>2, <1>5, <2>1 DEF Forward, SubEntity
<1>6. CASE \/ NamesNothing \/ CreateFails \/ ReplyDropped
           \/ \E x \in Entity : Create(x)
           \/ \E b \in Buffer : Reply(b)
           \/ \E d \in 1 .. MaxDepth : Return(d)
  <2>1. calls # <<>>
    BY <1>6 DEF NamesNothing, CreateFails, ReplyDropped, Create, Reply, Return, At
  <2>2. Top.ent \in Entity /\ Top.reply \in {"empty", "FAIL"}
    BY <2>1, TopCall DEF Call
  <2>3. \E pc \in {"send", "reply", "inside", "exit"}, reply \in {"empty", "FAIL"} :
          Goto(Top.ent, pc, reply)
    BY <1>6, <2>2 DEF NamesNothing, CreateFails, ReplyDropped, Create, Reply, Return,
                      Answer, AfterReply
  <2>4. QED
    BY <1>2, <2>1, <2>2, <2>3
<1>7. CASE Exit \/ NullSend
  BY <1>3, <1>7 DEF Exit, NullSend, At
<1>8. CASE \/ \E i \in Offered : Register(i)
           \/ \E e \in Entity, i \in Offered, l \in BOOLEAN : New(e, i, l)
           \/ \E e \in Entity : Delete(e)
           \/ \E b \in Buffer, c \in Content : NewBuffer(b, c)
           \/ \E b \in Buffer : RefBuffer(b) \/ UnrefBuffer(b)
           \/ UnloadExec
           \/ UNCHANGED vars
  BY <1>1, <1>8 DEF Register, New, Delete, NewBuffer, RefBuffer, UnrefBuffer,
                    UnloadExec, vars
<1>9. QED
  BY <1>4, <1>5, <1>6, <1>7, <1>8 DEF Next, Client, Library

(* Releasing a buffer keeps the types of counts and contents.              *)
LEMMA ReleaseTypes ==
  ASSUME TypeOK, NEW b \in Buffer, Release(b)
  PROVE  refcnt' \in [Buffer -> Int] /\ content' \in [Buffer -> Content]
<1>1. refcnt \in [Buffer -> Int] /\ content \in [Buffer -> Content]
  BY DEF TypeOK
<1>2. refcnt' \in [Buffer -> Int]
  BY <1>1 DEF Release, Released
<1>3. content' \in [Buffer -> Content]
  BY <1>1 DEF Release, Content
<1>4. QED
  BY <1>2, <1>3

(* So does every other variable keep its type.                             *)
LEMMA TypeStep ==
  ASSUME TypeOK, OnlyTopRuns, EntitiesOwned, [Next]_vars
  PROVE  TypeOK'
<1>1. calls' \in Seq(Call)
  BY CallsStep
<1>2. CASE UNCHANGED vars
  BY <1>2 DEF vars, entityVars, bufferVars, TypeOK
<1>3. CASE \E i \in Offered : Register(i)
  BY <1>1, <1>3, OfferedAssumption DEF Register, bufferVars, TypeOK
<1>4. ASSUME NEW e \in Entity, NEW i \in Offered, NEW l \in BOOLEAN, New(e, i, l)
      PROVE  TypeOK'
  BY <1>1, <1>4, OfferedAssumption DEF New, Makeable, bufferVars, TypeOK
<1>5. ASSUME NEW e \in Entity, Delete(e)
      PROVE  TypeOK'
  <2>1. listens' \in [Entity -> BOOLEAN]
    BY <1>5, Zenon DEF Delete
  <2>2. fault' \in BOOLEAN
    BY <1>5, Zenon DEF Delete
  <2>3. QED
    BY <1>1, <1>5, <2>1, <2>2 DEF Delete, NeedExec, bufferVars, TypeOK
<1>6. ASSUME NEW b \in Buffer, NEW c \in Content, NewBuffer(b, c)
      PROVE  TypeOK'
  BY <1>1, <1>6 DEF NewBuffer, entityVars, TypeOK
<1>7. ASSUME NEW b \in Buffer, RefBuffer(b) \/ UnrefBuffer(b)
      PROVE  TypeOK'
  <2>1. /\ held \in [Buffer -> Nat] /\ refcnt \in [Buffer -> Int]
        /\ held[b] \in Nat /\ held[b] > 0
    BY <1>7 DEF RefBuffer, UnrefBuffer, TypeOK
  <2>2. CASE RefBuffer(b)
    <3>1. held' \in [Buffer -> Nat] /\ refcnt' \in [Buffer -> Int]
      BY <2>1, <2>2 DEF RefBuffer
    <3>2. QED
      BY <1>1, <2>2, <3>1 DEF RefBuffer, entityVars, TypeOK
  <2>3. CASE UnrefBuffer(b)
    <3>1. held' \in [Buffer -> Nat]
      BY <2>1, <2>3 DEF UnrefBuffer
    <3>2. QED
      BY <1>1, <2>3, <3>1, ReleaseTypes DEF UnrefBuffer, entityVars, TypeOK
  <2>4. QED
    BY <1>7, <2>2, <2>3
<1>8. ASSUME NEW e \in Entity, NEW b \in Buffer, Send(e, b)
      PROVE  TypeOK'
  BY <1>1, <1>8 DEF Send, entityVars, TypeOK
<1>9. CASE UnloadExec
  BY <1>1, <1>9 DEF UnloadExec, bufferVars, TypeOK
<1>10. CASE Forward \/ NamesNothing \/ CreateFails \/ ReplyDropped
            \/ \E d \in 1 .. MaxDepth : Return(d)
  BY <1>1, <1>10, CreateFailsKeeps DEF Forward, NamesNothing, CreateFails, ReplyDropped, Return,
                     entityVars, bufferVars, TypeOK
<1>11. ASSUME NEW x \in Entity, Create(x)
       PROVE  TypeOK'
  <2>1. Top.ent \in Entity
    BY <1>11, TopCall DEF Create, At
  <2>2. QED
    BY <1>1, <1>11, <2>1 DEF Create, bufferVars, TypeOK
<1>12. ASSUME NEW b \in Buffer, Reply(b)
       PROVE  TypeOK'
  <2>1. Top.reply \in Content
    BY <1>12, TopCall DEF Reply, At, Call, Content
  <2>2. QED
    BY <1>1, <1>12, <2>1 DEF Reply, entityVars, TypeOK
<1>13. CASE Exit
  <2>1. Top.buf \in Buffer
    BY <1>13, TopCall DEF Exit
  <2>2. QED
    BY <1>1, <1>13, <2>1, ReleaseTypes DEF Exit, entityVars, TypeOK
<1>14. CASE NullSend
  <2>1. Top.buf \in Buffer
    BY <1>14, TopCall DEF NullSend, At
  <2>2. lost' \in [Buffer -> Nat]
    BY <1>14, <2>1 DEF NullSend, TypeOK
  <2>3. QED
    BY <1>1, <1>14, <2>2 DEF NullSend, entityVars, TypeOK
<1>15. QED
  BY <1>2, <1>3, <1>4, <1>5, <1>6, <1>7, <1>8, <1>9, <1>10, <1>11, <1>12, <1>13, <1>14
     DEF Next, Client, Library

(* The variables have their types in the first state.                      *)
LEMMA TypeInit ==
  ASSUME Init
  PROVE  TypeOK /\ OnlyTopRuns /\ EntitiesOwned /\ NoUseAfterFree
<1>1. calls \in Seq(Call) /\ DOMAIN calls = {}
  BY EmptySeq DEF Init
<1>2. TypeOK
  <2>1. listens \in [Entity -> BOOLEAN] /\ loaded \in BOOLEAN /\ fault \in BOOLEAN
    BY Zenon DEF Init
  <2>2. /\ idea \in [Entity -> Idea \cup {"none"}]
        /\ sub \in [Entity -> Entity \cup {None}]
        /\ ideas \subseteq Idea /\ roots \subseteq Entity
    BY DEF Init
  <2>3. /\ content \in [Buffer -> Content]
        /\ refcnt \in [Buffer -> Int] /\ held \in [Buffer -> Nat]
        /\ lost \in [Buffer -> Nat]
    BY DEF Init, Content
  <2>4. QED
    BY <1>1, <2>1, <2>2, <2>3 DEF TypeOK
<1>3. QED
  BY <1>1, <1>2 DEF Init, OnlyTopRuns, EntitiesOwned, NoUseAfterFree

-----------------------------------------------------------------------------
(* Ownership of entities.                                                  *)

(* What a deletion deletes holds the sub-entity of each of its members,    *)
(* and of no other entity; of the roots it deletes the one it is asked to. *)
LEMMA BelowOwned ==
  ASSUME TypeOK, EntitiesOwned, NEW e \in roots
  PROVE  /\ e \in Below(e)
         /\ Below(e) \subseteq Entity
         /\ Closed(Below(e))
         /\ \A y \in Entity : sub[y] \in Below(e) => y \in Below(e)
         /\ \A r \in roots : r \in Below(e) => r = e
<1>1. e \in Entity /\ Below(e) \subseteq Entity
  BY DEF TypeOK, Below
<1>2. e \in Below(e)
  BY <1>1 DEF Below
<1>3. Closed(Below(e))
  BY DEF Closed, Below, TypeOK
<1>4. ASSUME NEW x \in Below(e), x # e,
             \A z \in Below(e) : sub[z] # x
      PROVE  FALSE
  <2> DEFINE S == Below(e) \ {x}
  <2>1. S \in SUBSET Entity /\ e \in S
    BY <1>1, <1>2, <1>4
  <2>2. Closed(S)
    BY <1>3, <1>4 DEF Closed
  <2>3. x \in S
    BY <2>1, <2>2 DEF Below
  <2>4. QED
    BY <2>3
<1>5. ASSUME NEW y \in Entity, sub[y] \in Below(e)
      PROVE  y \in Below(e)
  <2>1. sub[y] # None /\ sub[y] # e
    BY <1>1, <1>5, NoneAssumption DEF EntitiesOwned
  <2>2. PICK z \in Below(e) : sub[z] = sub[y]
    BY <1>4, <1>5, <2>1
  <2>3. QED
    BY <1>1, <2>1, <2>2 DEF EntitiesOwned
<1>6. ASSUME NEW r \in roots, r \in Below(e)
      PROVE  r = e
  <2>1. \A z \in Below(e) : sub[z] # r
    BY <1>1, <1>6, NoneAssumption DEF EntitiesOwned
  <2>2. QED
    BY <1>4, <1>6, <2>1
<1>7. QED
  BY <1>1, <1>2, <1>3, <1>5, <1>6

(* Deleting a root leaves no entity without an owner and no owner of a     *)
(* deleted one.                                                            *)
LEMMA DeleteOwned ==
  ASSUME TypeOK, EntitiesOwned, NEW e \in Entity, Delete(e)
  PROVE  EntitiesOwned'
<1>1. e \in roots /\ roots' = roots \ {e}
  BY DEF Delete
<1> DEFINE B == Below(e)
<1>2. /\ idea' = [x \in Entity |-> IF x \in B THEN "none" ELSE idea[x]]
      /\ sub' = [x \in Entity |-> IF x \in B THEN None ELSE sub[x]]
  BY DEF Delete
<1>3. /\ B \subseteq Entity
      /\ Closed(B)
      /\ \A y \in Entity : sub[y] \in B => y \in B
      /\ \A r \in roots : r \in B => r = e
  BY <1>1, BelowOwned
<1> HIDE DEF B
<1>4. sub \in [Entity -> Entity \cup {None}] /\ roots \subseteq Entity
  BY DEF TypeOK
<1>5. \A r \in roots' : idea'[r] # "none"
  BY <1>1, <1>2, <1>3, <1>4 DEF EntitiesOwned
<1>6. ASSUME NEW x \in Entity, sub'[x] # None
      PROVE  /\ idea'[x] # "none" /\ idea'[sub'[x]] # "none"
             /\ sub'[x] \notin roots'
             /\ \A y \in Entity : sub'[y] = sub'[x] => y = x
  <2>1. x \notin B /\ sub'[x] = sub[x]
    BY <1>2, <1>6
  <2>2. sub[x] \in Entity /\ sub[x] \notin B
    BY <1>3, <1>4, <1>6, <2>1
  <2>3. /\ idea[x] # "none" /\ idea[sub[x]] # "none"
        /\ sub[x] \notin roots
        /\ \A y \in Entity : sub[y] = sub[x] => y = x
    BY <1>6, <2>1 DEF EntitiesOwned
  <2>4. QED
    BY <1>1, <1>2, <1>6, <2>1, <2>2, <2>3
<1>7. ASSUME NEW z \in Entity, idea'[z] # "none"
      PROVE  z \in roots' \/ \E x \in Entity : sub'[x] = z
  <2>1. z \notin B /\ idea[z] # "none"
    BY <1>2, <1>7
  <2>2. CASE z \in roots
    BY <1>1, <2>1, <2>2, BelowOwned DEF B
  <2>3. CASE \E x \in Entity : sub[x] = z
    <3>1. PICK x \in Entity : sub[x] = z
      BY <2>3
    <3>2. x \notin B
      BY <1>3, <2>1, <3>1, NoneAssumption DEF Closed
    <3>3. QED
      BY <1>2, <3>1, <3>2
  <2>4. QED
    BY <2>1, <2>2, <2>3 DEF EntitiesOwned
<1>8. QED
  BY <1>5, <1>6, <1>7 DEF EntitiesOwned

(* Every step keeps the ownership of entities in order.                    *)
LEMMA OwnedStep ==
  ASSUME TypeOK, OnlyTopRuns, EntitiesOwned, [Next]_vars
  PROVE  EntitiesOwned'
<1>1. CASE UNCHANGED <<idea, sub, roots>>
  BY <1>1 DEF EntitiesOwned
<1>2. ASSUME NEW e \in Entity, NEW i \in Offered, NEW l \in BOOLEAN, New(e, i, l)
      PROVE  EntitiesOwned'
  <2>1. idea[e] = "none" /\ i # "none"
    BY <1>2, OfferedAssumption DEF New, Makeable, FreeEntity, Idea
  <2>2. sub[e] = None /\ \A x \in Entity : sub[x] # e
    BY <2>1, NoneAssumption DEF EntitiesOwned
  <2>3. sub' = sub
    BY <1>2, <2>2 DEF New, TypeOK
  <2>4. /\ idea' = [idea EXCEPT ![e] = i] /\ roots' = roots \cup {e}
        /\ idea \in [Entity -> Idea \cup {"none"}]
        /\ sub \in [Entity -> Entity \cup {None}]
        /\ roots \subseteq Entity
    BY <1>2 DEF New, TypeOK
  <2>5. QED
    BY <2>1, <2>2, <2>3, <2>4 DEF EntitiesOwned
<1>3. ASSUME NEW x \in Entity, Create(x)
      PROVE  EntitiesOwned'
  <2> DEFINE e == Top.ent
             i == content[Top.buf]
  <2>1. /\ e \in Entity /\ idea[e] = "any" /\ sub[e] = None
        /\ idea[x] = "none" /\ i \in Idea
        /\ idea' = [idea EXCEPT ![x] = i]
        /\ sub' = [sub EXCEPT ![x] = None, ![e] = x]
        /\ roots' = roots
    BY <1>3, TopCall DEF Create, At, FreeEntity, TypeOK, Pipes
  <2>2. /\ idea \in [Entity -> Idea \cup {"none"}]
        /\ sub \in [Entity -> Entity \cup {None}]
        /\ roots \subseteq Entity
    BY DEF TypeOK
  <2> HIDE DEF e, i
  <2>3. /\ sub[x] = None /\ x # e /\ x \notin roots /\ x # None
        /\ \A y \in Entity : sub[y] # x
    BY <2>1, NoneAssumption DEF EntitiesOwned
  <2>4. i # "none"
    BY <2>1 DEF Idea
  <2>5. /\ \A y \in Entity : sub'[y] = IF y = e THEN x ELSE sub[y]
        /\ \A y \in Entity : idea'[y] = IF y = x THEN i ELSE idea[y]
    BY <2>1, <2>2, <2>3
  <2>6. \A r \in roots' : idea'[r] # "none"
    BY <2>1, <2>2, <2>3, <2>5 DEF EntitiesOwned
  <2>7. ASSUME NEW y \in Entity, sub'[y] # None
        PROVE  /\ idea'[y] # "none" /\ idea'[sub'[y]] # "none"
               /\ sub'[y] \notin roots'
               /\ \A z \in Entity : sub'[z] = sub'[y] => z = y
    <3>1. CASE y = e
      <4>1. sub'[y] = x /\ idea'[x] = i /\ idea'[y] = "any"
        BY <2>1, <2>3, <2>5, <3>1
      <4>2. \A z \in Entity : sub'[z] = x => z = e
        BY <2>3, <2>5
      <4>3. x \notin roots'
        BY <2>1, <2>3
      <4>4. QED
        BY <2>4, <3>1, <4>1, <4>2, <4>3
    <3>2. CASE y # e
      <4>1. sub'[y] = sub[y] /\ sub[y] \in Entity /\ sub[y] # None
        BY <2>2, <2>5, <2>7, <3>2
      <4>2. /\ idea[y] # "none" /\ idea[sub[y]] # "none"
            /\ sub[y] \notin roots
            /\ \A z \in Entity : sub[z] = sub[y] => z = y
        BY <4>1 DEF EntitiesOwned
      <4>3. y # x /\ sub[y] # x
        BY <2>3, <4>1
      <4>4. idea'[y] # "none" /\ idea'[sub'[y]] # "none"
        BY <2>5, <4>1, <4>2, <4>3
      <4>5. sub'[y] \notin roots'
        BY <2>1, <4>1, <4>2
      <4>6. \A z \in Entity : sub'[z] = sub'[y] => z = y
        BY <2>5, <4>1, <4>2, <4>3
      <4>7. QED
        BY <4>4, <4>5, <4>6
    <3>3. QED
      BY <3>1, <3>2
  <2>8. ASSUME NEW y \in Entity, idea'[y] # "none"
        PROVE  y \in roots' \/ \E z \in Entity : sub'[z] = y
    <3>1. CASE y = x
      BY <2>1, <2>5, <3>1
    <3>2. CASE y # x
      <4>1. y \in roots \/ \E z \in Entity : sub[z] = y
        BY <2>5, <2>8, <3>2 DEF EntitiesOwned
      <4>2. QED
        BY <2>1, <2>5, <4>1, NoneAssumption
    <3>3. QED
      BY <3>1, <3>2
  <2>9. QED
    BY <2>6, <2>7, <2>8 DEF EntitiesOwned
<1>4. ASSUME NEW e \in Entity, Delete(e)
      PROVE  EntitiesOwned'
  BY <1>4, DeleteOwned
<1>5. CASE \/ \E i \in Offered : Register(i)
           \/ \E b \in Buffer, c \in Content : NewBuffer(b, c)
           \/ \E b \in Buffer : RefBuffer(b) \/ UnrefBuffer(b)
           \/ \E e \in Entity, b \in Buffer : Send(e, b)
           \/ UnloadExec
           \/ Forward \/ NamesNothing \/ CreateFails
           \/ \E b \in Buffer : Reply(b)
           \/ ReplyDropped \/ Exit \/ NullSend
           \/ \E d \in 1 .. MaxDepth : Return(d)
           \/ UNCHANGED vars
  <2>1. UNCHANGED <<idea, sub, roots>>
    BY <1>5, CreateFailsKeeps DEF Register, NewBuffer, RefBuffer, UnrefBuffer, Send, UnloadExec,
                Forward, NamesNothing, CreateFails, Reply, ReplyDropped, Exit,
                NullSend, Return, vars, entityVars
  <2>2. QED
    BY <1>1, <2>1
<1>6. QED
  BY <1>2, <1>3, <1>4, <1>5 DEF Next, Client, Library

-----------------------------------------------------------------------------
(* Deleted entities are not used.                                          *)

(* No step leaves a call about to use an entity that is not there.         *)
LEMMA NoUseStep ==
  ASSUME EntityInv, [Next]_vars
  PROVE  NoUseAfterFree'
<1> USE DEF EntityInv
<1>1. calls' \in Seq(Call) /\ OnlyTopRuns'
  BY CallsStep
<1>2. ASSUME \A d \in DOMAIN calls' : calls'[d].pc = "inside"
      PROVE  NoUseAfterFree'
  BY <1>2 DEF NoUseAfterFree
<1>3. ASSUME calls # <<>>,
             NEW ent \in Entity, NEW pc \in {"send", "reply", "inside", "exit"},
             NEW reply \in {"empty", "FAIL"}, Goto(ent, pc, reply),
             pc \in {"send", "reply"} => idea'[ent] # "none"
      PROVE  NoUseAfterFree'
  <2>1. /\ Len(calls) \in Nat /\ Len(calls') = Len(calls)
        /\ calls'[Len(calls)].ent = ent /\ calls'[Len(calls)].pc = pc
    BY <1>3, TopGoes, TopCall
  <2>2. ASSUME NEW d \in DOMAIN calls', calls'[d].pc \in {"send", "reply"}
        PROVE  d = Len(calls)
    <3>1. d \in 1 .. Len(calls)
      BY <1>1, <2>1
    <3>2. ~(d < Len(calls))
      BY <1>1, <2>1, <2>2 DEF OnlyTopRuns
    <3>3. QED
      BY <2>1, <3>1, <3>2
  <2>3. QED
    BY <1>3, <2>1, <2>2 DEF NoUseAfterFree
<1>4. ASSUME ClientTurn, UNCHANGED calls
      PROVE  NoUseAfterFree'
  BY <1>2, <1>4, ClientTurnInside
<1>5. ASSUME NEW e \in Entity, NEW b \in Buffer, Send(e, b)
      PROVE  NoUseAfterFree'
  <2> DEFINE f == [via |-> e, ent |-> e, buf |-> b, pc |-> "send", reply |-> "empty"]
  <2>1. f \in Call /\ calls' = Append(calls, f) /\ f.ent = e
    BY <1>5 DEF Send, Call
  <2>2. idea'[e] # "none"
    BY <1>5 DEF Send, EntitiesOwned, entityVars
  <2> HIDE DEF f
  <2>3. \A d \in DOMAIN calls : calls[d].pc = "inside"
    BY <1>5, ClientTurnInside DEF Send
  <2>4. /\ calls \in Seq(Call) /\ Len(calls) \in Nat
        /\ Len(calls') = Len(calls) + 1
        /\ \A d \in 1 .. Len(calls) : calls'[d] = calls[d]
        /\ calls'[Len(calls) + 1] = f
    BY <2>1, AppendProperties DEF TypeOK
  <2>5. ASSUME NEW d \in DOMAIN calls'
        PROVE  d \in DOMAIN calls \/ d = Len(calls) + 1
    BY <1>1, <2>4
  <2>6. QED
    BY <2>1, <2>2, <2>3, <2>4, <2>5 DEF NoUseAfterFree
<1>6. CASE Forward
  <2>1. /\ calls # <<>> /\ sub[Top.ent] \in Entity
        /\ Goto(sub[Top.ent], "send", "empty")
        /\ UNCHANGED idea
    BY <1>6, TopCall DEF Forward, At, TypeOK, entityVars, Pipes, SubEntity
  <2>2. idea'[sub[Top.ent]] # "none"
    BY <1>6, <2>1, TopCall, NoneAssumption DEF EntitiesOwned
  <2>3. QED
    BY <1>3, <2>1, <2>2
<1>7. CASE CreateFails \/ \E x \in Entity : Create(x)
  <2>1. /\ calls # <<>> /\ Top.ent \in Entity
        /\ \E reply \in {"empty", "FAIL"} : Goto(Top.ent, "reply", reply)
    BY <1>7, TopCall DEF CreateFails, Create, At, Answer
  <2>2. idea'[Top.ent] # "none"
    <3>1. CASE CreateFails
      BY <3>1 DEF CreateFails, At, entityVars
    <3>2. ASSUME NEW x \in Entity, Create(x)
          PROVE  idea'[Top.ent] # "none"
      <4>1. idea[Top.ent] = "any" /\ idea[x] = "none"
        BY <3>2 DEF Create, At, FreeEntity
      <4>2. idea' = [idea EXCEPT ![x] = content[Top.buf]]
        BY <3>2 DEF Create
      <4>3. QED
        BY <2>1, <4>1, <4>2 DEF TypeOK
    <3>3. QED
      BY <1>7, <3>1, <3>2
  <2>3. QED
    BY <1>3, <2>1, <2>2
<1>8. CASE \/ NamesNothing \/ ReplyDropped
           \/ \E b \in Buffer : Reply(b)
           \/ \E d \in 1 .. MaxDepth : Return(d)
  <2>1. calls # <<>>
    BY <1>8 DEF NamesNothing, ReplyDropped, Reply, Return, At
  <2>2. Top.ent \in Entity /\ Top.reply \in {"empty", "FAIL"}
    BY <2>1, TopCall DEF Call
  <2>3. \E pc \in {"inside", "exit"} : Goto(Top.ent, pc, Top.reply)
    BY <1>8 DEF NamesNothing, ReplyDropped, Reply, Return, AfterReply
  <2>4. QED
    BY <1>3, <2>1, <2>2, <2>3
<1>9. CASE Exit \/ NullSend
  <2>1. calls # <<>> /\ calls' = Front(calls)
    BY <1>9 DEF Exit, NullSend, At
  <2>2. /\ Len(calls) \in Nat /\ Len(calls') = Len(calls) - 1
        /\ \A d \in 1 .. (Len(calls) - 1) : calls'[d] = calls[d]
    BY <2>1, TopCall
  <2>3. ASSUME NEW d \in DOMAIN calls'
        PROVE  calls'[d].pc = "inside"
    <3>1. calls \in Seq(Call)
      BY DEF TypeOK
    <3>2. d \in 1 .. (Len(calls) - 1) /\ d \in DOMAIN calls /\ d < Len(calls)
      BY <1>1, <2>2, <3>1
    <3>3. QED
      BY <2>2, <3>2 DEF OnlyTopRuns
  <2>4. QED
    BY <1>2, <2>3
<1>10. CASE UnloadExec
  <2>1. DOMAIN calls' = {}
    BY <1>10, EmptySeq DEF UnloadExec
  <2>2. QED
    BY <1>2, <2>1
<1>11. CASE \/ \E i \in Offered : Register(i)
            \/ \E e \in Entity, i \in Offered, l \in BOOLEAN : New(e, i, l)
            \/ \E e \in Entity : Delete(e)
            \/ \E b \in Buffer, c \in Content : NewBuffer(b, c)
            \/ \E b \in Buffer : RefBuffer(b) \/ UnrefBuffer(b)
  BY <1>4, <1>11 DEF Register, New, Delete, NewBuffer, RefBuffer, UnrefBuffer
<1>12. CASE UNCHANGED vars
  BY <1>12 DEF vars, entityVars, NoUseAfterFree
<1>13. QED
  BY <1>5, <1>6, <1>7, <1>8, <1>9, <1>10, <1>11, <1>12 DEF Next, Client, Library

(* The invariant of the entities holds.                                    *)
LEMMA EntitiesHold == Spec => []EntityInv
<1>1. Init => EntityInv
  BY TypeInit DEF EntityInv
<1>2. EntityInv /\ [Next]_vars => EntityInv'
  BY TypeStep, CallsStep, OwnedStep, NoUseStep DEF EntityInv
<1>3. QED
  BY <1>1, <1>2, PTL DEF Spec

(* For any number of entities and buffers and any nesting of calls, and    *)
(* whatever clients do in their callbacks: every variable has its type.    *)
THEOREM TypeCorrect == Spec => []TypeOK
<1>1. EntityInv => TypeOK
  BY DEF EntityInv
<1>2. QED
  BY <1>1, EntitiesHold, PTL

(* Likewise: every entity has one owner until it is deleted, and deletion  *)
(* goes all the way down, although clients may delete an entity from the   *)
(* very callback it is making.                                             *)
THEOREM DeletionIsSafe == Spec => []EntitiesOwned
<1>1. EntityInv => EntitiesOwned
  BY DEF EntityInv
<1>2. QED
  BY <1>1, EntitiesHold, PTL

(* Likewise: no call that has yet to look at its entity is left with a     *)
(* deleted one by what a callback does.                                    *)
THEOREM NoCallUsesDeleted == Spec => []NoUseAfterFree
<1>1. EntityInv => NoUseAfterFree
  BY DEF EntityInv
<1>2. QED
  BY <1>1, EntitiesHold, PTL

-----------------------------------------------------------------------------
(* References to buffers.                                                  *)

(* A buffer is being handled by a number of calls.                         *)
LEMMA HandlingFinite ==
  ASSUME TypeOK, NEW b \in Buffer
  PROVE  IsFiniteSet(Handling(b)) /\ Cardinality(Handling(b)) \in Nat
<1>1. Len(calls) \in Nat /\ Handling(b) \subseteq 1 .. Len(calls)
  BY DEF TypeOK, Handling
<1>2. IsFiniteSet(1 .. Len(calls))
  BY <1>1, FS_Interval
<1> HIDE DEF Handling
<1>3. IsFiniteSet(Handling(b))
  BY <1>1, <1>2, FS_Subset
<1>4. QED
  BY <1>3, FS_CardinalityType

(* A call that moves on handles the buffer it handled.                     *)
LEMMA HandlingKept ==
  ASSUME TypeOK, calls # <<>>,
         NEW ent \in Entity, NEW pc \in {"send", "reply", "inside", "exit"},
         NEW reply \in {"empty", "FAIL"},
         Goto(ent, pc, reply), NEW b \in Buffer
  PROVE  Handling(b)' = Handling(b)
<1>1. /\ calls \in Seq(Call) /\ calls' \in Seq(Call)
      /\ Len(calls') = Len(calls)
      /\ \A d \in 1 .. Len(calls) : calls'[d].buf = calls[d].buf
  BY TopGoes DEF TypeOK
<1>2. DOMAIN calls' = 1 .. Len(calls) /\ DOMAIN calls = 1 .. Len(calls)
  BY <1>1
<1>3. QED
  BY <1>1, <1>2 DEF Handling

(* A call that begins handles its buffer, and no call another one.         *)
LEMMA HandlingPushed ==
  ASSUME TypeOK, NEW e \in Entity, NEW b \in Buffer, Send(e, b), NEW x \in Buffer
  PROVE  Cardinality(Handling(x))' =
           Cardinality(Handling(x)) + (IF x = b THEN 1 ELSE 0)
<1> DEFINE f == [via |-> e, ent |-> e, buf |-> b, pc |-> "send", reply |-> "empty"]
           n == Len(calls)
<1>1. f \in Call /\ f.buf = b /\ calls' = Append(calls, f) /\ calls \in Seq(Call)
  BY DEF Send, Call, TypeOK
<1> HIDE DEF f
<1>2. /\ calls' \in Seq(Call) /\ Len(calls') = n + 1 /\ n \in Nat
      /\ \A d \in 1 .. n : calls'[d] = calls[d]
      /\ calls'[n + 1] = f
  BY <1>1, AppendProperties
<1>3. /\ DOMAIN calls = 1 .. n /\ DOMAIN calls' = 1 .. (n + 1)
      /\ 1 .. (n + 1) = (1 .. n) \cup {n + 1} /\ n + 1 \notin 1 .. n
  BY <1>1, <1>2
<1>4. CASE x = b
  <2>1. Handling(x)' = Handling(x) \cup {n + 1} /\ n + 1 \notin Handling(x)
    BY <1>1, <1>2, <1>3, <1>4 DEF Handling
  <2>2. Cardinality(Handling(x) \cup {n + 1}) = Cardinality(Handling(x)) + 1
    BY <2>1, HandlingFinite, FS_AddElement
  <2>3. QED
    BY <1>4, <2>1, <2>2
<1>5. CASE x # b
  <2>1. Handling(x)' = Handling(x)
    BY <1>1, <1>2, <1>3, <1>5 DEF Handling
  <2>2. QED
    BY <1>5, <2>1, HandlingFinite
<1>6. QED
  BY <1>4, <1>5

(* A call that ends no longer handles its buffer.                          *)
LEMMA HandlingPopped ==
  ASSUME TypeOK, calls # <<>>, calls' = Front(calls), NEW x \in Buffer
  PROVE  Cardinality(Handling(x))' =
           Cardinality(Handling(x)) - (IF x = Top.buf THEN 1 ELSE 0)
<1> DEFINE n == Len(calls)
<1>1. /\ n \in Nat \ {0} /\ Top = calls[n]
      /\ calls \in Seq(Call) /\ calls' \in Seq(Call) /\ Len(calls') = n - 1
      /\ \A d \in 1 .. (n - 1) : calls'[d] = calls[d]
  BY TopCall DEF TypeOK, Top
<1>2. /\ DOMAIN calls = 1 .. n /\ DOMAIN calls' = 1 .. (n - 1)
      /\ 1 .. (n - 1) = (1 .. n) \ {n} /\ n \in 1 .. n
  BY <1>1
<1>3. CASE x = Top.buf
  <2>1. Handling(x)' = Handling(x) \ {n} /\ n \in Handling(x)
    BY <1>1, <1>2, <1>3 DEF Handling
  <2>2. Cardinality(Handling(x) \ {n}) = Cardinality(Handling(x)) - 1
    BY <2>1, HandlingFinite, FS_RemoveElement
  <2>3. QED
    BY <1>3, <2>1, <2>2
<1>4. CASE x # Top.buf
  <2>1. Handling(x)' = Handling(x)
    BY <1>1, <1>2, <1>4 DEF Handling
  <2>2. QED
    BY <1>4, <2>1, HandlingFinite
<1>5. QED
  BY <1>3, <1>4

(* Every step accounts for each reference it makes, moves or drops.        *)
LEMMA BuffersStep ==
  ASSUME BufferInv, [Next]_vars
  PROVE  BuffersOwned'
<1> USE DEF BufferInv, EntityInv
<1>1. /\ refcnt \in [Buffer -> Int] /\ held \in [Buffer -> Nat]
      /\ lost \in [Buffer -> Nat]
      /\ \A x \in Buffer : Cardinality(Handling(x)) \in Nat
      /\ \A x \in Buffer : refcnt[x] = held[x] + Cardinality(Handling(x)) + lost[x]
  BY HandlingFinite DEF TypeOK, BuffersOwned
<1>2. ASSUME UNCHANGED <<refcnt, held, lost>>,
             \A x \in Buffer : Handling(x)' = Handling(x)
      PROVE  BuffersOwned'
  BY <1>1, <1>2 DEF BuffersOwned
<1>3. ASSUME UNCHANGED calls
      PROVE  \A x \in Buffer : Handling(x)' = Handling(x)
  BY <1>3 DEF Handling
<1>4. ASSUME NEW b \in Buffer, NEW c \in Content, NewBuffer(b, c)
      PROVE  BuffersOwned'
  <2>1. refcnt[b] = 0 /\ held[b] = 0 /\ Cardinality(Handling(b)) = 0 /\ lost[b] = 0
    BY <1>1, <1>4 DEF NewBuffer, FreeBuffer
  <2>2. /\ refcnt' = [refcnt EXCEPT ![b] = 1] /\ held' = [held EXCEPT ![b] = 1]
        /\ lost' = lost /\ \A x \in Buffer : Handling(x)' = Handling(x)
    BY <1>3, <1>4 DEF NewBuffer
  <2>3. QED
    BY <1>1, <2>1, <2>2 DEF BuffersOwned
<1>5. ASSUME NEW b \in Buffer, RefBuffer(b)
      PROVE  BuffersOwned'
  <2>1. /\ refcnt' = [refcnt EXCEPT ![b] = @ + 1] /\ held' = [held EXCEPT ![b] = @ + 1]
        /\ lost' = lost /\ \A x \in Buffer : Handling(x)' = Handling(x)
    BY <1>3, <1>5 DEF RefBuffer
  <2>2. QED
    BY <1>1, <2>1 DEF BuffersOwned
<1>6. ASSUME NEW b \in Buffer, UnrefBuffer(b)
      PROVE  BuffersOwned'
  <2>1. /\ refcnt' = [refcnt EXCEPT ![b] = @ - 1] /\ held' = [held EXCEPT ![b] = @ - 1]
        /\ lost' = lost /\ \A x \in Buffer : Handling(x)' = Handling(x)
    BY <1>3, <1>6 DEF UnrefBuffer, Release, Released
  <2>2. QED
    BY <1>1, <2>1 DEF BuffersOwned
<1>7. ASSUME NEW e \in Entity, NEW b \in Buffer, Send(e, b)
      PROVE  BuffersOwned'
  <2>1. /\ refcnt' = refcnt /\ held' = [held EXCEPT ![b] = @ - 1] /\ lost' = lost
        /\ \A x \in Buffer : Cardinality(Handling(x))' =
             Cardinality(Handling(x)) + (IF x = b THEN 1 ELSE 0)
    BY <1>7, HandlingPushed DEF Send
  <2>2. QED
    BY <1>1, <2>1 DEF BuffersOwned
<1>8. ASSUME NEW b \in Buffer, Reply(b)
      PROVE  BuffersOwned'
  <2>1. refcnt[b] = 0 /\ held[b] = 0 /\ Cardinality(Handling(b)) = 0 /\ lost[b] = 0
    <3> DEFINE h == Cardinality(Handling(b))
    <3>1. refcnt[b] = 0
      BY <1>8 DEF Reply, FreeBuffer
    <3>2. held[b] \in Nat /\ lost[b] \in Nat /\ h \in Nat /\ refcnt[b] = held[b] + h + lost[b]
      BY <1>1
    <3> HIDE DEF h
    <3>3. held[b] = 0 /\ h = 0 /\ lost[b] = 0
      BY <3>1, <3>2
    <3>4. QED
      BY <3>1, <3>3 DEF h
  <2>2. calls # <<>> /\ Top.ent \in Entity /\ Top.reply \in {"empty", "FAIL"}
    BY <1>8, TopCall DEF Reply, At, Call
  <2>3. /\ refcnt' = [refcnt EXCEPT ![b] = 1] /\ held' = [held EXCEPT ![b] = 1]
        /\ lost' = lost /\ \A x \in Buffer : Handling(x)' = Handling(x)
    BY <1>8, <2>2, HandlingKept DEF Reply
  <2>4. QED
    BY <1>1, <2>1, <2>3 DEF BuffersOwned
<1>9. CASE Exit
  <2>1. /\ calls # <<>> /\ Top.buf \in Buffer /\ calls' = Front(calls)
    BY <1>9, TopCall DEF Exit
  <2>2. /\ refcnt' = [refcnt EXCEPT ![Top.buf] = @ - 1] /\ held' = held /\ lost' = lost
        /\ \A x \in Buffer : Cardinality(Handling(x))' =
             Cardinality(Handling(x)) - (IF x = Top.buf THEN 1 ELSE 0)
    BY <1>9, <2>1, HandlingPopped DEF Exit, Release, Released
  <2>3. QED
    BY SMTT(30), <1>1, <2>1, <2>2 DEF BuffersOwned
<1>10. CASE NullSend
  <2>1. /\ calls # <<>> /\ Top.buf \in Buffer /\ calls' = Front(calls)
    BY <1>10, TopCall DEF NullSend, At
  <2>2. /\ refcnt' = refcnt /\ held' = held /\ lost' = [lost EXCEPT ![Top.buf] = @ + 1]
        /\ \A x \in Buffer : Cardinality(Handling(x))' =
             Cardinality(Handling(x)) - (IF x = Top.buf THEN 1 ELSE 0)
    BY <1>10, <2>1, HandlingPopped DEF NullSend
  <2>3. QED
    BY SMTT(30), <1>1, <2>1, <2>2 DEF BuffersOwned
<1>11. CASE \/ Forward \/ NamesNothing \/ CreateFails \/ ReplyDropped
            \/ \E x \in Entity : Create(x)
            \/ \E d \in 1 .. MaxDepth : Return(d)
  <2>1. calls # <<>> /\ Top.ent \in Entity /\ Top.reply \in {"empty", "FAIL"}
    BY <1>11, TopCall DEF Forward, NamesNothing, CreateFails, ReplyDropped, Create,
                          Return, At, Call
  <2>2. \E ent \in Entity, pc \in {"send", "reply", "inside", "exit"},
           reply \in {"empty", "FAIL"} : Goto(ent, pc, reply)
    <3>1. CASE Forward
      <4>1. sub[Top.ent] \in Entity
        BY <2>1, <3>1 DEF Forward, TypeOK, Pipes
      <4>2. QED
        BY <3>1, <4>1 DEF Forward, SubEntity
    <3>2. CASE \/ NamesNothing \/ CreateFails \/ ReplyDropped
               \/ \E x \in Entity : Create(x)
               \/ \E d \in 1 .. MaxDepth : Return(d)
      BY <2>1, <3>2 DEF NamesNothing, CreateFails, ReplyDropped, Create, Return,
                        Answer, AfterReply
    <3>3. QED
      BY <1>11, <3>1, <3>2
  <2>3. \A x \in Buffer : Handling(x)' = Handling(x)
    BY <2>1, <2>2, HandlingKept
  <2>4. UNCHANGED <<refcnt, held, lost>>
    BY <1>11 DEF Forward, NamesNothing, CreateFails, ReplyDropped, Create, Return,
                 bufferVars
  <2>5. QED
    BY <1>2, <2>3, <2>4
<1>12. CASE \/ \E i \in Offered : Register(i)
            \/ \E e \in Entity, i \in Offered, l \in BOOLEAN : New(e, i, l)
            \/ \E e \in Entity : Delete(e)
            \/ UnloadExec \/ UNCHANGED vars
  <2>1. UNCHANGED <<refcnt, held, lost>> /\ UNCHANGED calls
    BY <1>12 DEF Register, New, Delete, UnloadExec, vars, bufferVars
  <2>2. QED
    BY <1>2, <1>3, <2>1
<1>13. QED
  BY <1>4, <1>5, <1>6, <1>7, <1>8, <1>9, <1>10, <1>11, <1>12 DEF Next, Client, Library

(* For any number of entities and buffers and any nesting of callbacks: a  *)
(* buffer has exactly the references of its clients, of the calls that     *)
(* handle it and those a null entity was given.                            *)
THEOREM ReferencesAreOwned == Spec => []BuffersOwned
<1>1. Init => BuffersOwned
  <2>1. ASSUME Init PROVE \A b \in Buffer : Cardinality(Handling(b)) = 0
    <3>1. DOMAIN calls = {}
      BY <2>1, EmptySeq DEF Init
    <3>2. \A b \in Buffer : Handling(b) = {}
      BY <3>1 DEF Handling
    <3>3. QED
      BY <3>2, FS_EmptySet
  <2>2. ASSUME Init, NEW b \in Buffer
        PROVE  refcnt[b] = held[b] + Cardinality(Handling(b)) + lost[b]
    <3>1. refcnt[b] = 0 /\ held[b] = 0 /\ lost[b] = 0
      BY <2>2 DEF Init
    <3>2. QED
      BY <2>1, <2>2, <3>1
  <2>3. QED
    BY <2>2 DEF BuffersOwned
<1>2. EntityInv /\ BuffersOwned /\ [Next]_vars => BuffersOwned'
  BY BuffersStep DEF BufferInv
<1>3. QED
  BY <1>1, <1>2, EntitiesHold, PTL DEF Spec

-----------------------------------------------------------------------------
(* The answer of an entity of the idea any, and its sub-entity.            *)

(* No step makes the reply of a call that is about to reply untrue.        *)
LEMMA RepliesStep ==
  ASSUME EntityInv, RepliesAreTrue, [Next]_vars
  PROVE  RepliesAreTrue'
<1> USE DEF EntityInv
<1>1. calls' \in Seq(Call) /\ OnlyTopRuns' /\ calls \in Seq(Call)
  BY CallsStep DEF TypeOK
<1>2. ASSUME \A d \in DOMAIN calls' : calls'[d].pc # "reply"
      PROVE  RepliesAreTrue'
  BY <1>2 DEF RepliesAreTrue
<1>3. ASSUME calls # <<>>,
             NEW ent \in Entity, NEW pc \in {"send", "reply", "inside", "exit"},
             NEW reply \in {"empty", "FAIL"}, Goto(ent, pc, reply),
             pc = "reply" => (reply = "empty" <=> sub'[ent] # None)
      PROVE  RepliesAreTrue'
  <2>1. /\ Len(calls) \in Nat /\ Len(calls') = Len(calls)
        /\ calls'[Len(calls)].ent = ent /\ calls'[Len(calls)].pc = pc
        /\ calls'[Len(calls)].reply = reply
    BY <1>3, TopGoes, TopCall
  <2>2. ASSUME NEW d \in DOMAIN calls', calls'[d].pc = "reply"
        PROVE  d = Len(calls)
    <3>1. d \in 1 .. Len(calls)
      BY <1>1, <2>1
    <3>2. ~(d < Len(calls))
      BY <1>1, <2>1, <2>2 DEF OnlyTopRuns
    <3>3. QED
      BY <2>1, <3>1, <3>2
  <2>3. QED
    BY <1>3, <2>1, <2>2 DEF RepliesAreTrue
<1>4. ASSUME ClientTurn, UNCHANGED calls
      PROVE  RepliesAreTrue'
  BY <1>2, <1>4, ClientTurnInside
<1>5. ASSUME NEW e \in Entity, NEW b \in Buffer, Send(e, b)
      PROVE  RepliesAreTrue'
  <2> DEFINE f == [via |-> e, ent |-> e, buf |-> b, pc |-> "send", reply |-> "empty"]
  <2>1. f \in Call /\ calls' = Append(calls, f) /\ f.pc = "send"
    BY <1>5 DEF Send, Call
  <2> HIDE DEF f
  <2>2. \A d \in DOMAIN calls : calls[d].pc = "inside"
    BY <1>5, ClientTurnInside DEF Send
  <2>3. /\ Len(calls) \in Nat /\ Len(calls') = Len(calls) + 1
        /\ \A d \in 1 .. Len(calls) : calls'[d] = calls[d]
        /\ calls'[Len(calls) + 1] = f
    BY <1>1, <2>1, AppendProperties
  <2>4. ASSUME NEW d \in DOMAIN calls'
        PROVE  d \in DOMAIN calls \/ d = Len(calls) + 1
    BY <1>1, <2>3
  <2>5. \A d \in DOMAIN calls' : calls'[d].pc # "reply"
    BY <1>1, <2>1, <2>2, <2>3, <2>4
  <2>6. QED
    BY <1>2, <2>5
<1>6. CASE Forward
  <2>1. calls # <<>> /\ sub[Top.ent] \in Entity
    BY <1>6, TopCall DEF Forward, At, TypeOK, Pipes
  <2>2. QED
    BY <1>3, <1>6, <2>1 DEF Forward, SubEntity
<1>7. CASE CreateFails
  <2>1. calls # <<>> /\ Top.ent \in Entity
    BY <1>7, TopCall DEF CreateFails, At
  <2>2. sub'[Top.ent] = None /\ Goto(Top.ent, "reply", "FAIL")
    BY <1>7, <2>1 DEF CreateFails, Answer, TypeOK
  <2>3. QED
    BY <1>3, <2>1, <2>2
<1>8. ASSUME NEW x \in Entity, Create(x)
      PROVE  RepliesAreTrue'
  <2>1. calls # <<>> /\ Top.ent \in Entity
    BY <1>8, TopCall DEF Create, At
  <2>2. sub'[Top.ent] = x /\ Goto(Top.ent, "reply", "empty") /\ x # None
    BY <1>8, <2>1, NoneAssumption DEF Create, Answer, TypeOK
  <2>3. QED
    BY <1>3, <2>1, <2>2
<1>9. CASE \/ NamesNothing \/ ReplyDropped
           \/ \E b \in Buffer : Reply(b)
           \/ \E d \in 1 .. MaxDepth : Return(d)
  <2>1. calls # <<>>
    BY <1>9 DEF NamesNothing, ReplyDropped, Reply, Return, At
  <2>2. Top.ent \in Entity /\ Top.reply \in {"empty", "FAIL"}
    BY <2>1, TopCall DEF Call
  <2>3. \E pc \in {"inside", "exit"} : Goto(Top.ent, pc, Top.reply)
    BY <1>9 DEF NamesNothing, ReplyDropped, Reply, Return, AfterReply
  <2>4. QED
    BY <1>3, <2>1, <2>2, <2>3
<1>10. CASE Exit \/ NullSend
  <2>1. calls # <<>> /\ calls' = Front(calls)
    BY <1>10 DEF Exit, NullSend, At
  <2>2. /\ Len(calls) \in Nat /\ Len(calls') = Len(calls) - 1
        /\ \A d \in 1 .. (Len(calls) - 1) : calls'[d] = calls[d]
    BY <2>1, TopCall
  <2>3. ASSUME NEW d \in DOMAIN calls'
        PROVE  calls'[d].pc # "reply"
    <3>1. d \in 1 .. (Len(calls) - 1) /\ d \in DOMAIN calls /\ d < Len(calls)
      BY <1>1, <2>2
    <3>2. QED
      BY <2>2, <3>1 DEF OnlyTopRuns
  <2>4. QED
    BY <1>2, <2>3
<1>11. CASE UnloadExec
  <2>1. DOMAIN calls' = {}
    BY <1>11, EmptySeq DEF UnloadExec
  <2>2. QED
    BY <1>2, <2>1
<1>12. CASE \/ \E i \in Offered : Register(i)
            \/ \E e \in Entity, i \in Offered, l \in BOOLEAN : New(e, i, l)
            \/ \E e \in Entity : Delete(e)
            \/ \E b \in Buffer, c \in Content : NewBuffer(b, c)
            \/ \E b \in Buffer : RefBuffer(b) \/ UnrefBuffer(b)
  BY <1>4, <1>12 DEF Register, New, Delete, NewBuffer, RefBuffer, UnrefBuffer
<1>13. CASE UNCHANGED vars
  BY <1>13 DEF vars, entityVars, RepliesAreTrue
<1>14. QED
  BY <1>5, <1>6, <1>7, <1>8, <1>9, <1>10, <1>11, <1>12, <1>13 DEF Next, Client, Library

(* For any nesting of callbacks: what on_recv is told of the making of a   *)
(* sub-entity is so at the moment it is told.                              *)
THEOREM AnswersAreTrue == Spec => []RepliesAreTrue
<1>1. Init => RepliesAreTrue
  <2>1. ASSUME Init PROVE DOMAIN calls = {}
    BY <2>1, EmptySeq DEF Init
  <2>2. QED
    BY <2>1 DEF RepliesAreTrue
<1>2. EntityInv /\ RepliesAreTrue /\ [Next]_vars => RepliesAreTrue'
  BY RepliesStep
<1>3. QED
  BY <1>1, <1>2, EntitiesHold, PTL DEF Spec

(* A step changes a sub-entity that is there only by deleting its owner.   *)
LEMMA PipeStep ==
  ASSUME EntityInv, [Next]_vars, NEW e \in Entity, sub[e] # None, idea'[e] # "none"
  PROVE  sub'[e] = sub[e]
<1> USE DEF EntityInv
<1>1. sub \in [Entity -> Entity \cup {None}] /\ idea[e] # "none"
  BY DEF TypeOK, EntitiesOwned
<1>2. ASSUME NEW x \in Entity, NEW i \in Offered, NEW l \in BOOLEAN, New(x, i, l)
      PROVE  sub'[e] = sub[e]
  BY <1>1, <1>2 DEF New, FreeEntity
<1>3. ASSUME NEW x \in Entity, Delete(x)
      PROVE  sub'[e] = sub[e]
  BY <1>3 DEF Delete
<1>4. ASSUME NEW x \in Entity, Create(x)
      PROVE  sub'[e] = sub[e]
  <2>1. Top.ent \in Entity /\ sub[Top.ent] = None /\ idea[x] = "none"
    BY <1>4, TopCall DEF Create, At, Pipes, FreeEntity
  <2>2. sub' = [sub EXCEPT ![x] = None, ![Top.ent] = x]
    BY <1>4 DEF Create
  <2>3. QED
    BY <1>1, <2>1, <2>2
<1>5. CASE \/ \E i \in Offered : Register(i)
           \/ \E b \in Buffer, c \in Content : NewBuffer(b, c)
           \/ \E b \in Buffer : RefBuffer(b) \/ UnrefBuffer(b)
           \/ \E x \in Entity, b \in Buffer : Send(x, b)
           \/ UnloadExec
           \/ Forward \/ NamesNothing \/ CreateFails
           \/ \E b \in Buffer : Reply(b)
           \/ ReplyDropped \/ Exit \/ NullSend
           \/ \E d \in 1 .. MaxDepth : Return(d)
           \/ UNCHANGED vars
  <2>1. UNCHANGED sub
    BY <1>5, CreateFailsKeeps DEF Register, NewBuffer, RefBuffer, UnrefBuffer, Send,
                UnloadExec, Forward, NamesNothing, CreateFails, Reply, ReplyDropped,
                Exit, NullSend, Return, vars, entityVars
  <2>2. QED
    BY <2>1
<1>6. QED
  BY <1>2, <1>3, <1>4, <1>5 DEF Next, Client, Library

(* An entity in the PIPE state keeps its sub-entity for as long as it is,  *)
(* whatever is sent to it and whatever callbacks do.                       *)
THEOREM PipesStay == Spec => PipeIsFinal
<1> DEFINE Kept == \A e \in Entity :
                     sub[e] # None /\ idea'[e] # "none" => sub'[e] = sub[e]
<1>1. EntityInv /\ [Next]_vars => [Kept]_vars
  BY PipeStep
<1>2. Spec => [][Kept]_vars
  BY <1>1, EntitiesHold, PTL DEF Spec
<1>3. QED
  BY <1>2, PTL DEF PipeIsFinal
=============================================================================
