--------------------------------- MODULE Exec ---------------------------------
(***************************************************************************)
(* core/exec, core/any and core/null: the registry of ideas, the entities  *)
(* made from them, and the counted buffers (util/buffer.h) that entities   *)
(* and their clients hand to one another.                                  *)
(*                                                                         *)
(* An entity of the idea "any" starts without a sub-entity.  A buffer sent *)
(* to it then names an idea; the entity makes a sub-entity of that idea    *)
(* and replies, and from there on forwards what it is sent.  Everything is *)
(* a synchronous call: "calls" holds the send() calls in progress, the     *)
(* innermost last.  The reply is delivered by calling the client's         *)
(* on_recv, in which the client may do anything, deleting the entity that  *)
(* is calling it included.                                                 *)
(*                                                                         *)
(* An identity of Entity or Buffer is an address: it is given again once   *)
(* it is free and no call in progress names it.  Any allocation may fail.  *)
(***************************************************************************)
EXTENDS Integers, Sequences, FiniteSets, SequencesExt

CONSTANTS
  Entity, Buffer,
  None,        \* nullptr
  Offered,     \* the ideas there are to register and to make entities of
  MaxRefs,     \* bound: references there are to one buffer
  MaxDepth     \* bound: sends nested in one another

Idea == {"any", "null"}

ASSUME NoneAssumption == None \notin Entity \cup Buffer
ASSUME OfferedAssumption == Offered \subseteq Idea
ASSUME BoundAssumption == MaxRefs \in Nat /\ MaxDepth \in Nat

VARIABLES
  ideas,     \* nf7core_exec.ideas, as a set; names are distinct
  idea,      \* idea[e]: nf7core_exec_entity.idea, "none" while e is free
  sub,       \* sub[e]: nf7core_any_entity.entity
  listens,   \* listens[e]: nf7core_exec_entity.on_recv is set
  roots,     \* the entities clients own
  content,   \* content[b]: what the buffer says
  refcnt,    \* refcnt[b]: nf7util_buffer.refcnt, 0 while b is free
  held,      \* held[b]: references to b that clients own
  lost,      \* lost[b]: references to b that a null entity was given; a
             \* history variable, since the entity keeps nothing of them
  calls,     \* the send() calls in progress
  loaded,    \* the exec module has not been unloaded
  fault      \* the exec module was used after it was unloaded

entityVars == <<ideas, idea, sub, listens, roots>>
bufferVars == <<content, refcnt, held, lost>>
vars == <<entityVars, bufferVars, calls, loaded, fault>>

(* "FAIL" is the reply, and stands for every name that is not an idea's.   *)
(* "empty" is the empty string, which as a reply says that all went well.  *)
Content == {"empty", "FAIL"} \cup Idea

(* One send() call: the entity the client called, the entity that has the  *)
(* buffer now, and where it is: about to handle the buffer, about to       *)
(* reply, inside the client's on_recv, or about to release the buffer.     *)
Call == [via : Entity, ent : Entity, buf : Buffer,
         pc : {"send", "reply", "inside", "exit"}, reply : {"empty", "FAIL"}]

(* The exec module is loaded; the others have yet to register their ideas. *)
Init ==
  /\ ideas = {}
  /\ idea = [e \in Entity |-> "none"]
  /\ sub = [e \in Entity |-> None]
  /\ listens = [e \in Entity |-> FALSE]
  /\ roots = {}
  /\ content = [b \in Buffer |-> "empty"]
  /\ refcnt = [b \in Buffer |-> 0]
  /\ held = [b \in Buffer |-> 0]
  /\ lost = [b \in Buffer |-> 0]
  /\ calls = <<>>
  /\ loaded = TRUE
  /\ fault = FALSE

-----------------------------------------------------------------------------
Top == calls[Len(calls)]

ClientTurn ==
  /\ ~fault
  /\ calls # <<>> => Top.pc = "inside"

(* The innermost send() is at pc, in an entity of idea i.                  *)
At(pc, i) ==
  /\ ~fault
  /\ calls # <<>>
  /\ Top.pc = pc /\ idea[Top.ent] = i

(* The innermost send() moves on.                                          *)
Goto(ent, pc, reply) ==
  calls' = [calls EXCEPT ![Len(calls)] =
              [via |-> Top.via, ent |-> ent, buf |-> Top.buf,
               pc |-> pc, reply |-> reply]]

FreeEntity(e) == idea[e] = "none" /\ \A d \in DOMAIN calls : calls[d].ent # e
FreeBuffer(b) == refcnt[b] = 0

-----------------------------------------------------------------------------
(* The registry, and the clients' operations.                              *)

Register(i) ==
  /\ ClientTurn /\ loaded
  /\ ideas' = ideas \cup {i}
  /\ UNCHANGED <<idea, sub, listens, roots, bufferVars, calls, loaded, fault>>

(* nf7core_exec_entity_new() finds a registered idea;                      *)
(* nf7core_null_entity_new() needs none.                                   *)
Makeable(i) == i \in ideas \/ i = "null"

(* The client sets on_recv or leaves it.                                   *)
New(e, i, l) ==
  /\ ClientTurn /\ loaded
  /\ FreeEntity(e)
  /\ Makeable(i)
  /\ idea' = [idea EXCEPT ![e] = i]
  /\ sub' = [sub EXCEPT ![e] = None]
  /\ listens' = [listens EXCEPT ![e] = l]
  /\ roots' = roots \cup {e}
  /\ UNCHANGED <<ideas, bufferVars, calls, loaded, fault>>

(* What holds the sub-entity of each of its members.                       *)
Closed(S) == \A x \in S : sub[x] # None => sub[x] \in S

(* A careless variant: the sub-entity is not deleted.                      *)
BelowOnlySelf(e) == {e}

(* e and all that is below it: each one's del_() deletes its sub-entity.   *)
Below(e) ==
  {x \in Entity : \A S \in SUBSET Entity : e \in S /\ Closed(S) => x \in S}

(* The null idea's del_() finds the allocator through the exec module.     *)
NeedExec(S) == \E x \in S : idea[x] = "null"

Delete(e) ==
  /\ ClientTurn
  /\ e \in roots
  /\ idea' = [x \in Entity |-> IF x \in Below(e) THEN "none" ELSE idea[x]]
  /\ sub' = [x \in Entity |-> IF x \in Below(e) THEN None ELSE sub[x]]
  /\ roots' = roots \ {e}
  /\ listens' = [x \in Entity |-> listens[x] /\ x \notin Below(e)]
  /\ fault' = (~loaded /\ NeedExec(Below(e)))
  /\ UNCHANGED <<ideas, bufferVars, calls, loaded>>

(* A careless variant: the count stays.                                    *)
ReleasedNever(b) == refcnt

Released(b) == [refcnt EXCEPT ![b] = @ - 1]

(* A reference to b is released, and with the last one what b says.        *)
Release(b) ==
  /\ refcnt' = Released(b)
  /\ content' = IF refcnt[b] = 1 THEN [content EXCEPT ![b] = "empty"] ELSE content

NewBuffer(b, c) ==
  /\ ClientTurn
  /\ FreeBuffer(b)
  /\ content' = [content EXCEPT ![b] = c]
  /\ refcnt' = [refcnt EXCEPT ![b] = 1]
  /\ held' = [held EXCEPT ![b] = 1]
  /\ UNCHANGED <<entityVars, lost, calls, loaded, fault>>

RefBuffer(b) ==
  /\ ClientTurn
  /\ held[b] > 0 /\ refcnt[b] < MaxRefs
  /\ refcnt' = [refcnt EXCEPT ![b] = @ + 1]
  /\ held' = [held EXCEPT ![b] = @ + 1]
  /\ UNCHANGED <<entityVars, content, lost, calls, loaded, fault>>

UnrefBuffer(b) ==
  /\ ClientTurn
  /\ held[b] > 0
  /\ Release(b)
  /\ held' = [held EXCEPT ![b] = @ - 1]
  /\ UNCHANGED <<entityVars, lost, calls, loaded, fault>>

(* The reference goes with the buffer.  Nobody sends to an entity once     *)
(* modules are being unloaded.                                             *)
Send(e, b) ==
  /\ ClientTurn
  /\ e \in roots /\ held[b] > 0
  /\ loaded
  /\ Len(calls) < MaxDepth
  /\ held' = [held EXCEPT ![b] = @ - 1]
  /\ calls' = Append(calls, [via |-> e, ent |-> e, buf |-> b,
                             pc |-> "send", reply |-> "empty"])
  /\ UNCHANGED <<entityVars, content, refcnt, lost, loaded, fault>>

(* main() unloads exec first of all modules; what is left is deletion.     *)
UnloadExec ==
  /\ ~fault /\ calls = <<>> /\ loaded
  /\ loaded' = FALSE
  /\ ideas' = {}
  /\ UNCHANGED <<idea, sub, listens, roots, bufferVars, calls, fault>>

-----------------------------------------------------------------------------
(* send() of the idea any.                                                 *)

(* Careless variants: the sub-entity is not looked at.                     *)
PipesAlways == TRUE
PipesNever == FALSE

(* Whether the innermost call is in an entity in the PIPE state.           *)
Pipes == sub[Top.ent] # None

(* A careless variant: the buffer is sent to the entity itself.            *)
SubEntitySelf == Top.ent

SubEntity == sub[Top.ent]

(* A careless variant: the reply does not tell.                            *)
AnswerAlways(made) == "empty"

Answer(made) == IF made THEN "empty" ELSE "FAIL"

(* A careless variant: the buffer that named the idea is then piped.       *)
AfterReplyForwards == "send"

(* Having replied, send_() has yet to release the buffer.                  *)
AfterReply == "exit"

Forward ==
  /\ At("send", "any")
  /\ Pipes
  /\ Goto(SubEntity, "send", "empty")
  /\ UNCHANGED <<entityVars, bufferVars, loaded, fault>>

NamesNothing ==
  /\ At("send", "any")
  /\ ~Pipes
  /\ content[Top.buf] = "empty"
  /\ Goto(Top.ent, "exit", Top.reply)
  /\ UNCHANGED <<entityVars, bufferVars, loaded, fault>>

(* The sub-entity is made; nobody sets its on_recv.                        *)
Create(x) ==
  /\ At("send", "any")
  /\ ~Pipes
  /\ content[Top.buf] \in ideas
  /\ FreeEntity(x)
  /\ idea' = [idea EXCEPT ![x] = content[Top.buf]]
  /\ sub' = [sub EXCEPT ![x] = None, ![Top.ent] = x]
  /\ listens' = [listens EXCEPT ![x] = FALSE]
  /\ Goto(Top.ent, "reply", Answer(TRUE))
  /\ UNCHANGED <<ideas, roots, bufferVars, loaded, fault>>

(* No such idea, or no memory.                                             *)
CreateFails ==
  /\ At("send", "any")
  /\ ~Pipes
  /\ content[Top.buf] # "empty"
  /\ sub' = [sub EXCEPT ![Top.ent] = None]
  /\ Goto(Top.ent, "reply", Answer(FALSE))
  /\ UNCHANGED <<ideas, idea, listens, roots, bufferVars, loaded, fault>>

(* nf7core_exec_entity_recv(): on_recv is called with a new buffer that is *)
(* the client's from now on.                                               *)
Reply(b) ==
  /\ At("reply", "any")
  /\ listens[Top.ent]
  /\ FreeBuffer(b)
  /\ content' = [content EXCEPT ![b] = Top.reply]
  /\ refcnt' = [refcnt EXCEPT ![b] = 1]
  /\ held' = [held EXCEPT ![b] = 1]
  /\ Goto(Top.ent, "inside", Top.reply)
  /\ UNCHANGED <<entityVars, lost, loaded, fault>>

(* Nobody listens, so that the new buffer is released at once; or it could *)
(* not be allocated.                                                       *)
ReplyDropped ==
  /\ At("reply", "any")
  /\ Goto(Top.ent, "exit", Top.reply)
  /\ UNCHANGED <<entityVars, bufferVars, loaded, fault>>

(* The client's on_recv, in the d-th nested call, returns.                 *)
Return(d) ==
  /\ ~fault /\ calls # <<>> /\ Top.pc = "inside"
  /\ d = Len(calls)
  /\ Goto(Top.ent, AfterReply, Top.reply)
  /\ UNCHANGED <<entityVars, bufferVars, loaded, fault>>

(* The buffer is released, whoever deleted the entity meanwhile.           *)
Exit ==
  /\ ~fault /\ calls # <<>> /\ Top.pc = "exit"
  /\ Release(Top.buf)
  /\ calls' = Front(calls)
  /\ UNCHANGED <<entityVars, held, lost, loaded, fault>>

(* send() of the idea null does nothing at all: the reference is lost.     *)
NullSend ==
  /\ At("send", "null")
  /\ calls' = Front(calls)
  /\ lost' = [lost EXCEPT ![Top.buf] = @ + 1]
  /\ UNCHANGED <<entityVars, content, refcnt, held, loaded, fault>>

-----------------------------------------------------------------------------
Client ==
  \/ \E i \in Offered : Register(i)
  \/ \E e \in Entity, i \in Offered, l \in BOOLEAN : New(e, i, l)
  \/ \E e \in Entity : Delete(e)
  \/ \E b \in Buffer, c \in Content : NewBuffer(b, c)
  \/ \E b \in Buffer : RefBuffer(b) \/ UnrefBuffer(b)
  \/ \E e \in Entity, b \in Buffer : Send(e, b)
  \/ UnloadExec

Library ==
  \/ Forward \/ NamesNothing \/ CreateFails
  \/ \E x \in Entity : Create(x)
  \/ \E b \in Buffer : Reply(b)
  \/ ReplyDropped
  \/ Exit \/ NullSend

Next == Client \/ Library \/ \E d \in 1 .. MaxDepth : Return(d)

Spec == Init /\ [][Next]_vars

(* The calls are synchronous, and an on_recv returns after finitely many   *)
(* steps, however many calls of its own it makes.                          *)
Fairness ==
  /\ WF_vars(Library)
  /\ \A d \in 1 .. MaxDepth : SF_vars(Return(d))

FairSpec == Spec /\ Fairness

-----------------------------------------------------------------------------
(* Every variable has its type.                                            *)
TypeOK ==
  /\ ideas \subseteq Idea
  /\ idea \in [Entity -> Idea \cup {"none"}]
  /\ sub \in [Entity -> Entity \cup {None}]
  /\ listens \in [Entity -> BOOLEAN]
  /\ roots \subseteq Entity
  /\ content \in [Buffer -> Content]
  /\ refcnt \in [Buffer -> Int]
  /\ held \in [Buffer -> Nat]
  /\ lost \in [Buffer -> Nat]
  /\ calls \in Seq(Call)
  /\ loaded \in BOOLEAN
  /\ fault \in BOOLEAN

Handling(b) == {d \in DOMAIN calls : calls[d].buf = b}

(* A buffer has exactly the references of its clients, of the calls that   *)
(* are handling it and those a null entity swallowed, so that none is lost *)
(* otherwise and none freed under a call, however the callbacks nest.      *)
BuffersOwned ==
  \A b \in Buffer : refcnt[b] = held[b] + Cardinality(Handling(b)) + lost[b]

(* Every entity has exactly one owner, a client or the entity it is below, *)
(* and a freed entity neither has one nor is one: deleting a root deletes  *)
(* all there is below it, once, even from within a callback of its own.    *)
EntitiesOwned ==
  /\ \A e \in roots : idea[e] # "none"
  /\ \A x \in Entity : sub[x] # None =>
       /\ idea[x] # "none" /\ idea[sub[x]] # "none"
       /\ sub[x] \notin roots
       /\ \A y \in Entity : sub[y] = sub[x] => y = x
  /\ \A e \in Entity : idea[e] # "none" =>
       e \in roots \/ \E x \in Entity : sub[x] = e

(* No call reads an entity that a callback has deleted: between the two    *)
(* moments a callback may run, a call touches no entity any more.          *)
NoUseAfterFree ==
  \A d \in DOMAIN calls :
    calls[d].pc \in {"send", "reply"} => idea[calls[d].ent] # "none"

(* What makes these inductive: only the innermost call is running.         *)
OnlyTopRuns ==
  \A d \in DOMAIN calls : d < Len(calls) => calls[d].pc = "inside"

EntityInv == TypeOK /\ OnlyTopRuns /\ EntitiesOwned /\ NoUseAfterFree

BufferInv == EntityInv /\ BuffersOwned

(* What the client is told is true, also when it is called back in the     *)
(* middle of other calls: an empty reply is delivered by an entity that    *)
(* has its sub-entity, "FAIL" by one that has none.                        *)
RepliesAreTrue ==
  \A d \in DOMAIN calls :
    calls[d].pc = "reply" => (calls[d].reply = "empty" <=> sub[calls[d].ent] # None)

(* Once in the PIPE state, an entity keeps its sub-entity until it is      *)
(* deleted.                                                                *)
PipeIsFinal ==
  [][\A e \in Entity :
       sub[e] # None /\ idea'[e] # "none" => sub'[e] = sub[e]]_vars

(* In the PIPE state buffers "from the sub-entity is to the client"        *)
(* (core/any/mod.h): when the client of the entity it called listens, what *)
(* an entity below it replies is not dropped.                              *)
PipeReplies ==
  \A d \in DOMAIN calls :
    calls[d].pc = "reply" /\ listens[calls[d].via] => listens[calls[d].ent]

(* Every send() returns, however long the chain of entities it is passed   *)
(* down: the chain never closes on itself.                                 *)
CallsReturn ==
  \A d \in 1 .. MaxDepth : (Len(calls) >= d) ~> (Len(calls) < d)
=============================================================================
