------------------------------ MODULE Observer ------------------------------
(***************************************************************************)
(* The observer pattern that util/signal.h promises, with none of its      *)
(* machinery: no slots, no holes, no flag.  Every signal keeps the         *)
(* receivers subscribed to it in the order they subscribed.  An emission   *)
(* is a round that owes a call to each of them, oldest subscription first: *)
(* a receiver that leaves is owed nothing any more, one that joins while   *)
(* the round runs is owed a call of its own, and the round may end only    *)
(* when it owes nothing.  Rounds nest, because a receiver may emit.        *)
(***************************************************************************)
EXTENDS Naturals, Sequences, SequencesExt, Sieve

CONSTANTS Signal, Recv

VARIABLES
  subs,    \* subs[s]: the receivers subscribed to s, oldest first
  rounds   \* the emissions in progress, the innermost last

vars == <<subs, rounds>>

Round == [sig : Signal, owed : Seq(Recv)]

TypeOK ==
  /\ subs \in [Signal -> Seq(Recv)]
  /\ rounds \in Seq(Round)

Init ==
  /\ subs = [s \in Signal |-> <<>>]
  /\ rounds = <<>>

-----------------------------------------------------------------------------

(* A receiver that leaves is taken out of the subscriptions and of what    *)
(* rounds owe; one that joins s leaves first, and is then the youngest.    *)
Moved(q, r, joins) == IF joins THEN Append(Without(q, r), r) ELSE Without(q, r)

(* A subscription ends any earlier one of the same receiver.               *)
Subscribe(r, s) ==
  /\ subs' = [t \in Signal |-> Moved(subs[t], r, t = s)]
  /\ rounds' = [d \in DOMAIN rounds |->
                  [sig |-> rounds[d].sig,
                   owed |-> Moved(rounds[d].owed, r, rounds[d].sig = s)]]

Unsubscribe(r) ==
  /\ subs' = [t \in Signal |-> Without(subs[t], r)]
  /\ rounds' = [d \in DOMAIN rounds |->
                  [sig |-> rounds[d].sig, owed |-> Without(rounds[d].owed, r)]]

(* The signal goes away, and with it everything it owes.                   *)
Dissolve(s) ==
  /\ subs' = [subs EXCEPT ![s] = <<>>]
  /\ rounds' = [d \in DOMAIN rounds |->
                  [sig |-> rounds[d].sig,
                   owed |-> IF rounds[d].sig = s THEN <<>> ELSE rounds[d].owed]]

Begin(s) ==
  /\ rounds' = Append(rounds, [sig |-> s, owed |-> subs[s]])
  /\ UNCHANGED subs

Deliver ==
  /\ rounds # <<>>
  /\ Last(rounds).owed # <<>>
  /\ rounds' = Append(Front(rounds),
                      [sig |-> Last(rounds).sig, owed |-> Tail(Last(rounds).owed)])
  /\ UNCHANGED subs

Finish ==
  /\ rounds # <<>>
  /\ Last(rounds).owed = <<>>
  /\ rounds' = Front(rounds)
  /\ UNCHANGED subs

Next ==
  \/ \E r \in Recv, s \in Signal : Subscribe(r, s)
  \/ \E r \in Recv : Unsubscribe(r)
  \/ \E s \in Signal : Dissolve(s) \/ Begin(s)
  \/ Deliver
  \/ Finish

Spec == Init /\ [][Next]_vars
=============================================================================
