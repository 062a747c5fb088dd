------------------------------ MODULE MCSignal -------------------------------
(***************************************************************************)
(* Signal for TLC: the constants are model values given by the .cfg files. *)
(***************************************************************************)
EXTENDS Signal, TLC

(* Without, which the provers can expand, is what SequencesExt calls       *)
(* Remove.                                                                 *)
ASSUME WithoutIsRemove ==
  \A n \in 0 .. 4 : \A q \in [1 .. n -> Slot] : \A e \in Slot :
     Without(q, e) = Remove(q, e)

(* Receivers and signals are interchangeable; used by safety runs only.    *)
Symmetry == Permutations(Recv) \cup Permutations(Signal)
=============================================================================
