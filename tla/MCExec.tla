-------------------------------- MODULE MCExec --------------------------------
(* Exec for TLC: identities are interchangeable.                           *)
EXTENDS Exec, TLC

Symmetry == Permutations(Entity) \cup Permutations(Buffer)
=============================================================================
