-------------------------------- MODULE Sieve --------------------------------
(***************************************************************************)
(* Sequences with an element left out.  It is the community modules'       *)
(* Remove, written as a recursive function, which the provers can expand.  *)
(***************************************************************************)
EXTENDS Naturals, Sequences

(* q without its elements that are e.                                      *)
Without(q, e) ==
  LET kept[i \in 0 .. Len(q)] ==
        IF i = 0 THEN <<>>
        ELSE IF q[i] = e THEN kept[i - 1] ELSE Append(kept[i - 1], q[i])
  IN  kept[Len(q)]
=============================================================================
