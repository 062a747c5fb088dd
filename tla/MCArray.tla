-------------------------------- MODULE MCArray --------------------------------
(* Array for TLC: words of four bits and blocks of at most six bytes, that *)
(* is of three elements of the array; the lengths asked for are none, one, *)
(* two, and one that is beyond any block and any index.                    *)
EXTENDS Array

CONSTANTS a1, b1, b2, x, y, zero, junk

AskedFor == {0, 1, 2, Word - 1}

Symmetry == Permutations({x, y}) \cup Permutations({b1, b2})
=============================================================================
