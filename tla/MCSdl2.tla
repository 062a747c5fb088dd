-------------------------------- MODULE MCSdl2 --------------------------------
(* Sdl2 for TLC: windows are interchangeable, and so are ids, where only   *)
(* safety is checked.                                                      *)
EXTENDS Sdl2, TLC

Symmetry == Permutations(Win) \cup Permutations(WinId)
=============================================================================
