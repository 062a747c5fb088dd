----------------------------- MODULE MCLuaThread -----------------------------
(* LuaThread for TLC: a module's main thread, two threads, one pointer.    *)
EXTENDS LuaThread, TLC

CONSTANTS m, a, b, p

Symmetry == Permutations({a, b})
=============================================================================
