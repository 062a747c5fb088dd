------------------------------- MODULE MCProgram -------------------------------
(* Program for TLC: two test cases that schedule a thread, one more than   *)
(* the repository has, so that either of them, the window test or the      *)
(* runner itself may be the last to release the runner.                    *)
EXTENDS Program

CONSTANTS s1, s2
=============================================================================
