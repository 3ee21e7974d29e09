----------------------------- MODULE MCRecorder -----------------------------
(* The instance of Recorder for TLC. *)
EXTENDS Recorder, TLC

CONSTANTS s1, s2

TwoThenOne == <<2, 1>>

SaveSymmetry == Permutations({s1, s2})
=============================================================================
