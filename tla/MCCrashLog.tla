---------------------------- MODULE MCCrashLog ----------------------------
(* Small instances of CrashLog for TLC. *)
EXTENDS CrashLog, TLC

Symmetry == Permutations(Contents)
=============================================================================
