---------------------------- MODULE MCItemWrites ----------------------------
(* Model-checking definitions for ItemWrites.                              *)
EXTENDS ItemWrites, TLC

(* Operations are interchangeable.                                         *)
MCOpSymmetry == Permutations(Ops)
=============================================================================
