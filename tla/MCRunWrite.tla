----------------------------- MODULE MCRunWrite -----------------------------
(* Small instances of RunWrite for TLC: threads and operation ids are      *)
(* interchangeable, so runs that check invariants identify states up to    *)
(* renaming.                                                               *)
EXTENDS RunWriteImplements, TLC

MCSymmetry == Permutations(Ops) \cup Permutations(Reqs)
=============================================================================
