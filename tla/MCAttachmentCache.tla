-------------------------- MODULE MCAttachmentCache --------------------------
(* Model-checking definitions for AttachmentCache.                         *)
EXTENDS AttachmentCache, TLC

(* Exports are interchangeable.                                             *)
MCSymmetry == Permutations(Saves)
=============================================================================
