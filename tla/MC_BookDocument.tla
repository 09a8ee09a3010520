-------------------------- MODULE MC_BookDocument --------------------------
(* Small instances of BookDocument.                                         *)
EXTENDS BookDocument, TLC

MCSymmetry ==
    Permutations(Staff) \cup Permutations(Chapters) \cup Permutations(Readers)
=============================================================================
