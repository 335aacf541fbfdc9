--------------------------- MODULE MCWhisperCache ---------------------------
(* Small instances of WhisperCache.  Models and callers are interchangeable, *)
(* so states that differ by renaming them are one.                           *)
EXTENDS WhisperCache, TLC

Symmetry == Permutations(Models) \cup Permutations(Requests)
CallerSymmetry == Permutations(Requests)
=============================================================================
