--------------------------- MODULE MCStreamSession ---------------------------
(* Instances of StreamSession for TLC; readers are interchangeable, and so *)
(* are writers.                                                            *)
EXTENDS StreamSession, TLC

Symmetry == Permutations(Readers) \cup Permutations(Writers)
=============================================================================
