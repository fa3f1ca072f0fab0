---------------------------- MODULE MCChatHandler ----------------------------
(* Small instances of ChatHandler for TLC.                                 *)
EXTENDS ChatHandler, TLC

\* Clients and ids are interchangeable: no definition tells them apart.
Symmetry == Permutations(Clients) \cup Permutations(Ids)

=============================================================================
