------------------------------ MODULE MCServer -------------------------------
(* Server on small sets, for TLC. *)
EXTENDS Server, TLC

\* Sockets, and databases, are interchangeable: sound for safety properties.
Symmetry == Permutations(Socket) \cup Permutations(DB)
==============================================================================
