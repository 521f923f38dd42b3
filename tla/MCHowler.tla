------------------------------ MODULE MCHowler -------------------------------
(* Howler on small sets, for TLC. *)
EXTENDS Howler, TLC

\* Sockets, and the tags of calls, are interchangeable: sound for safety.
HowlerSymmetry == Permutations(Socket) \cup Permutations(Call) \cup Permutations(DB)
==============================================================================
