------------------------------ MODULE MCClient -------------------------------
(* Client on small sets, for TLC. *)
EXTENDS Client
==============================================================================
