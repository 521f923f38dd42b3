------------------------------ MODULE MCCommand ------------------------------
(* Command on small sets, for TLC. *)
EXTENDS Command
==============================================================================
