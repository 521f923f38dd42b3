----------------------------- MODULE MCSessions ------------------------------
(* Sessions on small sets, for TLC. *)
EXTENDS Sessions, TLC

CONSTANTS c1, c2, c3, s1, s2

MCClient == {c1, c2, c3}
MCStore == {s1, s2}

\* c1 and c2 share a session store, c3 has one of its own.
MixedStores == c1 :> s1 @@ c2 :> s1 @@ c3 :> s2
==============================================================================
