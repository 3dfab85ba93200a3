------------------------------- MODULE MCEvm -------------------------------
(* Three nodes, two of which send a message each. *)
EXTENDS EvmProperties, TLC

CONSTANTS a, b, c, m1, m2

MCNode == {a, b, c}
MCMessage == {m1, m2}
MCSenderOf == (m1 :> a) @@ (m2 :> b)
=============================================================================
