------------------------------- MODULE MCRules -------------------------------
(* Two rule services, one of them the adapter of the evaluator, and two checks. *)
EXTENDS RuleProperties, TLC

CONSTANTS s1, eval, k1, k2, r1, r2

MCService == {s1, eval}
MCCheck == {k1, k2}
MCRule == {r1, r2}
MCGlobal == {r1}

\* A transition whose event is an object with a rule of its own, and one in the short form.
MCSubject ==
  (k1 :> [kind |-> "transition", shape |-> "object", when |-> {r2}]) @@
  (k2 :> [kind |-> "transition", shape |-> "string", when |-> {}])
=============================================================================
