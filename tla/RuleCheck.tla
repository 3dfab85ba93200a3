------------------------------ MODULE RuleCheck ------------------------------
(***************************************************************************)
(* What the protocols rely on when they ask the rule services: a check is  *)
(* decided at most once, the decision stands, and a check that the node    *)
(* did not finish before it stopped is never decided.                      *)
(***************************************************************************)
CONSTANT Check

VARIABLE verdict

Verdict == {"none", "checking", "accepted", "rejected", "lost"}

TypeOK == verdict \in [Check -> Verdict]

Init == verdict = [k \in Check |-> "none"]

Begin(k) ==
  /\ verdict[k] = "none"
  /\ verdict' = [verdict EXCEPT ![k] = "checking"]

\* Without rule services the decision is immediate.
Decide(k, v) ==
  /\ verdict[k] \in {"none", "checking"}
  /\ v \in {"accepted", "rejected"}
  /\ verdict' = [verdict EXCEPT ![k] = v]

Stop ==
  verdict' = [k \in Check |-> IF verdict[k] = "checking" THEN "lost" ELSE verdict[k]]

Next == Stop \/ \E k \in Check : Begin(k) \/ \E v \in Verdict : Decide(k, v)

Spec == Init /\ [][Next]_verdict
=============================================================================
