---------------------------- MODULE RuleProperties ----------------------------
(* What a node expects of its rule services. *)
EXTENDS RuleServices

\* Services that are registered, whatever the projection knows.
Registered == ServicesAfter(Len(registry))

\* Nothing is accepted that a service it was sent to has not approved; nothing is
\* rejected that all of them approved (validate..., rules.service.ts:64-108).
AnswersDecide ==
  \A k \in Check :
    /\ verdict[k] = "accepted" => \A s \in asked[k] : answer[k][s] = "valid"
    /\ verdict[k] = "rejected" => \E s \in asked[k] : answer[k][s] \in {"invalid", "silent"}

\* A transition that was accepted with the evaluator among the services satisfies the
\* constraints of the workflow and of the event, if the event is defined by an object.
AcceptedTransitionsKeepRules ==
  \A k \in Check :
    /\ verdict[k] = "accepted" /\ Evaluator \in asked[k]
    /\ Subject[k].kind = "transition" /\ Subject[k].shape = "object"
    => GlobalConstraints \union Subject[k].when \subseteq holds[k]

\* A verdict follows from the answers, and the evaluator's answer from the rules, whatever
\* was registered or unregistered meanwhile and whichever services failed.
VerdictsAreJustified == AnswersDecide /\ AcceptedTransitionsKeepRules

\* Once nothing is registered or unregistered any more, checks ask exactly the
\* services that are registered (RULE_SERVICES_PROJECTION).
RegistryConverges == <>[](Listed = Registered)

\* A service took the request and has not answered it, as it may never.
WaitsInVain(k) == \E s \in asked[k] \intersect Hanging : answer[k][s] = "awaited"

\* Every check ends, with a verdict or with the node that made it: only a service that
\* never answers keeps it waiting (combineLatest without a timeout, rules.service.ts:57), not
\* one that fails.
EveryCheckEnds ==
  \A k \in Check : verdict[k] = "checking" ~> verdict[k] # "checking" \/ WaitsInVain(k)

\* The node's checks are what the protocols take them for (RuleCheck).
Promise == INSTANCE RuleCheck
ImplementsRuleCheck == Promise!Spec
=============================================================================
