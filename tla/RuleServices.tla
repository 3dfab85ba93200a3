----------------------------- MODULE RuleServices -----------------------------
(***************************************************************************)
(* The rule services of one node: the registry, kept as events that an     *)
(* EventStore projection folds with a delay of its own, and the checks     *)
(* that RulesService makes with the services it finds there.  One of them  *)
(* may be the adapter of the FEEL rule evaluator.                          *)
(*                                                                         *)
(* The projection has a random name and is created at every start: after a *)
(* restart it begins with the first event again.  A check is triggered by  *)
(* one event of the log; several may be under way.                         *)
(***************************************************************************)
EXTENDS Naturals, Sequences, FiniteSets

CONSTANTS
  Service,            \* rule services; the identifier is new for each registration
  Evaluator,          \* the adapter of the FEEL rule evaluator
  Silent,             \* services that may be unreachable: the request fails
  Hanging,            \* services that may accept the request and never answer
  Check,              \* events to be checked
  Subject,            \* Subject[k]: what is checked
  Rule,               \* rules of the workflow model
  GlobalConstraints,  \* globalConstraints of the workflow model
  MaxEvents,          \* bound: registry events
  MaxRestart          \* bound: restarts

\* What a check is about.  For a state transition: how the event is defined in the
\* activity that was left, as an object, as the name of its target, or not at all (an
\* acknowledgement); and the rules of an object.
Kind == {"workflow", "instance", "transition"}
Shape == {"object", "string", "undefined"}

ASSUME RuleServicesAssumption ==
  /\ Evaluator \in Service /\ Silent \subseteq Service /\ Hanging \subseteq Service
  /\ Subject \in [Check -> [kind: Kind, shape: Shape, when: SUBSET Rule]]
  /\ GlobalConstraints \subseteq Rule
  /\ MaxEvents \in Nat /\ MaxRestart \in Nat

VARIABLES
  registry,   \* registerRuleService and unregisterRuleService events
  projected,  \* how many of them the projection has processed
  verdict,    \* verdict[k], as in RuleCheck
  asked,      \* asked[k]: the services a check was sent to
  answer,     \* answer[k][s]: what s said
  holds,      \* holds[k]: the rules that evaluate to true for what is checked
  restarts

vars == <<registry, projected, verdict, asked, answer, holds, restarts>>

RegistryEvent == [type: {"register", "unregister"}, service: Service]
Answer == {"awaited", "valid", "invalid", "silent"}

TypeOK ==
  /\ registry \in Seq(RegistryEvent) /\ Len(registry) <= MaxEvents
  /\ projected \in 0 .. Len(registry)
  /\ verdict \in [Check -> {"none", "checking", "accepted", "rejected", "lost"}]
  /\ asked \in [Check -> SUBSET Service]
  /\ answer \in [Check -> [Service -> Answer]]
  /\ holds \in [Check -> SUBSET Rule]
  /\ restarts \in 0 .. MaxRestart

Init ==
  /\ registry = <<>>
  /\ projected = 0
  /\ verdict = [k \in Check |-> "none"]
  /\ asked = [k \in Check |-> {}]
  /\ answer = [k \in Check |-> [s \in Service |-> "awaited"]]
  /\ holds \in [Check -> SUBSET Rule]
  /\ restarts = 0

-----------------------------------------------------------------------------
(* The registry *)

\* RULE_SERVICES_PROJECTION after n events.
ServicesAfter(n) ==
  {s \in Service :
     \E m \in 1 .. n :
       /\ registry[m] = [type |-> "register", service |-> s]
       /\ \A l \in m .. n : registry[l] # [type |-> "unregister", service |-> s]}

\* getAllRegisteredRuleServices
Listed == ServicesAfter(projected)

AppendToRegistry(type, s) ==
  /\ Len(registry) < MaxEvents
  /\ registry' = Append(registry, [type |-> type, service |-> s])

RegisterRuleService(s) ==
  /\ \A n \in 1 .. Len(registry) : registry[n].service # s
  /\ AppendToRegistry("register", s)
  /\ UNCHANGED <<projected, verdict, asked, answer, holds, restarts>>

\* A service that is not in the projection does not exist: 404.
UnregisterRuleService(s) ==
  /\ s \in Listed
  /\ AppendToRegistry("unregister", s)
  /\ UNCHANGED <<projected, verdict, asked, answer, holds, restarts>>

\* Mutated: the projection counts an event that is not there yet.
ProjectAhead ==
  /\ projected <= Len(registry)
  /\ projected' = projected + 1
  /\ UNCHANGED <<registry, verdict, asked, answer, holds, restarts>>

\* Mutated: the last event is left out.
ProjectAllButLast ==
  /\ projected < Len(registry) - 1
  /\ projected' = projected + 1
  /\ UNCHANGED <<registry, verdict, asked, answer, holds, restarts>>

\* EventStore runs the projection.
Project ==
  /\ projected < Len(registry)
  /\ projected' = projected + 1
  /\ UNCHANGED <<registry, verdict, asked, answer, holds, restarts>>

-----------------------------------------------------------------------------
(* A check *)

\* Reading the projection and sending the requests; nobody registered, nobody asked.
Begin(k) ==
  /\ verdict[k] = "none"
  /\ asked' = [asked EXCEPT ![k] = Listed]
  /\ verdict' = [verdict EXCEPT ![k] = IF Listed = {} THEN "accepted" ELSE "checking"]
  /\ UNCHANGED <<registry, projected, answer, holds, restarts>>

\* getRules: an event without an object has no rules, global constraints included.
RulesOf(k) ==
  IF Subject[k].shape = "object" THEN GlobalConstraints \union Subject[k].when ELSE {}

\* FeelRuleEvaluator.evaluate: a rule that fails, or whose value is not the Boolean
\* true, is an error.
Errors(k) == RulesOf(k) \ holds[k]

\* checkNewWorkflow, checkNewInstance, checkStateTransition
EvaluatorAnswer(k) ==
  IF Subject[k].kind = "transition" /\ Errors(k) # {} THEN "invalid" ELSE "valid"

\* The adapter also answers "invalid" when it cannot reach the evaluator.
Answers(k, s) ==
  /\ verdict[k] = "checking" /\ s \in asked[k] /\ answer[k][s] = "awaited"
  /\ \E a \in {"valid", "invalid", "silent"} :
       /\ a = "silent" => s \in Silent
       /\ s = Evaluator /\ a = "valid" => EvaluatorAnswer(k) = "valid"
       /\ s = Evaluator /\ a = "invalid" =>
            EvaluatorAnswer(k) = "invalid" \/ Subject[k].kind = "transition"
       /\ answer' = [answer EXCEPT ![k][s] = a]
  /\ UNCHANGED <<registry, projected, verdict, asked, holds, restarts>>

\* Mutated: an answer that is missing is not counted.
NobodyDenies(k) == \A s \in asked[k] : answer[k][s] # "invalid"

\* The responses that are not valid are the validation errors.
AllApprove(k) == \A s \in asked[k] : answer[k][s] = "valid"

\* Mutated: the failure of a request is not caught.
DecideIfAnswered(k) ==
  /\ verdict[k] = "checking"
  /\ \A s \in asked[k] : answer[k][s] \in {"valid", "invalid"}
  /\ verdict' = [verdict EXCEPT ![k] = IF AllApprove(k) THEN "accepted" ELSE "rejected"]
  /\ UNCHANGED <<registry, projected, asked, answer, holds, restarts>>

\* validate...: combineLatest waits for every answer; the verdict is appended.
Decide(k) ==
  /\ verdict[k] = "checking"
  /\ \A s \in asked[k] : answer[k][s] # "awaited"
  /\ verdict' = [verdict EXCEPT ![k] = IF AllApprove(k) THEN "accepted" ELSE "rejected"]
  /\ UNCHANGED <<registry, projected, asked, answer, holds, restarts>>

-----------------------------------------------------------------------------
\* Mutated: the events of the checks are read again.
CheckAgain(v) == IF v = "none" THEN v ELSE "checking"

\* A check under way is not taken up again.
CheckAfterRestart(v) == IF v = "checking" THEN "lost" ELSE v

\* onModuleInit: a new projection, no past events.
Restart ==
  /\ restarts < MaxRestart
  /\ restarts' = restarts + 1
  /\ projected' = 0
  /\ verdict' = [k \in Check |-> CheckAfterRestart(verdict[k])]
  /\ UNCHANGED <<registry, asked, answer, holds>>

Next ==
  \/ \E s \in Service : RegisterRuleService(s) \/ UnregisterRuleService(s)
  \/ Project
  \/ \E k \in Check : Begin(k) \/ Decide(k) \/ \E s \in Service : Answers(k, s)
  \/ Restart

Spec == Init /\ [][Next]_vars

\* The projection runs, services answer unless they may hang (no request has a
\* timeout), and what was awaited is continued.
FairSpec ==
  /\ Spec
  /\ WF_vars(Project)
  /\ \A k \in Check :
       /\ WF_vars(Decide(k))
       /\ \A s \in Service \ Hanging : WF_vars(Answers(k, s))
=============================================================================
