------------------------------ MODULE RuleProofs ------------------------------
(***************************************************************************)
(* For any rule services, checks and rules: a verdict is backed by the     *)
(* answers, an accepted transition keeps the rules the evaluator was given,*)
(* and the checks implement what the protocols take them for.              *)
(***************************************************************************)
EXTENDS RuleProperties, TLAPS

\* The evaluator never says that a transition is valid that breaks its rules.
EvaluatorIsRight ==
  \A k \in Check : answer[k][Evaluator] = "valid" => EvaluatorAnswer(k) = "valid"

RuleInv == TypeOK /\ AnswersDecide /\ EvaluatorIsRight

\* Appending to the registry keeps its type (AppendToRegistry).
LEMMA AppendType ==
  ASSUME TypeOK, NEW s \in Service, NEW type \in {"register", "unregister"},
         AppendToRegistry(type, s)
  PROVE  /\ registry' \in Seq(RegistryEvent) /\ Len(registry') <= MaxEvents
         /\ projected \in 0 .. Len(registry')
<1>1. [type |-> type, service |-> s] \in RegistryEvent
  BY DEF RegistryEvent
<1>2. Len(registry') = Len(registry) + 1 /\ registry' \in Seq(RegistryEvent)
  BY <1>1 DEF AppendToRegistry, TypeOK
<1> QED
  BY <1>2, RuleServicesAssumption DEF AppendToRegistry, TypeOK, RuleServicesAssumption

\* The listed services are services (getAllRegisteredRuleServices).
LEMMA ListedType == Listed \subseteq Service
BY DEF Listed, ServicesAfter

\* Every step keeps the types and the connection between answers and verdicts.
LEMMA RuleStep == RuleInv /\ [Next]_vars => RuleInv'
<1> SUFFICES ASSUME RuleInv, [Next]_vars PROVE RuleInv'
  OBVIOUS
<1> USE DEF RuleInv
<1>1. CASE UNCHANGED vars
  BY <1>1 DEF vars, TypeOK, AnswersDecide, EvaluatorIsRight, EvaluatorAnswer, Errors, RulesOf
<1>2. ASSUME NEW s \in Service, RegisterRuleService(s) \/ UnregisterRuleService(s)
      PROVE  RuleInv'
  <2>1. UNCHANGED <<projected, verdict, asked, answer, holds, restarts>>
    BY <1>2 DEF RegisterRuleService, UnregisterRuleService
  <2>2. /\ registry' \in Seq(RegistryEvent) /\ Len(registry') <= MaxEvents
        /\ projected \in 0 .. Len(registry')
    BY <1>2, AppendType DEF RegisterRuleService, UnregisterRuleService
  <2> QED
    BY <2>1, <2>2 DEF TypeOK, AnswersDecide, EvaluatorIsRight, EvaluatorAnswer, Errors, RulesOf
<1>3. CASE Project
  BY <1>3 DEF Project, TypeOK, AnswersDecide, EvaluatorIsRight, EvaluatorAnswer, Errors, RulesOf
<1>4. ASSUME NEW k \in Check, Begin(k) PROVE RuleInv'
  <2>1. TypeOK'
    BY <1>4, ListedType DEF Begin, TypeOK
  <2>2. AnswersDecide'
    BY <1>4 DEF Begin, TypeOK, AnswersDecide
  <2>3. EvaluatorIsRight'
    BY <1>4 DEF Begin, EvaluatorIsRight, EvaluatorAnswer, Errors, RulesOf
  <2> QED
    BY <2>1, <2>2, <2>3
<1>5. ASSUME NEW k \in Check, Decide(k) PROVE RuleInv'
  <2>1. TypeOK'
    BY <1>5 DEF Decide, TypeOK
  <2>2. AnswersDecide'
    <3>1. \A s \in asked[k] : s \in Service /\ answer[k][s] \in {"valid", "invalid", "silent"}
      BY <1>5 DEF Decide, TypeOK, Answer
    <3> QED
      BY <1>5, <3>1 DEF Decide, TypeOK, AnswersDecide, AllApprove
  <2>3. EvaluatorIsRight'
    BY <1>5 DEF Decide, EvaluatorIsRight, EvaluatorAnswer, Errors, RulesOf
  <2> QED
    BY <2>1, <2>2, <2>3
<1>6. ASSUME NEW k \in Check, NEW s \in Service, Answers(k, s) PROVE RuleInv'
  <2>1. PICK a \in {"valid", "invalid", "silent"} :
          /\ s = Evaluator /\ a = "valid" => EvaluatorAnswer(k) = "valid"
          /\ answer' = [answer EXCEPT ![k][s] = a]
    BY <1>6 DEF Answers
  <2>2. TypeOK'
    BY <1>6, <2>1 DEF Answers, TypeOK, Answer
  <2>3. AnswersDecide'
    BY <1>6, <2>1 DEF Answers, TypeOK, AnswersDecide
  <2>4. EvaluatorIsRight'
    <3> SUFFICES ASSUME NEW j \in Check, answer'[j][Evaluator] = "valid"
                 PROVE  EvaluatorAnswer(j)
                          = "valid"
      BY <1>6 DEF Answers, EvaluatorIsRight, EvaluatorAnswer, Errors, RulesOf
    <3>1. CASE j = k /\ s = Evaluator
      BY <2>1, <3>1 DEF TypeOK
    <3>2. CASE ~(j = k /\ s = Evaluator)
      BY <2>1, <3>2 DEF TypeOK, EvaluatorIsRight
    <3> QED
      BY <3>1, <3>2
  <2> QED
    BY <2>2, <2>3, <2>4
<1>7. CASE Restart
  <2>1. TypeOK'
    BY <1>7, RuleServicesAssumption DEF Restart, TypeOK, CheckAfterRestart, RuleServicesAssumption
  <2>2. AnswersDecide'
    BY <1>7 DEF Restart, CheckAfterRestart, AnswersDecide
  <2>3. EvaluatorIsRight'
    BY <1>7 DEF Restart, EvaluatorIsRight, EvaluatorAnswer, Errors, RulesOf
  <2> QED
    BY <2>1, <2>2, <2>3
<1> QED
  BY <1>1, <1>2, <1>3, <1>4, <1>5, <1>6, <1>7 DEF Next

\* The invariant holds throughout.
LEMMA RuleCorrect == Spec => []RuleInv
<1>1. Init => RuleInv
  BY RuleServicesAssumption DEF Init, RuleInv, TypeOK, RegistryEvent, Answer, AnswersDecide,
     EvaluatorIsRight, RuleServicesAssumption
<1> QED
  BY <1>1, RuleStep, PTL DEF Spec

\* The variables of the rule services always have their types.
THEOREM RuleTypes == Spec => []TypeOK
<1>1. RuleInv => TypeOK
  BY DEF RuleInv
<1> QED
  BY <1>1, RuleCorrect, PTL

\* Accepted means that every service asked has approved, rejected that one has not
\* (validateWorkflowProposal, validateWorkflowInstance, validateInstanceTransition); what the
\* evaluator approved keeps the rules of its event and of the workflow (getRules,
\* FeelRuleEvaluator.evaluate).
THEOREM VerdictsJustified == Spec => []VerdictsAreJustified
<1>1. RuleInv => VerdictsAreJustified
  BY DEF RuleInv, VerdictsAreJustified, AnswersDecide, AcceptedTransitionsKeepRules,
         EvaluatorIsRight, EvaluatorAnswer, Errors, RulesOf
<1> QED
  BY <1>1, RuleCorrect, PTL

\* Checks implement RuleCheck: decided once, for good, and lost with the node
\* (the handlers of RulesService.onModuleInit).
THEOREM ChecksImplemented == Spec => ImplementsRuleCheck
<1>1. Init => Promise!Init
  BY DEF Init, Promise!Init
<1>2. TypeOK /\ [Next]_vars => [Promise!Next]_verdict
  <2> SUFFICES ASSUME TypeOK, Next PROVE [Promise!Next]_verdict
    BY DEF vars
  <2>1. ASSUME NEW s \in Service, RegisterRuleService(s) \/ UnregisterRuleService(s)
        PROVE  UNCHANGED verdict
    BY <2>1 DEF RegisterRuleService, UnregisterRuleService
  <2>2. CASE Project
    BY <2>2 DEF Project
  <2>3. ASSUME NEW k \in Check, Begin(k) PROVE Promise!Next
    <3>1. CASE Listed = {}
      BY <2>3, <3>1 DEF Begin, Promise!Next, Promise!Decide, Promise!Verdict
    <3>2. CASE Listed # {}
      BY <2>3, <3>2 DEF Begin, Promise!Next, Promise!Begin
    <3> QED
      BY <3>1, <3>2
  <2>4. ASSUME NEW k \in Check, Decide(k) PROVE Promise!Next
    <3>1. CASE AllApprove(k)
      BY <2>4, <3>1 DEF Decide, Promise!Next, Promise!Decide, Promise!Verdict
    <3>2. CASE ~AllApprove(k)
      BY <2>4, <3>2 DEF Decide, Promise!Next, Promise!Decide, Promise!Verdict
    <3> QED
      BY <3>1, <3>2
  <2>5. ASSUME NEW k \in Check, NEW s \in Service, Answers(k, s) PROVE UNCHANGED verdict
    BY <2>5 DEF Answers
  <2>6. CASE Restart
    BY <2>6 DEF Restart, CheckAfterRestart, Promise!Next, Promise!Stop
  <2> QED
    BY <2>1, <2>2, <2>3, <2>4, <2>5, <2>6 DEF Next
<1>3. RuleInv => TypeOK
  BY DEF RuleInv
<1> QED
  BY <1>1, <1>2, <1>3, RuleCorrect, PTL DEF Spec, ImplementsRuleCheck, Promise!Spec
=============================================================================
