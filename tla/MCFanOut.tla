------------------------------- MODULE MCFanOut -------------------------------
(***************************************************************************)
(* One requester asks two participants at the same time.  Each message     *)
(* launches an instance of the supplier's workflow.  `externalCondition`   *)
(* is chosen by the configuration.                                         *)
(***************************************************************************)
EXTENDS TransitionInvariants, TLC

CONSTANTS requester, suppliers, p1, p2

Simple(a, t) == [target |-> a, trigger |-> t, assigns |-> FALSE]
Nothing == [e \in {} |-> Simple("DRAFT", "any")]

MCWorkflow == {"Requester", "Supplier"}
MCOrganization == {"RequesterOrg", "SupplierOrg"}
MCOrganizationOf == "Requester" :> "RequesterOrg" @@ "Supplier" :> "SupplierOrg"
MCInstance == {requester} \union suppliers
MCWorkflowOf == [i \in MCInstance |-> IF i = requester THEN "Requester" ELSE "Supplier"]
MCParticipant == {p1, p2}
MCActivity == {"DRAFT", "ASK", "DECIDED", "WAIT", "WORK"}
MCEvent == {"", "SUBMIT", "REQUEST"}

RequesterOn ==
  [a \in MCActivity |->
     CASE a = "DRAFT" -> "SUBMIT" :> Simple("ASK", "local")
       [] a = "ASK"   -> "" :> Simple("DECIDED", "any")
       [] OTHER       -> Nothing]
SupplierOn ==
  [a \in MCActivity |-> IF a = "WAIT" THEN "REQUEST" :> Simple("WORK", "external") ELSE Nothing]
MCOn == "Requester" :> RequesterOn @@ "Supplier" :> SupplierOn

MCInitial == "Requester" :> "DRAFT" @@ "Supplier" :> "WAIT"
MCExternal == "Requester" :> {"ASK"} @@ "Supplier" :> {}
MCExternalParticipants ==
  [w \in MCWorkflow |-> [a \in MCActivity |->
     IF w = "Requester" /\ a = "ASK" THEN MCParticipant ELSE {}]]
MCAssignsOnAcceptance == [w \in MCWorkflow |-> {}]
MCRecipient ==
  "Requester" :> [p \in MCParticipant |->
                    [workflow |-> "Supplier", event |-> "REQUEST", launches |-> TRUE]] @@
  "Supplier" :> [p \in {} |-> [workflow |-> "Supplier", event |-> "REQUEST", launches |-> TRUE]]
MCClientInstance == {requester}

\* No condition; a number of acceptances that is just reached; one that is reached by
\* the first acceptance and would be exceeded by a second.
AllMustAccept == [w \in MCWorkflow |-> [a \in MCActivity |-> NoCondition]]
TwoMustAccept ==
  [w \in MCWorkflow |-> [a \in MCActivity |-> [allOf |-> {}, anyOf |-> {}, min |-> 2, max |-> 2]]]
OneSuffices ==
  [w \in MCWorkflow |-> [a \in MCActivity |->
     [allOf |-> {}, anyOf |-> MCParticipant, min |-> 1, max |-> 1]]]

\* Suppliers' instances, clients and, under the three conditions above, participants
\* are alike.
Symmetry == Permutations(suppliers) \union Permutations(Client) \union Permutations({p1, p2})
=============================================================================
