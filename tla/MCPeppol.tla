------------------------------- MODULE MCPeppol -------------------------------
(***************************************************************************)
(* The two workflows of ttsm/examples/peppol-ordering: a buyer orders, the *)
(* seller launches an instance for the order, and later sends its answer   *)
(* to the buyer's instance.                                                *)
(***************************************************************************)
EXTENDS TransitionTurns, TLC

CONSTANTS buyer, seller

Local(a)    == [target |-> a, trigger |-> "local", assigns |-> FALSE]
Incoming(a) == [target |-> a, trigger |-> "external", assigns |-> FALSE]
Remember(a) == [target |-> a, trigger |-> "external", assigns |-> TRUE]
Short(a)    == [target |-> a, trigger |-> "any", assigns |-> FALSE]

MCWorkflow == {"Buyer", "Seller"}
MCOrganization == {"BuyerOrg", "SellerOrg"}
MCOrganizationOf == "Buyer" :> "BuyerOrg" @@ "Seller" :> "SellerOrg"
MCInstance == {buyer, seller}
MCWorkflowOf == buyer :> "Buyer" @@ seller :> "Seller"

BuyerOn ==
  "PREPARE_ORDER" :> ("LOCAL_ORDER" :> Local("SUBMIT_ORDER")) @@
  "SUBMIT_ORDER" :> ("" :> Short("RECEIVE_ORDER_RESPONSE")) @@
  "RECEIVE_ORDER_RESPONSE" :> ("ORDER_RESPONSE" :> Incoming("UPDATE_ORDER_STATUS")) @@
  "UPDATE_ORDER_STATUS" :> ("STATUS_UPDATED" :> Short("ORDER_STATUS_UPDATED")) @@
  "ORDER_STATUS_UPDATED" :> <<>>

SellerOn ==
  "RECEIVE_AND_HANDLE_ORDER" :> ("ORDER" :> Remember("HANDLE_ORDER_GATEWAY")) @@
  "HANDLE_ORDER_GATEWAY" :>
    ("YES" :> Short("GENERATE_HEADER_LEVEL_ACK") @@ "NO" :> Short("GENERATE_HEADER_LEVEL_NACK")
     @@ "PARTIALLY" :> Short("GENERATE_LINE_LEVEL_ACK")) @@
  "GENERATE_HEADER_LEVEL_ACK" :> ("SUBMIT_WORKER_ORDER_RESPONSE" :> Local("SEND_ORDER_RESPONSE")) @@
  "GENERATE_HEADER_LEVEL_NACK" :> ("SUBMIT_WORKER_ORDER_RESPONSE" :> Local("SEND_ORDER_RESPONSE")) @@
  "GENERATE_LINE_LEVEL_ACK" :> ("SUBMIT_WORKER_ORDER_RESPONSE" :> Local("SEND_ORDER_RESPONSE")) @@
  "SEND_ORDER_RESPONSE" :> ("" :> Short("ORDER_RECEIVED")) @@
  "ORDER_RECEIVED" :> <<>>

MCActivity == DOMAIN BuyerOn \union DOMAIN SellerOn
MCEvent == {"", "LOCAL_ORDER", "ORDER_RESPONSE", "STATUS_UPDATED", "ORDER", "YES", "NO",
            "PARTIALLY", "SUBMIT_WORKER_ORDER_RESPONSE"}
MCParticipant == {"seller_organization", "buyer_organization"}

Total(f) == [a \in MCActivity |-> IF a \in DOMAIN f THEN f[a] ELSE <<>>]
MCOn == "Buyer" :> Total(BuyerOn) @@ "Seller" :> Total(SellerOn)
MCInitial == "Buyer" :> "PREPARE_ORDER" @@ "Seller" :> "RECEIVE_AND_HANDLE_ORDER"
MCExternal == "Buyer" :> {"SUBMIT_ORDER"} @@ "Seller" :> {"SEND_ORDER_RESPONSE"}
MCExternalParticipants ==
  "Buyer" :> [a \in MCActivity |-> IF a = "SUBMIT_ORDER" THEN {"seller_organization"} ELSE {}] @@
  "Seller" :> [a \in MCActivity |->
                 IF a = "SEND_ORDER_RESPONSE" THEN {"buyer_organization"} ELSE {}]
MCExternalCondition == [w \in MCWorkflow |-> [a \in MCActivity |-> NoCondition]]
MCAssignsOnAcceptance == "Buyer" :> {"seller_organization"} @@ "Seller" :> {}
MCRecipient ==
  "Buyer" :> ("seller_organization" :>
                [workflow |-> "Seller", event |-> "ORDER", launches |-> TRUE]) @@
  "Seller" :> ("buyer_organization" :>
                [workflow |-> "Buyer", event |-> "ORDER_RESPONSE", launches |-> FALSE])

\* The gateway's three answers lead to look-alike activities: one of them suffices.
\* Clients also try what only the seller may fire.
MCClientEvent ==
  {"LOCAL_ORDER", "YES", "SUBMIT_WORKER_ORDER_RESPONSE", "STATUS_UPDATED", "ORDER_RESPONSE"}
MCFallibleEvent == {"ORDER_RESPONSE"}
MCClientInstance == {buyer}

\* Buyer and seller take turns.
ASSUME PeppolTakesTurns == TakesTurns
=============================================================================
