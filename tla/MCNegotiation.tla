---------------------------- MODULE MCNegotiation ----------------------------
(***************************************************************************)
(* Two nodes, one workflow and one instance of it.                         *)
(***************************************************************************)
EXTENDS NegotiationProperties

CONSTANTS n1, n2, order, purchase

Both == {order, purchase}
ProposedByFirst == [s \in Proposal |-> n1]
MCParent == [s \in Proposal |-> IF s = order THEN NoParent ELSE order]
MCState == {NoState}
=============================================================================
