---------------------------- MODULE MCConnections ----------------------------
(* Instances of ConnectionManager: messages are model values, sent in any order. *)
EXTENDS ConnectionProperties
=============================================================================
