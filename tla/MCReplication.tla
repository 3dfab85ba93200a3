---------------------------- MODULE MCReplication ----------------------------
(***************************************************************************)
(* Two participants write to the database of an originator: the first two  *)
(* messages, the second one.                                               *)
(***************************************************************************)
EXTENDS ReplicationProperties

CONSTANTS originator, first, second, first1, first2, second1

MCSender == [e \in Entry |-> IF e = second1 THEN second ELSE first]
=============================================================================
