------------------------------ MODULE MCHistory ------------------------------
(***************************************************************************)
(* One workflow with one instance whose state machine has three states.    *)
(***************************************************************************)
EXTENDS HistoryProperties

MCState == {"created", "working", "done"}
MCTarget == [s \in MCState |-> CASE s = "created" -> {"working"}
                                 [] s = "working" -> {"working", "done"}
                                 [] OTHER -> {}]
MCWorkflowOf == [i \in Instance |-> CHOOSE w \in Workflow : TRUE]
MCInitial == "created"

\* The default of environment.ts, the noop strategy on either persistence.
MCEnvironment ==
  {[persistence |-> "OrbitDB", consistency |-> "orbitdb"],
   [persistence |-> "OrbitDB", consistency |-> "noop"],
   [persistence |-> "EventStore", consistency |-> "noop"]}
=============================================================================
