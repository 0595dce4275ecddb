---------------------------- MODULE MCFlowStore ----------------------------
(* Two processes with a flow each. *)
EXTENDS FlowStore, TLC

CONSTANTS f1, f2, p1, p2

MCPidOf == (f1 :> p1) @@ (f2 :> p2)

=============================================================================
