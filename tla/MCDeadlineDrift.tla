-------------------------- MODULE MCDeadlineDrift --------------------------
(* Deadlines up to 12, blocks of up to three time units. *)
EXTENDS DeadlineDrift

MCLegs == {[expiresMs |-> 1, claimByMs |-> c, refundAfterMs |-> r] : c \in {1, 6, 11}, r \in 1..12}
MCPolicies == [minRevealWindowMs : {0, 1}, finalityAMs : {0, 1}, flopMarginPercent : {0, 50},
               flopMaxFinalityStallBlocks : {0, 2}, flopFinalityLagBlocks : {0, 1},
               flopBlockMs : 1..3]

=============================================================================
