---------------------------- MODULE MCSwapRunner ----------------------------
(* A swap whose deadlines lie as close together as the rules allow. *)
EXTENDS SwapRunner

MCPolicy == [minRevealWindowMs |-> 2, finalityAMs |-> 1, flopMarginPercent |-> 0,
             flopMaxFinalityStallBlocks |-> 1, flopFinalityLagBlocks |-> 0, flopBlockMs |-> 1]

MCOffersA == {[expiresMs |-> 2, claimByMs |-> 2, refundAfterMs |-> 3]}
MCOffersB == {[expiresMs |-> 2, claimByMs |-> 4, refundAfterMs |-> 5]}

=============================================================================
