------------------------------- MODULE MCSwap -------------------------------
(* One bid, a leg B that the deadline rules accept and two they refuse. *)
EXTENDS Swap

MCPolicy == [minRevealWindowMs |-> 2, finalityAMs |-> 1, flopMarginPercent |-> 0,
             flopMaxFinalityStallBlocks |-> 1, flopFinalityLagBlocks |-> 0, flopBlockMs |-> 1]

MCOffersA == {[expiresMs |-> 2, claimByMs |-> 3, refundAfterMs |-> 4]}
MCOffersB == {[expiresMs |-> 2, claimByMs |-> 5, refundAfterMs |-> 6],
              [expiresMs |-> 2, claimByMs |-> 2, refundAfterMs |-> 3],
              [expiresMs |-> 2, claimByMs |-> 3, refundAfterMs |-> 6]}

=============================================================================
