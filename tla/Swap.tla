-------------------------------- MODULE Swap --------------------------------
(* One swap: both parties' flows, leg A's chain, leg B's note and the rooms. *)
EXTENDS SellerFlow, BuyerFlow

vars == <<worldVars, sellerVars, buyerVars>>

Init == WorldInit /\ SellerInit /\ BuyerInit

Next ==
  \/ SellerNext /\ UNCHANGED buyerVars
  \/ BuyerNext /\ UNCHANGED sellerVars
  \/ WorldNext /\ UNCHANGED <<sellerVars, buyerVars>>

Spec == Init /\ [][Next]_vars

-----------------------------------------------------------------------------
(* Properties *)

TypeOK == WorldTypeOK /\ SellerTypeOK /\ BuyerTypeOK

\* Once the Buyer holds leg B, the Seller holds leg A: leg B's note opens only
\* to the secret, which the Seller's claim of leg A publishes (claimLegA,
\* learnSecret, claimLegB).  For chains that do not reorganise.
BuyerPaidSellerPaid == noteB = "claimed" => headA = "claimed"

\* While leg A is locked and the Seller may still claim it, leg B is there for
\* the Buyer: it was verified before the lock was sent, however late the lock
\* is mined (checkLockGuards, beforeFinalSend, checkSwapDeadlines rule 3).
LegBOutlastsLegA == headA = "locked" /\ ~RefundATime => noteB = "locked"

\* When leg A's claim is mined, leg B is still locked and its claim-by leaves
\* the Buyer the time leg A needs to become final (checkSwapDeadlines rule 2).
ClaimLeavesBuyerTime ==
  [][headA # "claimed" /\ headA' = "claimed" =>
       noteB = "locked" /\ now + Policy.finalityAMs <= offerB.claimByMs]_vars

\* The secret leaves the Seller only against a lock that is final, and early
\* enough for the claim to be mined before the Buyer may refund
\* (assertFirstClaimGuards, notAfterMs).
SecretOnlyForFinalLock ==
  []["claim" \in sent' \ sent =>
       LockFinal /\ now < offerA.refundAfterMs - ClaimInclusionMs]_vars

\* What the Buyer records as final stays so, whatever blocks are replaced: a
\* lock that never landed, a refund it has announced, a claim it has seen
\* (refundLegA, readLockAbsence, routeToClaim: decided at the finalized block).
BuyerVerdictsFinal ==
  /\ "lockNeverLanded" \in bRec => headA = "none"
  /\ "receipt-refund-a" \in room => headA = "refunded"
  /\ "refundClaimSeen" \in bRec => headA = "claimed"

\* A Buyer whose flow says it is over has its money, or leg B
\* (nextStep of buyer.ts), whatever blocks are replaced.
BuyerWhole ==
  BuyerNextStep \in {"done", "abandoned"} =>
    headA \in {"none", "refunded"} \/ noteB = "claimed"

\* A Seller whose flow says it is over was paid on leg A or has leg B back, and
\* one that is told to give up has nothing locked (nextStep of seller.ts).
\* For chains that do not reorganise.
SellerWhole ==
  /\ SellerNextStep = "done" => headA = "claimed" \/ noteB = "refunded"
  /\ SellerNextStep = "abandoned" => noteB = "none"

\* A receipt says what happened (postReceiptLatched, claimLegB, refundLegB).
\* For chains that do not reorganise.
ReceiptsTruthful ==
  /\ "receipt-a" \in room => headA = "claimed"
  /\ "receipt-b" \in room => noteB = "claimed"
  /\ "receipt-refund-b" \in room => noteB = "refunded"

\* "A lock attempt that never landed ends in a verdict, not a loop" (README.md):
\* once the finalized block is past leg A's refund time and holds no lock, the
\* Buyer's record must not say that the lock landed, because refundLegA then
\* no longer looks for a verdict and sends a refund that can only revert.
NeverLandedEndsInVerdict ==
  finalA = "absent" => "lockEvidence" \notin bRec

=============================================================================
