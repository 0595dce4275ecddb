----------------------------- MODULE SwapProofs -----------------------------
(* Theorems about Swap, for every value of its constants. *)
EXTENDS Swap, TLAPS

-----------------------------------------------------------------------------
(* What the operators the actions are built from do to the types. *)

\* A call of the Seller moves its own flag along the points it can stop at.
LEMMA SStepType ==
  ASSUME SellerTypeOK, NEW flag \in SellerFlags, NEW from, NEW to \in SellerPoints,
         SStep(flag, from, to)
  PROVE  sPc' \in [SellerFlags -> SellerPoints]
BY DEF SellerTypeOK, SStep

\* FlowJournal.update adds facts of the Seller's record and no others.
LEMMA SSaveType ==
  ASSUME SellerTypeOK, NEW facts \in SUBSET SellerFacts, SSave(facts)
  PROVE  sRec' \subseteq SellerFacts
BY DEF SellerTypeOK, SSave

\* A call of the Buyer moves its own flag along the points it can stop at.
LEMMA BStepType ==
  ASSUME BuyerTypeOK, NEW flag \in BuyerFlags, NEW from, NEW to \in BuyerPoints,
         BStep(flag, from, to)
  PROVE  bPc' \in [BuyerFlags -> BuyerPoints]
BY DEF BuyerTypeOK, BStep

\* FlowJournal.update adds or drops facts of the Buyer's record and no others.
LEMMA BSaveType ==
  ASSUME BuyerTypeOK, NEW facts \in SUBSET BuyerFacts,
         BSave(facts) \/ BForget(facts)
  PROVE  bRec' \subseteq BuyerFacts
BY DEF BuyerTypeOK, BSave, BForget

\* ensurePosted leaves frames of the protocol in the room.
LEMMA PostType ==
  ASSUME WorldTypeOK, NEW kind \in Frames, Post(kind)
  PROVE  room' \subseteq Frames
BY DEF WorldTypeOK, Post

-----------------------------------------------------------------------------
(* Type correctness, party by party *)

\* The world's own steps.
LEMMA WorldStepType ==
  ASSUME WorldTypeOK, WorldNext
  PROVE  WorldTypeOK'
<1> USE WorldAssumption DEF WorldTypeOK, chainVars, LegStatus
<1>1. CASE MineLock \/ MineClaim \/ MineRefund
  BY <1>1 DEF MineLock, MineClaim, MineRefund
<1>2. CASE Finalize
  BY <1>2 DEF Finalize
<1>3. CASE FinalizeNoLock
  BY <1>3 DEF FinalizeNoLock
<1>4. CASE Reorg
  <2>1. reorgs' \in 0..MaxReorgs
    BY <1>4 DEF Reorg
  <2>2. headA' \in LegStatus
    BY <1>4 DEF Reorg
  <2> QED
    BY <1>4, <2>1, <2>2 DEF Reorg
<1>5. CASE Tick
  BY <1>5 DEF Tick
<1> QED
  BY <1>1, <1>2, <1>3, <1>4, <1>5 DEF WorldNext

\* A step that leaves the world alone keeps its type.
LEMMA WorldStutterType ==
  ASSUME WorldTypeOK, UNCHANGED worldVars
  PROVE  WorldTypeOK'
BY DEF WorldTypeOK, worldVars, chainVars

\* The Seller's own record.
LEMMA SellerStepType ==
  ASSUME SellerTypeOK, SellerNext
  PROVE  SellerTypeOK'
<1> USE SStepType, SSaveType DEF SellerTypeOK, SellerFacts, SellerFlags, SellerPoints
<1>1. ASSUME NEW o \in OffersB, AcceptLegA(o)
      PROVE  SellerTypeOK'
  BY <1>1 DEF AcceptLegA
<1>2. CASE AcceptLegAAgain \/ AcceptAGuard \/ AcceptLanded
  BY <1>2 DEF AcceptLegAAgain, AcceptAGuard, AcceptLanded
<1>3. CASE PostAcceptA \/ PostOfferB
  BY <1>3 DEF PostAcceptA, PostOfferB
<1>4. CASE SellerAccountLine
  BY <1>4 DEF SellerAccountLine, sellerVars
<1>5. CASE LockLegB \/ WriteNoteB \/ NoteBSaved \/ PostLockB
  BY <1>5 DEF LockLegB, WriteNoteB, NoteBSaved, PostLockB
<1>6. CASE ReconcileLegB
  BY <1>6 DEF ReconcileLegB
<1>7. CASE ClaimLegALanded \/ ClaimLegAFound \/ ClaimLegA \/ ClaimAttempt
  BY <1>7 DEF ClaimLegALanded, ClaimLegAFound, ClaimLegA, ClaimAttempt
<1>8. CASE SendClaim \/ ClaimReceipt \/ PostRevealA \/ PostReceiptA
  BY <1>8 DEF SendClaim, ClaimReceipt, PostRevealA, PostReceiptA
<1>9. CASE RefundLegB
  BY <1>9 DEF RefundLegB
<1>10. CASE RefundNoteB \/ NoteBClaimed
  BY <1>10 DEF RefundNoteB, NoteBClaimed
<1>11. CASE RefundBSaved \/ PostReceiptRefundB
  BY <1>11 DEF RefundBSaved, PostReceiptRefundB
<1>12. ASSUME NEW flag \in SellerFlags, SellerThrows(flag)
      PROVE  SellerTypeOK'
  BY <1>12 DEF SellerThrows
<1> QED
  BY <1>1, <1>2, <1>3, <1>4, <1>5, <1>6, <1>7, <1>8, <1>9, <1>10, <1>11, <1>12,
     Zenon DEF SellerNext, SellerContinues

\* What the Seller does to the world.
LEMMA SellerWorldType ==
  ASSUME WorldTypeOK, SellerNext
  PROVE  WorldTypeOK'
<1> USE WorldStutterType, PostType DEF WorldTypeOK, chainVars, LegStatus, Transactions, Frames, sellerVars
<1>1. ASSUME NEW o \in OffersB, AcceptLegA(o)
      PROVE  WorldTypeOK'
  BY <1>1 DEF AcceptLegA
<1>2. CASE AcceptLegAAgain \/ AcceptAGuard \/ AcceptLanded
  BY <1>2 DEF AcceptLegAAgain, AcceptAGuard, AcceptLanded
<1>3. CASE PostAcceptA
  BY <1>3 DEF PostAcceptA, PostStamped, Post
<1>4. CASE PostOfferB \/ SellerAccountLine \/ PostLockB
  BY <1>4 DEF PostOfferB, SellerAccountLine, PostLockB
<1>5. CASE LockLegB \/ NoteBSaved
  BY <1>5 DEF LockLegB, NoteBSaved
<1>6. CASE WriteNoteB \/ RefundNoteB
  BY <1>6 DEF WriteNoteB, RefundNoteB
<1>7. CASE ReconcileLegB
  BY <1>7 DEF ReconcileLegB
<1>8. CASE ClaimLegALanded \/ ClaimLegAFound \/ ClaimLegA \/ ClaimAttempt
  BY <1>8 DEF ClaimLegALanded, ClaimLegAFound, ClaimLegA, ClaimAttempt
<1>9. CASE SendClaim \/ ClaimReceipt
  BY <1>9 DEF SendClaim, ClaimReceipt
<1>10. CASE PostRevealA \/ PostReceiptA
  BY <1>10 DEF PostRevealA, PostReceiptA
<1>11. CASE RefundLegB \/ NoteBClaimed
  BY <1>11 DEF RefundLegB, NoteBClaimed
<1>12. CASE RefundBSaved \/ PostReceiptRefundB
  BY <1>12 DEF RefundBSaved, PostReceiptRefundB
<1>13. ASSUME NEW flag \in SellerFlags, SellerThrows(flag)
      PROVE  WorldTypeOK'
  BY <1>13 DEF SellerThrows
<1> QED
  BY <1>1, <1>2, <1>3, <1>4, <1>5, <1>6, <1>7, <1>8, <1>9, <1>10, <1>11, <1>12,
     <1>13, Zenon DEF SellerNext, SellerContinues

\* The Buyer's own record.
LEMMA BuyerStepType ==
  ASSUME BuyerTypeOK, BuyerNext
  PROVE  BuyerTypeOK'
<1> USE BStepType, BSaveType DEF BuyerTypeOK, BuyerFacts, BuyerFlags, BuyerPoints, buyerVars
<1>1. ASSUME NEW o \in OffersA, Bid(o)
      PROVE  BuyerTypeOK'
  BY <1>1 DEF Bid
<1>2. CASE AcceptLegB \/ AcceptBGuard \/ PostAcceptB \/ AcceptBLanded
  BY <1>2 DEF AcceptLegB, AcceptBGuard, PostAcceptB, AcceptBLanded
<1>3. CASE VerifyLegBLocked \/ BuyerAccountLine
  BY <1>3 DEF VerifyLegBLocked, BuyerAccountLine
<1>4. CASE LockLegADone \/ LockLegA \/ RecoverLockAFound \/ RecoverLockA
  BY <1>4 DEF LockLegADone, LockLegA, RecoverLockAFound, RecoverLockA
<1>5. CASE SendLock \/ LockReceipt \/ AnnounceLockA
  BY <1>5 DEF SendLock, LockReceipt, AnnounceLockA
<1>6. CASE ReconcileLockA \/ LearnSecret
  BY <1>6 DEF ReconcileLockA, LearnSecret
<1>7. CASE ClaimLegB
  BY <1>7 DEF ClaimLegB
<1>8. CASE ClaimNoteB \/ NoteBAlreadyClaimed \/ NoteBNotClaimable
  BY <1>8 DEF ClaimNoteB, NoteBAlreadyClaimed, NoteBNotClaimable
<1>9. CASE ClaimBSaved
  BY <1>9 DEF ClaimBSaved
<1>10. CASE PostReceiptB \/ NoteLegAClaimSeen
  BY <1>10 DEF PostReceiptB, NoteLegAClaimSeen
<1>11. CASE RefundLegA
  BY <1>11 DEF RefundLegA
<1>12. CASE LockSeenFinal \/ LockNeverLanded
  BY <1>12 DEF LockSeenFinal, LockNeverLanded
<1>13. CASE RecoverRefundADone
  BY <1>13 DEF RecoverRefundADone
<1>14. CASE RefundAttempt \/ SendRefund \/ RefundReceipt
  BY <1>14 DEF RefundAttempt, SendRefund, RefundReceipt
<1>15. CASE RefundFailed
  BY <1>15 DEF RefundFailed
<1>16. CASE ConfirmRefund \/ PostReceiptRefundA
  BY <1>16 DEF ConfirmRefund, PostReceiptRefundA
<1>17. ASSUME NEW flag \in BuyerFlags, BuyerThrows(flag)
      PROVE  BuyerTypeOK'
  BY <1>17 DEF BuyerThrows
<1>18. CASE BuyerRestarts
  BY <1>18 DEF BuyerRestarts
<1> QED
  BY <1>1, <1>2, <1>3, <1>4, <1>5, <1>6, <1>7, <1>8, <1>9, <1>10, <1>11, <1>12,
     <1>13, <1>14, <1>15, <1>16, <1>17, <1>18, Zenon DEF BuyerNext, BuyerContinues

\* What the Buyer does to the world.
LEMMA BuyerWorldType ==
  ASSUME WorldTypeOK, BuyerNext
  PROVE  WorldTypeOK'
<1> USE WorldStutterType, PostType DEF WorldTypeOK, chainVars, LegStatus, Transactions, Frames
<1>1. ASSUME NEW o \in OffersA, Bid(o)
      PROVE  WorldTypeOK'
  BY <1>1 DEF Bid
<1>2. CASE AcceptLegB \/ AcceptBGuard \/ AcceptBLanded
  BY <1>2 DEF AcceptLegB, AcceptBGuard, AcceptBLanded
<1>3. CASE PostAcceptB
  BY <1>3 DEF PostAcceptB, PostStamped, Post
<1>4. CASE VerifyLegBLocked \/ BuyerAccountLine
  BY <1>4 DEF VerifyLegBLocked, BuyerAccountLine
<1>5. CASE LockLegADone \/ LockLegA \/ RecoverLockAFound \/ RecoverLockA
  BY <1>5 DEF LockLegADone, LockLegA, RecoverLockAFound, RecoverLockA
<1>6. CASE SendLock \/ LockReceipt
  BY <1>6 DEF SendLock, LockReceipt
<1>7. CASE AnnounceLockA
  BY <1>7 DEF AnnounceLockA
<1>8. CASE ReconcileLockA
  BY <1>8 DEF ReconcileLockA
<1>9. CASE LearnSecret \/ ClaimLegB
  BY <1>9 DEF LearnSecret, ClaimLegB
<1>10. CASE ClaimNoteB \/ NoteBAlreadyClaimed \/ NoteBNotClaimable
  BY <1>10 DEF ClaimNoteB, NoteBAlreadyClaimed, NoteBNotClaimable
<1>11. CASE ClaimBSaved
  BY <1>11 DEF ClaimBSaved
<1>12. CASE PostReceiptB \/ NoteLegAClaimSeen
  BY <1>12 DEF PostReceiptB, NoteLegAClaimSeen
<1>13. CASE RefundLegA
  BY <1>13 DEF RefundLegA
<1>14. CASE LockSeenFinal \/ LockNeverLanded
  BY <1>14 DEF LockSeenFinal, LockNeverLanded
<1>15. CASE RecoverRefundADone
  BY <1>15 DEF RecoverRefundADone
<1>16. CASE RefundAttempt \/ SendRefund \/ RefundReceipt
  BY <1>16 DEF RefundAttempt, SendRefund, RefundReceipt
<1>17. CASE RefundFailed
  BY <1>17 DEF RefundFailed
<1>18. CASE ConfirmRefund \/ PostReceiptRefundA
  BY <1>18 DEF ConfirmRefund, PostReceiptRefundA
<1>19. ASSUME NEW flag \in BuyerFlags, BuyerThrows(flag)
      PROVE  WorldTypeOK'
  BY <1>19 DEF BuyerThrows
<1>20. CASE BuyerRestarts
  BY <1>20 DEF BuyerRestarts
<1> QED
  BY <1>1, <1>2, <1>3, <1>4, <1>5, <1>6, <1>7, <1>8, <1>9, <1>10, <1>11, <1>12,
     <1>13, <1>14, <1>15, <1>16, <1>17, <1>18, <1>19, <1>20, Zenon DEF BuyerNext,
     BuyerContinues

\* Every variable keeps its type: the flows' records hold only the facts the
\* code saves, and their calls stand only where the code may stop.
THEOREM TypeCorrect == Spec => []TypeOK
<1>1. Init => TypeOK
  <2>1. WorldInit => WorldTypeOK
    <3>1. WorldInit => now \in 1..MaxTime /\ reorgs \in 0..MaxReorgs
      BY WorldAssumption DEF WorldInit
    <3> QED
      BY <3>1 DEF WorldInit, WorldTypeOK, LegStatus
  <2>2. SellerInit => SellerTypeOK
    BY DEF SellerInit, SellerTypeOK, SellerPoints
  <2>3. BuyerInit => BuyerTypeOK
    BY DEF BuyerInit, BuyerTypeOK, BuyerPoints
  <2> QED
    BY <2>1, <2>2, <2>3 DEF Init, TypeOK
<1>2. TypeOK /\ [Next]_vars => TypeOK'
  <2> SUFFICES ASSUME TypeOK, [Next]_vars
               PROVE  TypeOK'
    OBVIOUS
  <2>1. CASE SellerNext /\ UNCHANGED buyerVars
    BY <2>1, SellerStepType, SellerWorldType DEF TypeOK, BuyerTypeOK, buyerVars
  <2>2. CASE BuyerNext /\ UNCHANGED sellerVars
    BY <2>2, BuyerStepType, BuyerWorldType DEF TypeOK, SellerTypeOK, sellerVars
  <2>3. CASE WorldNext /\ UNCHANGED <<sellerVars, buyerVars>>
    BY <2>3, WorldStepType DEF TypeOK, SellerTypeOK, sellerVars, BuyerTypeOK, buyerVars
  <2>4. CASE UNCHANGED vars
    BY <2>4, WorldStutterType
    DEF vars, TypeOK, SellerTypeOK, sellerVars, BuyerTypeOK, buyerVars
  <2> QED
    BY <2>1, <2>2, <2>3, <2>4 DEF Next
<1> QED
  BY <1>1, <1>2, PTL DEF Spec

-----------------------------------------------------------------------------
(* What one step of a party may do to what the theorems below are about.  The
   two lemmas go through the actions once; the theorems argue from these. *)

SellerMay ==
  /\ UNCHANGED <<now, offerA, chainVars>>
  /\ "receipt-refund-a" \in room' => "receipt-refund-a" \in room
  /\ "reveal-a" \in room' => "reveal-a" \in room \/ sPc["claim"] = "reveal"
  /\ "claim" \in sent' \ sent =>
       sPc["claim"] = "send" /\ now < offerA.refundAfterMs - ClaimInclusionMs
  /\ noteB' = "claimed" => noteB = "claimed"
  /\ "claimLanded" \in sRec' => "claimLanded" \in sRec \/ headA = "claimed"
  /\ sPc'["claim"] \in {"verified", "send", "wait"} =>
       sPc["claim"] \in {"verified", "send", "wait"} \/ finalA = "locked"
  /\ sPc'["claim"] \in {"reveal", "receipt"} =>
       sPc["claim"] \in {"reveal", "receipt"} \/ headA = "claimed" \/ "claimLanded" \in sRec

BuyerMay ==
  /\ UNCHANGED <<now, chainVars>>
  /\ offerA # NoOffer => UNCHANGED offerA
  /\ "receipt-refund-a" \in room' => "receipt-refund-a" \in room \/ bPc["settle"] = "refundReceipt"
  /\ "reveal-a" \in room' => "reveal-a" \in room
  /\ "claim" \in sent' => "claim" \in sent
  /\ noteB' = "claimed" => noteB = "claimed" \/ bPc["settle"] = "note"
  /\ "lockNeverLanded" \in bRec' => "lockNeverLanded" \in bRec \/ finalA = "absent"
  /\ "refundClaimSeen" \in bRec' => "refundClaimSeen" \in bRec \/ finalA = "claimed"
  /\ bPc'["settle"] = "refundReceipt" => bPc["settle"] = "refundReceipt" \/ finalA = "refunded"
  /\ bPc'["settle"] = "note" => bPc["settle"] = "note" \/ "secret" \in bHolds
  /\ bPc'["settle"] = "note" /\ "secret" \in bHolds => "secret" \in bHolds'
  /\ "secret" \in bHolds' => "secret" \in bHolds \/ "reveal-a" \in room \/ headA = "claimed"

\* Every step of the Seller's flow stays within SellerMay.
LEMMA SellerEffects ==
  ASSUME SellerTypeOK, SellerNext
  PROVE  SellerMay
<1> USE DEF SellerMay, SellerTypeOK, SellerFlags, worldVars, sellerVars, chainVars, SStep, SSave, Post
<1>1. ASSUME NEW o \in OffersB, AcceptLegA(o)
      PROVE  SellerMay
  BY <1>1 DEF AcceptLegA
<1>2. CASE AcceptLegAAgain \/ AcceptAGuard \/ AcceptLanded
  BY <1>2 DEF AcceptLegAAgain, AcceptAGuard, AcceptLanded
<1>3. CASE PostAcceptA \/ PostOfferB \/ SellerAccountLine
  BY <1>3 DEF PostAcceptA, PostOfferB, SellerAccountLine, PostStamped
<1>4. CASE LockLegB \/ WriteNoteB \/ NoteBSaved \/ PostLockB
  BY <1>4 DEF LockLegB, WriteNoteB, NoteBSaved, PostLockB
<1>5. CASE ReconcileLegB
  BY <1>5 DEF ReconcileLegB
<1>6. CASE ClaimLegALanded \/ ClaimLegAFound
  BY <1>6 DEF ClaimLegALanded, ClaimLegAFound
<1>7. CASE ClaimLegA \/ ClaimAttempt
  BY <1>7 DEF ClaimLegA, ClaimAttempt
<1>8. CASE SendClaim \/ ClaimReceipt
  BY <1>8 DEF SendClaim, ClaimReceipt
<1>9. CASE PostRevealA \/ PostReceiptA
  BY <1>9 DEF PostRevealA, PostReceiptA
<1>10. CASE RefundLegB \/ RefundNoteB \/ NoteBClaimed
  BY <1>10 DEF RefundLegB, RefundNoteB, NoteBClaimed
<1>11. CASE RefundBSaved \/ PostReceiptRefundB
  BY <1>11 DEF RefundBSaved, PostReceiptRefundB
<1>12. ASSUME NEW flag \in SellerFlags, SellerThrows(flag)
      PROVE  SellerMay
  BY <1>12 DEF SellerThrows
<1> QED
  BY <1>1, <1>2, <1>3, <1>4, <1>5, <1>6, <1>7, <1>8, <1>9, <1>10, <1>11, <1>12,
     Zenon DEF SellerNext, SellerContinues

\* Every step of the Buyer's flow stays within BuyerMay.
LEMMA BuyerEffects ==
  ASSUME BuyerTypeOK, BuyerNext
  PROVE  BuyerMay
<1> USE DEF BuyerMay, BuyerTypeOK, BuyerFlags, worldVars, buyerVars, chainVars, BStep, BSave, BForget, Post
<1>1. ASSUME NEW o \in OffersA, Bid(o)
      PROVE  BuyerMay
  BY <1>1 DEF Bid
<1>2. CASE AcceptLegB \/ AcceptBGuard \/ AcceptBLanded
  BY <1>2 DEF AcceptLegB, AcceptBGuard, AcceptBLanded
<1>3. CASE PostAcceptB
  BY <1>3 DEF PostAcceptB, PostStamped
<1>4. CASE VerifyLegBLocked \/ BuyerAccountLine
  BY <1>4 DEF VerifyLegBLocked, BuyerAccountLine
<1>5. CASE LockLegADone \/ LockLegA \/ RecoverLockAFound \/ RecoverLockA
  BY <1>5 DEF LockLegADone, LockLegA, RecoverLockAFound, RecoverLockA
<1>6. CASE SendLock \/ LockReceipt
  BY <1>6 DEF SendLock, LockReceipt
<1>7. CASE AnnounceLockA
  BY <1>7 DEF AnnounceLockA
<1>8. CASE ReconcileLockA
  BY <1>8 DEF ReconcileLockA
<1>9. CASE LearnSecret \/ ClaimLegB
  BY <1>9 DEF LearnSecret, ClaimLegB
<1>10. CASE ClaimNoteB \/ NoteBAlreadyClaimed \/ NoteBNotClaimable
  BY <1>10 DEF ClaimNoteB, NoteBAlreadyClaimed, NoteBNotClaimable
<1>11. CASE ClaimBSaved
  BY <1>11 DEF ClaimBSaved
<1>12. CASE PostReceiptB \/ NoteLegAClaimSeen
  BY <1>12 DEF PostReceiptB, NoteLegAClaimSeen
<1>13. CASE RefundLegA
  BY <1>13 DEF RefundLegA
<1>14. CASE LockSeenFinal \/ LockNeverLanded
  BY <1>14 DEF LockSeenFinal, LockNeverLanded
<1>15. CASE RecoverRefundADone
  BY <1>15 DEF RecoverRefundADone
<1>16. CASE RefundAttempt \/ SendRefund \/ RefundReceipt
  BY <1>16 DEF RefundAttempt, SendRefund, RefundReceipt
<1>17. CASE RefundFailed
  BY <1>17 DEF RefundFailed
<1>18. CASE ConfirmRefund \/ PostReceiptRefundA
  BY <1>18 DEF ConfirmRefund, PostReceiptRefundA
<1>19. ASSUME NEW flag \in BuyerFlags, BuyerThrows(flag)
      PROVE  BuyerMay
  BY <1>19 DEF BuyerThrows
<1>20. CASE BuyerRestarts
  BY <1>20 DEF BuyerRestarts
<1> QED
  BY <1>1, <1>2, <1>3, <1>4, <1>5, <1>6, <1>7, <1>8, <1>9, <1>10, <1>11, <1>12,
     <1>13, <1>14, <1>15, <1>16, <1>17, <1>18, <1>19, <1>20, Zenon DEF BuyerNext,
     BuyerContinues

-----------------------------------------------------------------------------
(* The chain of leg A: what is final stays, and the latest block agrees. *)

FinalInv ==
  /\ finalA = "refunded" => headA = "refunded"
  /\ finalA = "claimed" => headA = "claimed"
  /\ finalA = "locked" => headA # "none"
  /\ finalA = "absent" => headA = "none" /\ offerA # NoOffer /\ RefundATime

\* What a flow has concluded from a final block, or is about to act on.
VerdictInv ==
  /\ "lockNeverLanded" \in bRec => finalA = "absent"
  /\ "refundClaimSeen" \in bRec => finalA = "claimed"
  /\ bPc["settle"] = "refundReceipt" => finalA = "refunded"
  /\ "receipt-refund-a" \in room => finalA = "refunded"
  /\ sPc["claim"] \in {"verified", "send", "wait"} => LockFinal

\* What a step of the chain may do to the finalized block: a settled escrow or
\* an absent one stays as it is, and a lock stays in it.
LEMMA FinalStable ==
  ASSUME TypeOK, FinalInv, WorldNext
  PROVE  /\ finalA \in {"refunded", "claimed", "absent"} => UNCHANGED finalA
         /\ LockFinal => LockFinal'
<1> USE DEF LockFinal
<1>1. CASE Finalize
  BY <1>1 DEF Finalize, FinalInv, TypeOK, WorldTypeOK, LegStatus
<1>2. CASE FinalizeNoLock
  BY <1>2 DEF FinalizeNoLock
<1>3. CASE MineLock \/ MineClaim \/ MineRefund \/ Reorg \/ Tick
  BY <1>3 DEF MineLock, MineClaim, MineRefund, Reorg, Tick, chainVars
<1> QED
  BY <1>1, <1>2, <1>3 DEF WorldNext

\* A finalized settlement, absence or lock survives every step of the swap.
LEMMA FinalStep ==
  ASSUME TypeOK, FinalInv, WorldNext
  PROVE  FinalInv'
<1> USE DEF FinalInv, TypeOK, WorldTypeOK, LegStatus
<1>1. CASE MineLock
  BY <1>1 DEF MineLock, RefundATime
<1>2. CASE MineClaim \/ MineRefund
  BY <1>2 DEF MineClaim, MineRefund, RefundATime
<1>3. CASE Finalize
  BY <1>3 DEF Finalize, RefundATime
<1>4. CASE FinalizeNoLock
  BY <1>4 DEF FinalizeNoLock, RefundATime
<1>5. CASE Reorg
  BY <1>5 DEF Reorg, RefundATime
<1>6. CASE Tick
  <2>1. offerA # NoOffer => offerA.refundAfterMs \in Nat
    BY WorldAssumption DEF Offer
  <2> QED
    BY <1>6, <2>1 DEF Tick, chainVars, RefundATime
<1> QED
  BY <1>1, <1>2, <1>3, <1>4, <1>5, <1>6 DEF WorldNext

\* The inductive invariant of the three theorems on final blocks.
FinalityInv == TypeOK /\ FinalInv /\ VerdictInv

\* Every verdict and every claim in the making rests on a finalized block.
LEMMA FinalityInductive == Spec => []FinalityInv
<1>1. Init => FinalInv /\ VerdictInv
  BY DEF Init, WorldInit, SellerInit, BuyerInit, FinalInv, VerdictInv, SellerFlags, BuyerFlags
<1>2. TypeOK /\ FinalInv /\ VerdictInv /\ [Next]_vars => FinalInv' /\ VerdictInv'
  <2> SUFFICES ASSUME TypeOK, FinalInv, VerdictInv, [Next]_vars
               PROVE  FinalInv' /\ VerdictInv'
    OBVIOUS
  <2>1. CASE SellerNext /\ UNCHANGED buyerVars
    <3>1. SellerMay
      BY <2>1, SellerEffects DEF TypeOK
    <3> QED
      BY <2>1, <3>1 DEF SellerMay, FinalInv, VerdictInv, LockFinal, RefundATime, buyerVars, chainVars
  <2>2. CASE BuyerNext /\ UNCHANGED sellerVars
    <3>1. BuyerMay
      BY <2>2, BuyerEffects DEF TypeOK
    <3> QED
      BY <2>2, <3>1 DEF BuyerMay, FinalInv, VerdictInv, LockFinal, RefundATime, sellerVars, chainVars
  <2>3. CASE WorldNext /\ UNCHANGED <<sellerVars, buyerVars>>
    <3>1. UNCHANGED room
      BY <2>3 DEF WorldNext, MineLock, MineClaim, MineRefund, Finalize, FinalizeNoLock, Reorg, Tick
    <3> QED
      BY <2>3, <3>1, FinalStep, FinalStable DEF VerdictInv, sellerVars, buyerVars
  <2>4. CASE UNCHANGED vars
    BY <2>4 DEF vars, worldVars, sellerVars, buyerVars, chainVars, FinalInv, VerdictInv,
       LockFinal, RefundATime
  <2> QED
    BY <2>1, <2>2, <2>3, <2>4 DEF Next
<1> QED
  BY <1>1, <1>2, TypeCorrect, PTL DEF Spec, FinalityInv

\* What the Buyer records as final (the lock never landed, the refund is
\* announced, the claim was seen) stays so whatever blocks are replaced:
\* refundLegA and readLockAbsence decide at the finalized block.
THEOREM VerdictsAreFinal == Spec => []BuyerVerdictsFinal
<1>1. FinalityInv => BuyerVerdictsFinal
  BY DEF FinalityInv, FinalInv, VerdictInv, BuyerVerdictsFinal
<1> QED
  BY <1>1, FinalityInductive, PTL

\* The Seller's claim, and the secret with it, leaves only against a final lock
\* and before the last time to send at (assertFirstClaimGuards, notAfterMs).
THEOREM SecretGuarded == Spec => SecretOnlyForFinalLock
<1> DEFINE Guarded == "claim" \in sent' \ sent =>
                        LockFinal /\ now < offerA.refundAfterMs - ClaimInclusionMs
<1>1. FinalityInv /\ [Next]_vars => [Guarded]_vars
  <2> SUFFICES ASSUME FinalityInv, Next
               PROVE  Guarded
    OBVIOUS
  <2>1. CASE SellerNext /\ UNCHANGED buyerVars
    BY <2>1, SellerEffects DEF FinalityInv, TypeOK, VerdictInv, SellerMay
  <2>2. CASE BuyerNext /\ UNCHANGED sellerVars
    BY <2>2, BuyerEffects DEF FinalityInv, TypeOK, BuyerMay
  <2>3. CASE WorldNext
    BY <2>3 DEF WorldNext, MineLock, MineClaim, MineRefund, Finalize, FinalizeNoLock, Reorg, Tick
  <2> QED
    BY <2>1, <2>2, <2>3 DEF Next
<1> QED
  BY <1>1, FinalityInductive, PTL DEF Spec, SecretOnlyForFinalLock

-----------------------------------------------------------------------------
(* Atomicity: the Buyer's hold of leg B traced back to the claim of leg A. *)

PaidInv ==
  /\ noteB = "claimed" => headA = "claimed"
  /\ bPc["settle"] = "note" => "secret" \in bHolds
  /\ "secret" \in bHolds => headA = "claimed"
  /\ "reveal-a" \in room => headA = "claimed"
  /\ sPc["claim"] \in {"reveal", "receipt"} => headA = "claimed"
  /\ "claimLanded" \in sRec => headA = "claimed"

\* Without reorganisations, whoever knows the secret knows it from a mined claim.
LEMMA PaidInductive ==
  ASSUME MaxReorgs = 0
  PROVE  Spec => []PaidInv
<1>1. Init => PaidInv
  BY DEF Init, WorldInit, SellerInit, BuyerInit, PaidInv, SellerFlags, BuyerFlags
<1>2. TypeOK /\ PaidInv /\ [Next]_vars => PaidInv'
  <2> SUFFICES ASSUME TypeOK, PaidInv, [Next]_vars
               PROVE  PaidInv'
    OBVIOUS
  <2>1. CASE SellerNext /\ UNCHANGED buyerVars
    <3>1. SellerMay
      BY <2>1, SellerEffects DEF TypeOK
    <3> QED
      BY <2>1, <3>1 DEF SellerMay, PaidInv, buyerVars, chainVars
  <2>2. CASE BuyerNext /\ UNCHANGED sellerVars
    <3>1. BuyerMay
      BY <2>2, BuyerEffects DEF TypeOK
    <3> QED
      BY <2>2, <3>1 DEF BuyerMay, PaidInv, sellerVars, chainVars
  <2>3. CASE WorldNext /\ UNCHANGED <<sellerVars, buyerVars>>
    <3>1. ~Reorg
      BY DEF Reorg, TypeOK, WorldTypeOK
    <3>2. headA = "claimed" => headA' = "claimed"
      BY <2>3, <3>1 DEF WorldNext, MineLock, MineClaim, MineRefund, Finalize, FinalizeNoLock,
         Tick, chainVars
    <3>3. UNCHANGED <<room, noteB>>
      BY <2>3 DEF WorldNext, MineLock, MineClaim, MineRefund, Finalize, FinalizeNoLock, Reorg, Tick
    <3> QED
      BY <2>3, <3>2, <3>3 DEF PaidInv, sellerVars, buyerVars
  <2>4. CASE UNCHANGED vars
    BY <2>4 DEF vars, worldVars, sellerVars, buyerVars, chainVars, PaidInv
  <2> QED
    BY <2>1, <2>2, <2>3, <2>4 DEF Next
<1> QED
  BY <1>1, <1>2, TypeCorrect, PTL DEF Spec

\* Once the Buyer has taken leg B the Seller has been paid leg A, on a chain
\* that does not reorganise: claimLegB needs the secret that learnSecret read
\* from the claim or the reveal, and the reveal follows the claim's receipt.
THEOREM BuyerPaysForLegB ==
  ASSUME MaxReorgs = 0
  PROVE  Spec => []BuyerPaidSellerPaid
<1>1. PaidInv => BuyerPaidSellerPaid
  BY DEF PaidInv, BuyerPaidSellerPaid
<1> QED
  BY <1>1, PaidInductive, PTL

-----------------------------------------------------------------------------
(* Leg B outlasts leg A, and a flow that is over leaves its party whole: the
   terms do not change once they are agreed, leg A is locked under terms that
   passed the rules, and the note and the receipts agree. *)

\* The terms come before what rests on them.
TermsInv ==
  /\ "offer-a" \in room => offerA # NoOffer
  /\ "offer-b" \in room => "secret" \in sRec
  /\ sPc["accept"] # "idle" => "secret" \in sRec
  /\ "acceptLanded" \in sRec => "secret" \in sRec
  /\ "secret" \in sRec => offerB # NoOffer
  /\ bPc["pair"] # "idle" \/ Paired => {"offer-a", "offer-b"} \subseteq room

\* What the last check before a lock is sent leaves between the deadlines.
TermsSafe ==
  /\ offerA.refundAfterMs + Policy.finalityAMs <= offerB.claimByMs
  /\ offerB.claimByMs < offerB.refundAfterMs

\* A lock is on the chain only if it was sent, under terms that are safe, by a
\* Buyer who had accepted leg B and saved the attempt.
LockInv ==
  /\ headA # "none" => "lock" \in sent
  /\ "lock" \in sent => TermsSafe
  /\ bPc["lock"] = "commit" \/ "lock" \in sent => "legALockAttempted" \in bRec
  /\ "legALockAttempted" \in bRec => Paired

\* Where leg B's note stands when a flow has something to say about it.
NoteInv ==
  /\ noteB # "none" \/ sPc["lock"] # "idle" \/ sPc["refund"] = "note" => "acceptLanded" \in sRec
  /\ sPc["refund"] = "note" => RefundBTime
  /\ \/ bPc["settle"] \in {"own", "other", "receipt", "seen"}
     \/ {"legBClaimed", "legBClaimAdopted"} \cap bRec # {}
     \/ "receipt-b" \in room
     => noteB = "claimed"
  /\ \/ sPc["refund"] \in {"refunded", "receipt"}
     \/ "legBRefundDone" \in sRec
     \/ "receipt-refund-b" \in room
     => noteB = "refunded"

\* Leg B is there from the check of a lock on, until its refund opens or the
\* Seller has claimed leg A.
OutlastInv ==
  /\ bPc["lock"] = "commit" \/ "lock" \in sent =>
       noteB = "locked" \/ RefundBTime \/ headA = "claimed"
  /\ "receipt-a" \in room => headA = "claimed"

\* What one step of the Seller may do to the terms, leg B's note and the
\* frames and facts that speak of them.
SellerMoves ==
  /\ room \subseteq room'
  /\ \A kind \in {"offer-a", "receipt-b"} : kind \in room' => kind \in room
  /\ "offer-b" \in room' => "offer-b" \in room \/ sPc["accept"] = "offer"
  /\ "receipt-a" \in room' => "receipt-a" \in room \/ sPc["claim"] = "receipt"
  /\ "receipt-refund-b" \in room' => "receipt-refund-b" \in room \/ sPc["refund"] = "receipt"
  /\ "lock" \in sent' <=> "lock" \in sent
  /\ "secret" \in sRec => "secret" \in sRec' /\ UNCHANGED offerB
  /\ "secret" \notin sRec => offerB' = offerB \/ offerB' \in OffersB
  /\ "secret" \in sRec' => "secret" \in sRec \/ offerB' \in OffersB
  /\ "acceptLanded" \in sRec => "acceptLanded" \in sRec'
  /\ "acceptLanded" \in sRec' => "acceptLanded" \in sRec \/ sPc["accept"] = "landed"
  /\ "legBRefundDone" \in sRec' => "legBRefundDone" \in sRec \/ sPc["refund"] = "refunded"
  /\ sPc'["accept"] # "idle" => sPc["accept"] # "idle" \/ "secret" \in sRec'
  /\ sPc'["lock"] # "idle" => sPc["lock"] # "idle" \/ "acceptLanded" \in sRec
  /\ sPc'["refund"] = "note" =>
       sPc["refund"] = "note" \/ ("acceptLanded" \in sRec /\ RefundBTime)
  /\ sPc'["refund"] = "refunded" => sPc["refund"] = "refunded" \/ noteB' = "refunded"
  /\ sPc'["refund"] = "receipt" =>
       sPc["refund"] \in {"refunded", "receipt"} \/ "legBRefundDone" \in sRec
  /\ \/ UNCHANGED noteB
     \/ noteB \in {"none", "locked"} /\ noteB' = "locked" /\ sPc["lock"] = "note"
     \/ noteB \in {"locked", "refunded"} /\ noteB' = "refunded" /\ sPc["refund"] = "note"

\* The same for a step of the Buyer.
BuyerMoves ==
  /\ room \subseteq room'
  /\ \A kind \in {"offer-b", "receipt-a", "receipt-refund-b"} : kind \in room' => kind \in room
  /\ "offer-a" \in room' => "offer-a" \in room \/ offerA' \in OffersA
  /\ "receipt-b" \in room' => "receipt-b" \in room \/ bPc["settle"] = "receipt"
  /\ UNCHANGED offerB
  /\ bPc'["pair"] # "idle" => bPc["pair"] # "idle" \/ {"offer-a", "offer-b"} \subseteq room
  /\ Paired' => Paired \/ bPc["pair"] = "landed"
  /\ Paired => Paired'
  /\ "legALockAttempted" \in bRec => "legALockAttempted" \in bRec'
  /\ "legALockAttempted" \in bRec' => "legALockAttempted" \in bRec \/ Paired
  /\ bPc'["lock"] = "commit" =>
       bPc["lock"] = "commit" \/ ("legALockAttempted" \in bRec' /\ noteB = "locked")
  /\ "lock" \in sent => "lock" \in sent'
  /\ "lock" \in sent' => "lock" \in sent \/ (bPc["lock"] = "commit" /\ checkLockDeadlines)
  /\ bPc'["settle"] \in {"own", "other", "receipt", "seen"} =>
       \/ bPc["settle"] \in {"own", "other", "receipt", "seen"}
       \/ {"legBClaimed", "legBClaimAdopted"} \cap bRec # {}
       \/ noteB' = "claimed"
  /\ {"legBClaimed", "legBClaimAdopted"} \cap bRec' # {} =>
       \/ {"legBClaimed", "legBClaimAdopted"} \cap bRec # {}
       \/ bPc["settle"] \in {"own", "other"}
       \/ noteB = "claimed"
  /\ UNCHANGED noteB \/ (noteB = "locked" /\ noteB' = "claimed" /\ bPc["settle"] = "note")

\* Every step of the Seller's flow stays within SellerMoves.
LEMMA SellerMovesHold ==
  ASSUME SellerTypeOK, SellerNext
  PROVE  SellerMoves
<1> USE DEF SellerMoves, SellerTypeOK, SellerFlags, worldVars, sellerVars, chainVars, SStep, SSave, Post
<1>1. ASSUME NEW o \in OffersB, AcceptLegA(o)
      PROVE  SellerMoves
  BY <1>1 DEF AcceptLegA
<1>2. CASE AcceptLegAAgain \/ AcceptAGuard \/ AcceptLanded
  BY <1>2 DEF AcceptLegAAgain, AcceptAGuard, AcceptLanded
<1>3. CASE PostAcceptA \/ PostOfferB \/ SellerAccountLine
  BY <1>3 DEF PostAcceptA, PostOfferB, SellerAccountLine, PostStamped
<1>4. CASE LockLegB \/ WriteNoteB
  BY <1>4 DEF LockLegB, WriteNoteB
<1>5. CASE NoteBSaved \/ PostLockB
  BY <1>5 DEF NoteBSaved, PostLockB
<1>6. CASE ReconcileLegB
  BY <1>6 DEF ReconcileLegB
<1>7. CASE ClaimLegALanded \/ ClaimLegAFound \/ ClaimLegA \/ ClaimAttempt
  BY <1>7 DEF ClaimLegALanded, ClaimLegAFound, ClaimLegA, ClaimAttempt
<1>8. CASE SendClaim \/ ClaimReceipt
  BY <1>8 DEF SendClaim, ClaimReceipt
<1>9. CASE PostRevealA \/ PostReceiptA
  BY <1>9 DEF PostRevealA, PostReceiptA
<1>10. CASE RefundLegB \/ RefundNoteB \/ NoteBClaimed
  BY <1>10 DEF RefundLegB, RefundNoteB, NoteBClaimed
<1>11. CASE RefundBSaved \/ PostReceiptRefundB
  BY <1>11 DEF RefundBSaved, PostReceiptRefundB
<1>12. ASSUME NEW flag \in SellerFlags, SellerThrows(flag)
      PROVE  SellerMoves
  BY <1>12 DEF SellerThrows
<1> QED
  BY <1>1, <1>2, <1>3, <1>4, <1>5, <1>6, <1>7, <1>8, <1>9, <1>10, <1>11, <1>12,
     Zenon DEF SellerNext, SellerContinues

\* Every step of the Buyer's flow stays within BuyerMoves.
LEMMA BuyerMovesHold ==
  ASSUME BuyerTypeOK, BuyerNext
  PROVE  BuyerMoves
<1> USE DEF BuyerMoves, Paired, BuyerTypeOK, BuyerFlags, worldVars, buyerVars, chainVars, BStep, BSave,
    BForget, Post
<1>1. ASSUME NEW o \in OffersA, Bid(o)
      PROVE  BuyerMoves
  BY <1>1 DEF Bid
<1>2. CASE AcceptLegB \/ AcceptBGuard
  BY <1>2 DEF AcceptLegB, AcceptBGuard
<1>3. CASE PostAcceptB \/ AcceptBLanded
  BY <1>3 DEF PostAcceptB, AcceptBLanded, PostStamped
<1>4. CASE VerifyLegBLocked \/ BuyerAccountLine
  BY <1>4 DEF VerifyLegBLocked, BuyerAccountLine
<1>5. CASE LockLegADone \/ LockLegA
  BY <1>5 DEF LockLegADone, LockLegA, MayLockA, checkLockGuards
<1>6. CASE RecoverLockAFound \/ RecoverLockA
  BY <1>6 DEF RecoverLockAFound, RecoverLockA, MayLockA, checkLockGuards
<1>7. CASE SendLock \/ LockReceipt
  BY <1>7 DEF SendLock, LockReceipt
<1>8. CASE AnnounceLockA \/ ReconcileLockA
  BY <1>8 DEF AnnounceLockA, ReconcileLockA
<1>9. CASE LearnSecret \/ ClaimLegB
  BY <1>9 DEF LearnSecret, ClaimLegB
<1>10. CASE ClaimNoteB \/ NoteBAlreadyClaimed \/ NoteBNotClaimable
  BY <1>10 DEF ClaimNoteB, NoteBAlreadyClaimed, NoteBNotClaimable, legBNoteClaimable
<1>11. CASE ClaimBSaved
  BY <1>11 DEF ClaimBSaved
<1>12. CASE PostReceiptB \/ NoteLegAClaimSeen
  BY <1>12 DEF PostReceiptB, NoteLegAClaimSeen
<1>13. CASE RefundLegA
  BY <1>13 DEF RefundLegA
<1>14. CASE LockSeenFinal \/ LockNeverLanded
  BY <1>14 DEF LockSeenFinal, LockNeverLanded
<1>15. CASE RecoverRefundADone
  BY <1>15 DEF RecoverRefundADone
<1>16. CASE RefundAttempt \/ SendRefund \/ RefundReceipt
  BY <1>16 DEF RefundAttempt, SendRefund, RefundReceipt
<1>17. CASE RefundFailed
  BY <1>17 DEF RefundFailed
<1>18. CASE ConfirmRefund \/ PostReceiptRefundA
  BY <1>18 DEF ConfirmRefund, PostReceiptRefundA
<1>19. ASSUME NEW flag \in BuyerFlags, BuyerThrows(flag)
      PROVE  BuyerMoves
  BY <1>19 DEF BuyerThrows
<1>20. CASE BuyerRestarts
  BY <1>20 DEF BuyerRestarts
<1> QED
  BY <1>1, <1>2, <1>3, <1>4, <1>5, <1>6, <1>7, <1>8, <1>9, <1>10, <1>11, <1>12,
     <1>13, <1>14, <1>15, <1>16, <1>17, <1>18, <1>19, <1>20, Zenon DEF BuyerNext,
     BuyerContinues

\* What one step of the chain or the clock may do to them.
LEMMA WorldMovesHold ==
  ASSUME TypeOK, WorldNext
  PROVE  /\ UNCHANGED <<offerA, offerB, sent, noteB, room>>
         /\ headA' # "none" => headA # "none" \/ "lock" \in sent
         /\ now' >= now
         /\ headA' = "claimed" /\ headA # "claimed" => MineClaim
<1> USE DEF TypeOK, WorldTypeOK, chainVars
<1>1. CASE MineLock \/ MineClaim \/ MineRefund
  BY <1>1 DEF MineLock, MineClaim, MineRefund
<1>2. CASE Finalize \/ FinalizeNoLock
  BY <1>2 DEF Finalize, FinalizeNoLock
<1>3. CASE Reorg
  BY <1>3 DEF Reorg
<1>4. CASE Tick
  BY <1>4 DEF Tick
<1> QED
  BY <1>1, <1>2, <1>3, <1>4 DEF WorldNext

\* Offers that are not missing have the deadlines of an offer.
LEMMA OfferTypes ==
  ASSUME TypeOK
  PROVE  /\ now \in Int
         /\ offerA # NoOffer => offerA \in Offer
         /\ offerB # NoOffer => offerB \in Offer
         /\ \A offer \in Offer : offer.refundAfterMs \in Int /\ offer.claimByMs \in Int
BY WorldAssumption DEF TypeOK, WorldTypeOK, Offer

\* The inductive invariant of the theorems on what a finished flow leaves its
\* party with; it holds whatever blocks are replaced.
OrderInv == TypeOK /\ TermsInv /\ LockInv /\ NoteInv

\* Agreed terms stay, a lock was sent under safe terms, and what the records
\* and the receipts say of the note is true.
LEMMA OrderInductive == Spec => []OrderInv
<1>1. Init => TermsInv /\ LockInv /\ NoteInv
  BY DEF Init, WorldInit, SellerInit, BuyerInit, TermsInv, LockInv, NoteInv, SellerFlags,
     BuyerFlags, Paired
<1>2. TypeOK /\ TermsInv /\ LockInv /\ NoteInv /\ [Next]_vars => TermsInv' /\ LockInv' /\ NoteInv'
  <2> SUFFICES ASSUME TypeOK, TermsInv, LockInv, NoteInv, [Next]_vars
               PROVE  TermsInv' /\ LockInv' /\ NoteInv'
    OBVIOUS
  <2>1. CASE SellerNext /\ UNCHANGED buyerVars
    <3>1. SellerMoves /\ SellerMay
      BY <2>1, SellerMovesHold, SellerEffects DEF TypeOK
    <3>2. NoOffer \notin OffersB
      BY WorldAssumption
    <3>3. TermsInv'
      BY <2>1, <3>1, <3>2 DEF SellerMoves, SellerMay, TermsInv, Paired, buyerVars
    <3>4. LockInv'
      <4>1. "lock" \in sent => "secret" \in sRec
        BY DEF LockInv, TermsInv
      <4>2. TermsSafe /\ "lock" \in sent => TermsSafe'
        BY <3>1, <4>1 DEF SellerMoves, SellerMay, TermsSafe
      <4> QED
        BY <2>1, <3>1, <4>2 DEF SellerMoves, SellerMay, LockInv, Paired, buyerVars, chainVars
    <3>5. NoteInv'
      <4>1. RefundBTime /\ "acceptLanded" \in sRec => RefundBTime'
        BY <3>1 DEF TermsInv, SellerMoves, SellerMay, RefundBTime
      <4> QED
        BY <2>1, <3>1, <4>1 DEF SellerMoves, NoteInv, buyerVars
    <3> QED
      BY <3>3, <3>4, <3>5
  <2>2. CASE BuyerNext /\ UNCHANGED sellerVars
    <3>1. BuyerMoves /\ BuyerMay
      BY <2>2, BuyerMovesHold, BuyerEffects DEF TypeOK
    <3>2. NoOffer \notin OffersA
      BY WorldAssumption
    <3>3. TermsInv'
      BY <2>2, <3>1, <3>2 DEF BuyerMoves, BuyerMay, TermsInv, sellerVars
    <3>4. LockInv'
      <4>1. "legALockAttempted" \in bRec => UNCHANGED <<offerA, offerB>>
        BY <3>1 DEF LockInv, TermsInv, BuyerMoves, BuyerMay
      <4>2. checkLockDeadlines => TermsSafe
        BY DEF checkLockDeadlines, checkSwapDeadlines, WellFormed, checkLegInvariants,
           requiredBClaimByMs, TermsSafe
      <4>3. "lock" \in sent' => TermsSafe'
        BY <3>1, <4>1, <4>2 DEF LockInv, BuyerMoves, TermsSafe
      <4> QED
        BY <2>2, <3>1, <4>3 DEF BuyerMoves, BuyerMay, LockInv, chainVars
    <3>5. NoteInv'
      BY <2>2, <3>1 DEF BuyerMoves, BuyerMay, NoteInv, RefundBTime, sellerVars
    <3> QED
      BY <3>3, <3>4, <3>5
  <2>3. CASE WorldNext /\ UNCHANGED <<sellerVars, buyerVars>>
    <3>1. TermsInv' /\ LockInv'
      BY <2>3, WorldMovesHold DEF TermsInv, LockInv, TermsSafe, Paired, sellerVars, buyerVars
    <3>2. sPc["refund"] = "note" => RefundBTime'
      <4>1. now' \in Int
        BY <2>3, WorldStepType DEF TypeOK, WorldTypeOK
      <4> QED
        BY <2>3, <4>1, WorldMovesHold, OfferTypes DEF NoteInv, TermsInv, RefundBTime
    <3> QED
      BY <2>3, <3>1, <3>2, WorldMovesHold DEF NoteInv, sellerVars, buyerVars
  <2>4. CASE UNCHANGED vars
    BY <2>4 DEF vars, worldVars, sellerVars, buyerVars, chainVars, TermsInv, LockInv, NoteInv,
       TermsSafe, RefundBTime, Paired
  <2> QED
    BY <2>1, <2>2, <2>3, <2>4 DEF Next
<1> QED
  BY <1>1, <1>2, TypeCorrect, PTL DEF Spec, OrderInv

\* A Buyer whose flow says it is over has its money, or leg B, whatever blocks
\* are replaced: a lock can only be on the chain once the flow is paired, and
\* "done" needs a verdict at the finalized block or a receipt for leg B
\* (nextStep of buyer.ts).
THEOREM BuyerEndsWhole == Spec => []BuyerWhole
<1>1. FinalityInv /\ OrderInv => BuyerWhole
  <2> SUFFICES ASSUME FinalityInv, OrderInv, BuyerNextStep \in {"done", "abandoned"},
                      headA \notin {"none", "refunded"}
               PROVE  noteB = "claimed"
    BY DEF BuyerWhole
  <2>1. "legALockAttempted" \in bRec /\ Paired
    BY DEF OrderInv, LockInv
  <2>2. offerA # NoOffer
    BY <2>1 DEF OrderInv, TermsInv
  <2>3. "lockNeverLanded" \notin bRec /\ "receipt-refund-a" \notin room
    BY DEF FinalityInv, FinalInv, VerdictInv
  <2>4. legBDone
    BY <2>1, <2>2, <2>3 DEF BuyerNextStep
  <2> QED
    BY <2>4 DEF legBDone, OrderInv, NoteInv
<1> QED
  BY <1>1, FinalityInductive, OrderInductive, PTL

\* Without reorganisations a mined claim stays mined.
LEMMA ClaimStays ==
  ASSUME MaxReorgs = 0, TypeOK, WorldNext, headA = "claimed"
  PROVE  headA' = "claimed"
<1>1. ~Reorg
  BY DEF Reorg, TypeOK, WorldTypeOK
<1> QED
  BY <1>1 DEF WorldNext, MineLock, MineClaim, MineRefund, Finalize, FinalizeNoLock, Tick, chainVars

\* The part of the invariant that a reorganisation could undo.
LEMMA OutlastInductive ==
  ASSUME MaxReorgs = 0
  PROVE  Spec => []OutlastInv
<1>1. Init => OutlastInv
  BY DEF Init, WorldInit, BuyerInit, OutlastInv, BuyerFlags
<1>2. OrderInv /\ OrderInv' /\ PaidInv /\ OutlastInv /\ [Next]_vars => OutlastInv'
  <2> SUFFICES ASSUME OrderInv, OrderInv', PaidInv, OutlastInv, [Next]_vars
               PROVE  OutlastInv'
    OBVIOUS
  <2>1. CASE SellerNext /\ UNCHANGED buyerVars
    <3>1. SellerMoves /\ SellerMay
      BY <2>1, SellerMovesHold, SellerEffects DEF OrderInv, TypeOK
    <3>2. "legALockAttempted" \in bRec => UNCHANGED <<now, offerB>>
      BY <3>1 DEF SellerMoves, SellerMay, OrderInv, LockInv, TermsInv
    <3>3. sPc["refund"] = "note" => RefundBTime
      BY DEF OrderInv, NoteInv
    <3> QED
      BY <2>1, <3>1, <3>2, <3>3 DEF SellerMoves, SellerMay, OrderInv, LockInv, PaidInv,
         OutlastInv, RefundBTime, buyerVars, chainVars
  <2>2. CASE BuyerNext /\ UNCHANGED sellerVars
    <3>1. BuyerMoves /\ BuyerMay
      BY <2>2, BuyerMovesHold, BuyerEffects DEF OrderInv, TypeOK
    <3> QED
      BY <2>2, <3>1 DEF BuyerMoves, BuyerMay, PaidInv, OutlastInv, RefundBTime, chainVars
  <2>3. CASE WorldNext /\ UNCHANGED <<sellerVars, buyerVars>>
    <3>1. headA = "claimed" => headA' = "claimed"
      BY <2>3, ClaimStays DEF OrderInv
    <3>2. "legALockAttempted" \in bRec /\ RefundBTime => RefundBTime'
      <4>1. now' \in Int
        BY DEF OrderInv, TypeOK, WorldTypeOK
      <4> QED
        BY <2>3, <4>1, WorldMovesHold, OfferTypes DEF OrderInv, LockInv, TermsInv, RefundBTime
    <3> QED
      BY <2>3, <3>1, <3>2, WorldMovesHold DEF OrderInv, LockInv, OutlastInv, buyerVars
  <2>4. CASE UNCHANGED vars
    BY <2>4 DEF vars, worldVars, buyerVars, chainVars, OutlastInv, RefundBTime
  <2> QED
    BY <2>1, <2>2, <2>3, <2>4 DEF Next
<1> QED
  BY <1>1, <1>2, OrderInductive, PaidInductive, PTL DEF Spec

\* As long as the Seller may still claim leg A, leg B's note is locked: it was
\* there when the lock was checked, and its refund opens after leg A's
\* (checkLockGuards, beforeFinalSend, rule 3 of checkSwapDeadlines).
LEMMA LegBOutlasts ==
  ASSUME OrderInv, OutlastInv, headA = "locked", ~RefundATime
  PROVE  /\ noteB = "locked"
         /\ now + Policy.finalityAMs <= offerB.claimByMs
<1>1. "lock" \in sent /\ TermsSafe /\ offerA # NoOffer /\ offerB # NoOffer
  BY DEF OrderInv, LockInv, TermsInv
<1>2. Policy.finalityAMs \in Int /\ Policy.finalityAMs >= 0
  BY WorldAssumption DEF DeadlinePolicy, checkPolicy
<1>3. offerA \in Offer /\ offerB \in Offer /\ now \in Int
  BY <1>1, OfferTypes DEF OrderInv
<1>4. /\ now < offerA.refundAfterMs
      /\ now + Policy.finalityAMs <= offerB.claimByMs
      /\ ~RefundBTime
  BY <1>1, <1>2, <1>3 DEF TermsSafe, RefundATime, RefundBTime, Offer
<1> QED
  BY <1>1, <1>4 DEF OutlastInv

\* The same as an invariant, on a chain that does not reorganise.
THEOREM LegBStaysLocked ==
  ASSUME MaxReorgs = 0
  PROVE  Spec => []LegBOutlastsLegA
<1>1. OrderInv /\ OutlastInv => LegBOutlastsLegA
  BY LegBOutlasts DEF LegBOutlastsLegA
<1> QED
  BY <1>1, OrderInductive, OutlastInductive, PTL

\* When leg A's claim is mined the Buyer has the time leg A needs to become
\* final before leg B's claim-by (rule 2 of checkSwapDeadlines).
THEOREM BuyerHasTime ==
  ASSUME MaxReorgs = 0
  PROVE  Spec => ClaimLeavesBuyerTime
<1> DEFINE InTime == headA # "claimed" /\ headA' = "claimed" =>
                       noteB = "locked" /\ now + Policy.finalityAMs <= offerB.claimByMs
<1>1. OrderInv /\ OutlastInv /\ [Next]_vars => [InTime]_vars
  <2> SUFFICES ASSUME OrderInv, OutlastInv, Next, headA # "claimed", headA' = "claimed"
               PROVE  noteB = "locked" /\ now + Policy.finalityAMs <= offerB.claimByMs
    OBVIOUS
  <2>1. MineClaim
    <3>1. CASE SellerNext
      BY <3>1, SellerEffects DEF OrderInv, TypeOK, SellerMay, chainVars
    <3>2. CASE BuyerNext
      BY <3>2, BuyerEffects DEF OrderInv, TypeOK, BuyerMay, chainVars
    <3>3. CASE WorldNext
      BY <3>3, WorldMovesHold DEF OrderInv
    <3> QED
      BY <3>1, <3>2, <3>3 DEF Next
  <2> QED
    BY <2>1, LegBOutlasts DEF MineClaim
<1> QED
  BY <1>1, OrderInductive, OutlastInductive, PTL DEF Spec, ClaimLeavesBuyerTime

\* A posted receipt says what happened, on a chain that does not reorganise: it
\* follows the claim's receipt, the note's own answer, or what the record kept
\* of them over a restart (postReceiptLatched, claimLegB, refundLegB).
THEOREM ReceiptsAreTrue ==
  ASSUME MaxReorgs = 0
  PROVE  Spec => []ReceiptsTruthful
<1>1. OrderInv /\ OutlastInv => ReceiptsTruthful
  BY DEF OrderInv, NoteInv, OutlastInv, ReceiptsTruthful
<1> QED
  BY <1>1, OrderInductive, OutlastInductive, PTL

\* A Seller whose flow says it is over was paid on leg A or has leg B back, and
\* one told to give up has locked nothing, on a chain that does not reorganise
\* (nextStep of seller.ts).
THEOREM SellerEndsWhole ==
  ASSUME MaxReorgs = 0
  PROVE  Spec => []SellerWhole
<1>1. OrderInv /\ OutlastInv => SellerWhole
  <2> SUFFICES ASSUME OrderInv, OutlastInv
               PROVE  SellerWhole
    OBVIOUS
  <2>1. SellerNextStep = "done" => "receipt-a" \in room \/ "receipt-refund-b" \in room
    BY DEF SellerNextStep
  <2>2. SellerNextStep = "abandoned" => "acceptLanded" \notin sRec
    BY DEF SellerNextStep
  <2> QED
    BY <2>1, <2>2 DEF OrderInv, NoteInv, OutlastInv, SellerWhole
<1> QED
  BY <1>1, OrderInductive, OutlastInductive, PTL

=============================================================================
