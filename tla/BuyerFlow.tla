----------------------------- MODULE BuyerFlow -----------------------------
(***************************************************************************)
(* The Buyer's flow with a store (src/client/buyer.ts), on the EVM rail    *)
(* (src/client/evm-rail.ts).  Laid out as SellerFlow is: bRec holds the    *)
(* facts of the Buyer's flow record, bPc how far the call that holds each  *)
(* pending flag has come.  claimLegB and refundLegA share one flag         *)
(* (legBSettlePending).  bHolds is what the runner holds in memory: the    *)
(* secret, once learnSecret returned it.                                   *)
(***************************************************************************)
EXTENDS SwapWorld

VARIABLES bRec, bPc, bHolds

buyerVars == <<bRec, bPc, bHolds>>

BuyerFacts == {"acceptB", "acceptBLanded", "legBVerified",
               "legALockAttempted", "lockEvidence", "lockNeverLanded",
               "legBClaimAttempted", "legBClaimed", "legBClaimAdopted",
               "refundAttempted", "legARefundEvidence", "refundClaimSeen"}

BuyerFlags == {"pair", "lock", "settle"}
BuyerPoints == {"idle", "guard", "accept", "landed",                  \* acceptLegB
                "commit", "wait", "announce",                         \* lockLegA
                "note", "own", "other", "receipt", "seen",            \* claimLegB
                "absence", "recover", "send", "confirm", "refundReceipt"} \* refundLegA

BuyerTypeOK ==
  /\ bRec \subseteq BuyerFacts
  /\ bPc \in [BuyerFlags -> BuyerPoints]
  /\ bHolds \subseteq {"secret"}

BuyerInit ==
  /\ bRec = {}
  /\ bPc = [flag \in BuyerFlags |-> "idle"]
  /\ bHolds = {}

BStep(flag, from, to) ==
  /\ bPc[flag] = from
  /\ bPc' = [bPc EXCEPT ![flag] = to]

BSave(facts) == bRec' = bRec \cup facts
BForget(facts) == bRec' = bRec \ facts

\* requirePaired: accept B landed, or was found to have on resume.
Paired == "acceptBLanded" \in bRec

-----------------------------------------------------------------------------
(* bid and acceptLegB *)

Bid(o) ==
  /\ offerA = NoOffer
  /\ offerA' = o
  /\ Post("offer-a")
  /\ UNCHANGED <<now, offerB, chainVars, sent, noteB, late, buyerVars>>

\* The Seller's two records are checked; the accept is saved before it is
\* posted, and only while leg B's offer has not expired.
AcceptLegB ==
  /\ BStep("pair", "idle", "guard")
  /\ ~Paired
  /\ {"offer-a", "accept-a", "offer-b"} \subseteq room
  /\ "accept-a" \notin late
  /\ PairOk(offerA, offerB)
  /\ "acceptB" \in bRec \/ now < offerB.expiresMs
  /\ BSave({"acceptB"})
  /\ UNCHANGED <<worldVars, bHolds>>

AcceptBGuard ==
  /\ \/ BStep("pair", "guard", "landed") /\ "accept-b" \in room
     \/ BStep("pair", "guard", "accept") /\ "accept-b" \notin room /\ now < offerB.expiresMs
  /\ UNCHANGED <<worldVars, bRec, bHolds>>

PostAcceptB ==
  /\ BStep("pair", "accept", "landed")
  /\ PostStamped("accept-b", offerB.expiresMs)
  /\ UNCHANGED <<now, offerA, offerB, chainVars, sent, noteB, bRec, bHolds>>

\* An accept stamped late throws here, but its ledger entry reads landed.
AcceptBLanded ==
  /\ BStep("pair", "landed", "idle")
  /\ BSave({"acceptBLanded"})
  /\ UNCHANGED <<worldVars, bHolds>>

-----------------------------------------------------------------------------
(* verifyLegBLocked, postAccountLineA, lockLegA and reconcileLockA *)

VerifyLegBLocked ==
  /\ Paired
  /\ noteB = "locked"
  /\ "legBVerified" \notin bRec
  /\ BSave({"legBVerified"})
  /\ UNCHANGED <<worldVars, bPc, bHolds>>

BuyerAccountLine ==
  /\ Paired
  /\ "account-buyer" \notin room
  /\ "legALockAttempted" \notin bRec
  /\ Post("account-buyer")
  /\ UNCHANGED <<now, offerA, offerB, chainVars, sent, noteB, late, buyerVars>>

\* Leg A may be locked now: the rules hold at this very moment.
checkLockDeadlines ==
  /\ checkSwapDeadlines(offerA, offerB, now, Policy)
  /\ offerA.claimByMs - now >= LockNeedMs

\* What every fresh lock of leg A is checked against.
checkLockGuards ==
  /\ checkLockDeadlines
  /\ noteB = "locked"
  /\ BothAccountLines

MayLockA ==
  /\ Paired
  /\ "lockNeverLanded" \notin bRec
  /\ "legBVerified" \in bRec

\* A lock recorded as landed: only its frame is left to post.
LockLegADone ==
  /\ BStep("lock", "idle", "announce")
  /\ MayLockA
  /\ "lockEvidence" \in bRec
  /\ "lock-a" \notin room /\ ~RefundATime
  /\ UNCHANGED <<worldVars, bRec, bHolds>>

\* The first attempt, saved before anything is sent.
LockLegA ==
  /\ BStep("lock", "idle", "commit")
  /\ MayLockA
  /\ {"lockEvidence", "legALockAttempted"} \cap bRec = {}
  /\ checkLockGuards
  /\ BSave({"legALockAttempted"})
  /\ UNCHANGED <<worldVars, bHolds>>

\* recoverLockA: the escrow is there at the latest block, or at the final one.
RecoverLockAFound ==
  /\ BStep("lock", "idle", "announce")
  /\ MayLockA
  /\ "legALockAttempted" \in bRec /\ "lockEvidence" \notin bRec
  /\ headA # "none"
  /\ BSave({"lockEvidence"})
  /\ UNCHANGED <<worldVars, bHolds>>

\* recoverLockA: the escrow is not there, and the guards of a first lock hold
\* again.  A lock that was sent before stops the call only while its hash is
\* recorded and the node knows it as pending, so a second one may be sent.
RecoverLockA ==
  /\ BStep("lock", "idle", "commit")
  /\ MayLockA
  /\ "legALockAttempted" \in bRec /\ "lockEvidence" \notin bRec
  /\ headA = "none" /\ ~LockFinal
  /\ checkLockGuards
  /\ UNCHANGED <<worldVars, bRec, bHolds>>

\* commitLock: the allowance is set, the deadlines are checked again
\* (beforeFinalSend), and the lock is sent.
SendLock ==
  /\ BStep("lock", "commit", "wait")
  /\ checkLockDeadlines
  /\ headA = "none"
  /\ sent' = sent \cup {"lock"}
  /\ UNCHANGED <<now, offerA, offerB, chainVars, noteB, room, late, bRec, bHolds>>

\* The receipt of the lock, and its Locked event.
LockReceipt ==
  /\ BStep("lock", "wait", "announce")
  /\ headA # "none"
  /\ BSave({"lockEvidence"})
  /\ UNCHANGED <<worldVars, bHolds>>

\* announceLockA: not once the refund of leg A is open.
AnnounceLockA ==
  /\ BStep("lock", "announce", "idle")
  /\ room' = IF RefundATime THEN room ELSE room \cup {"lock-a"}
  /\ UNCHANGED <<now, offerA, offerB, chainVars, sent, noteB, late, bRec, bHolds>>

\* reconcileLockA holds no flag; it may fail between the save and the post.
ReconcileLockA ==
  /\ Paired
  /\ "legALockAttempted" \in bRec
  /\ LockFinal
  /\ ~("lockEvidence" \in bRec /\ ("lock-a" \in room \/ RefundATime))
  /\ BSave({"lockEvidence"})
  /\ room' \in {room} \cup (IF RefundATime THEN {} ELSE {room \cup {"lock-a"}})
  /\ UNCHANGED <<now, offerA, offerB, chainVars, sent, noteB, late, bPc, bHolds>>

-----------------------------------------------------------------------------
(* learnSecret and claimLegB *)

\* From the Seller's reveal frame, or from the claim on the chain.
LearnSecret ==
  /\ Paired
  /\ "legALockAttempted" \in bRec
  /\ "reveal-a" \in room \/ headA = "claimed"
  /\ "secret" \notin bHolds
  /\ bHolds' = bHolds \cup {"secret"}
  /\ UNCHANGED <<worldVars, bRec, bPc>>

legBNoteClaimable == noteB = "locked" /\ now < offerB.refundAfterMs

legBDone ==
  /\ "receipt-b" \in room
  /\ "legBClaimed" \in bRec \/ {"legBClaimAdopted", "refundClaimSeen"} \subseteq bRec

\* The attempt is saved before the note is written.
ClaimLegB ==
  /\ BStep("settle", "idle", IF {"legBClaimed", "legBClaimAdopted"} \cap bRec = {}
                             THEN "note" ELSE "receipt")
  /\ Paired
  /\ "secret" \in bHolds
  /\ IF {"legBClaimed", "legBClaimAdopted"} \cap bRec = {}
     THEN BSave({"legBClaimAttempted"}) ELSE UNCHANGED bRec
  /\ UNCHANGED <<worldVars, bHolds>>

\* paperRail.claim succeeds.
ClaimNoteB ==
  /\ BStep("settle", "note", "own")
  /\ legBNoteClaimable
  /\ noteB' = "claimed"
  /\ UNCHANGED <<now, offerA, offerB, chainVars, sent, room, late, bRec, bHolds>>

\* It refuses: the note reads claimed already, by an attempt that was not saved.
NoteBAlreadyClaimed ==
  /\ BStep("settle", "note", "other")
  /\ noteB = "claimed"
  /\ UNCHANGED <<worldVars, bRec, bHolds>>

\* It refuses, and the note can no longer be claimed: the attempt is void.
NoteBNotClaimable ==
  /\ BStep("settle", "note", "idle")
  /\ noteB # "claimed" /\ ~legBNoteClaimable
  /\ BForget({"legBClaimAttempted"})
  /\ UNCHANGED <<worldVars, bHolds>>

ClaimBSaved ==
  /\ \/ BStep("settle", "own", "receipt") /\ BSave({"legBClaimed"})
     \/ BStep("settle", "other", "receipt") /\ BSave({"legBClaimAdopted"})
  /\ UNCHANGED <<worldVars, bHolds>>

\* The reveal frame and the receipt.
PostReceiptB ==
  /\ BStep("settle", "receipt", IF "legBClaimAdopted" \in bRec THEN "seen" ELSE "idle")
  /\ Post("receipt-b")
  /\ UNCHANGED <<now, offerA, offerB, chainVars, sent, noteB, late, bRec, bHolds>>

\* noteLegAClaimSeen: an adopted claim is closed by leg A's own final claim.
NoteLegAClaimSeen ==
  /\ BStep("settle", "seen", "idle")
  /\ IF finalA = "claimed" THEN BSave({"refundClaimSeen"}) ELSE UNCHANGED bRec
  /\ UNCHANGED <<worldVars, bHolds>>

-----------------------------------------------------------------------------
(* refundLegA *)

\* Leg B must not be this flow's own claim, and an attempt on it whose
\* outcome is not recorded is settled first.
RefundLegA ==
  /\ BStep("settle", "idle",
           IF {"lockEvidence", "legARefundEvidence"} \cap bRec = {} THEN "absence" ELSE "recover")
  /\ Paired
  /\ "legALockAttempted" \in bRec
  /\ "lockNeverLanded" \notin bRec
  /\ RefundATime
  /\ "legBClaimed" \notin bRec
  /\ "receipt-refund-a" \notin room
  /\ IF "legBClaimAttempted" \in bRec /\ "legBClaimAdopted" \notin bRec
     THEN /\ ~legBNoteClaimable
          /\ IF noteB = "claimed" THEN BSave({"legBClaimAdopted"})
                                  ELSE BForget({"legBClaimAttempted"})
     ELSE UNCHANGED bRec
  /\ UNCHANGED <<worldVars, bHolds>>

\* lockAbsence: the escrow is in the finalized block.
LockSeenFinal ==
  /\ BStep("settle", "absence", "recover")
  /\ LockFinal
  /\ BSave({"lockEvidence"})
  /\ UNCHANGED <<worldVars, bHolds>>

\* Mutants: a finalized block before leg A's refund time is believed, and the
\* verdict is not saved.
LockNeverLandedEarly ==
  /\ BStep("settle", "absence", "idle")
  /\ ~LockFinal
  /\ BSave({"lockNeverLanded"})
  /\ UNCHANGED <<worldVars, bHolds>>

LockNeverLandedUnsaved ==
  /\ BStep("settle", "absence", "idle")
  /\ finalA = "absent"
  /\ UNCHANGED <<worldVars, bRec, bHolds>>

\* lockAbsence: it is in no block, and none can hold it any more.
LockNeverLanded ==
  /\ BStep("settle", "absence", "idle")
  /\ finalA = "absent"
  /\ headA = "none"
  /\ BSave({"lockNeverLanded"})
  /\ UNCHANGED <<worldVars, bHolds>>

\* recoverRefundA finds an earlier refund final, or the lock claimed.
RecoverRefundADone ==
  /\ \/ BStep("settle", "recover", "confirm") /\ "legARefundEvidence" \in bRec /\ UNCHANGED bRec
     \/ /\ "refundAttempted" \in bRec /\ "legARefundEvidence" \notin bRec
        /\ \/ /\ BStep("settle", "recover", "confirm")
              /\ finalA = "refunded"
              /\ BSave({"legARefundEvidence"})
           \/ /\ BStep("settle", "recover", "idle")
              /\ finalA = "claimed"
              /\ BSave({"refundClaimSeen"})
  /\ UNCHANGED <<worldVars, bHolds>>

\* A fresh refund: the attempt is saved before it is sent.
RefundAttempt ==
  /\ BStep("settle", "recover", "send")
  /\ "legARefundEvidence" \notin bRec
  /\ "refundAttempted" \in bRec => finalA \notin {"refunded", "claimed"}
  /\ BSave({"refundAttempted"})
  /\ UNCHANGED <<worldVars, bHolds>>

SendRefund ==
  /\ BStep("settle", "send", "wait")
  /\ headA = "locked"
  /\ sent' = sent \cup {"refund"}
  /\ UNCHANGED <<now, offerA, offerB, chainVars, noteB, room, late, bRec, bHolds>>

RefundReceipt ==
  /\ BStep("settle", "wait", "confirm")
  /\ headA = "refunded"
  /\ BSave({"legARefundEvidence"})
  /\ UNCHANGED <<worldVars, bHolds>>

\* The refund failed: what the finalized block says decides.
RefundFailed ==
  /\ \/ /\ BStep("settle", "send", "confirm") \/ BStep("settle", "wait", "confirm")
        /\ finalA = "refunded"
        /\ BSave({"legARefundEvidence"})
     \/ /\ BStep("settle", "send", "idle") \/ BStep("settle", "wait", "idle")
        /\ finalA = "claimed"
        /\ BSave({"refundClaimSeen"})
  /\ UNCHANGED <<worldVars, bHolds>>

\* Only the finalized block makes a refund reportable.
ConfirmRefund ==
  /\ \/ BStep("settle", "confirm", "idle") /\ finalA = "claimed" /\ BSave({"refundClaimSeen"})
     \/ BStep("settle", "confirm", "refundReceipt") /\ finalA = "refunded" /\ UNCHANGED bRec
  /\ UNCHANGED <<worldVars, bHolds>>

\* The refund frame and the receipt.
PostReceiptRefundA ==
  /\ BStep("settle", "refundReceipt", "idle")
  /\ Post("receipt-refund-a")
  /\ UNCHANGED <<now, offerA, offerB, chainVars, sent, noteB, late, bRec, bHolds>>

-----------------------------------------------------------------------------
\* A call throws.
BuyerThrows(flag) ==
  /\ bPc[flag] # "idle"
  /\ bPc' = [bPc EXCEPT ![flag] = "idle"]
  /\ UNCHANGED <<worldVars, bRec, bHolds>>

\* The process is gone; a new one resumes from the record alone.
BuyerRestarts ==
  /\ bHolds # {} \/ \E flag \in BuyerFlags : bPc[flag] # "idle"
  /\ bPc' = [flag \in BuyerFlags |-> "idle"]
  /\ bHolds' = {}
  /\ UNCHANGED <<worldVars, bRec>>

\* What the flow says should be called next.
BuyerNextStep ==
  LET claiming == IF legBDone THEN "done" ELSE "learnSecret" IN
  IF offerA = NoOffer THEN "bid"
  ELSE IF ~Paired
  THEN IF "acceptB" \in bRec /\ now >= offerB.expiresMs THEN "abandoned" ELSE "acceptLegB"
  ELSE IF {"legBVerified", "legALockAttempted"} \cap bRec = {} /\ "accept-b" \in late
  THEN "abandoned"
  ELSE IF "lockNeverLanded" \in bRec THEN "done"
  ELSE IF "refundAttempted" \in bRec
  THEN IF "receipt-refund-a" \in room THEN "done"
       ELSE IF {"refundClaimSeen", "legBClaimed"} \cap bRec # {} THEN claiming ELSE "refundLegA"
  ELSE IF "legBVerified" \notin bRec THEN "verifyLegBLocked"
  ELSE IF "account-buyer" \notin room THEN "postAccountLineA"
  ELSE IF {"refundClaimSeen", "legBClaimed"} \cap bRec # {} THEN claiming
  ELSE IF "lockEvidence" \notin bRec \/ "lock-a" \notin room
  THEN IF "legALockAttempted" \in bRec /\ RefundATime THEN "refundLegA" ELSE "lockLegA"
  ELSE IF "legBClaimAttempted" \in bRec THEN claiming ELSE "learnSecret"

\* The steps that carry on a call that holds its flag.
BuyerContinues ==
  \/ AcceptBGuard \/ PostAcceptB \/ AcceptBLanded
  \/ SendLock \/ LockReceipt \/ AnnounceLockA
  \/ ClaimNoteB \/ NoteBAlreadyClaimed \/ NoteBNotClaimable \/ ClaimBSaved
  \/ PostReceiptB \/ NoteLegAClaimSeen
  \/ LockSeenFinal \/ LockNeverLanded \/ RecoverRefundADone \/ RefundAttempt
  \/ SendRefund \/ RefundReceipt \/ RefundFailed \/ ConfirmRefund \/ PostReceiptRefundA

BuyerNext ==
  \/ \E o \in OffersA : Bid(o)
  \/ AcceptLegB
  \/ VerifyLegBLocked \/ BuyerAccountLine
  \/ LockLegADone \/ LockLegA \/ RecoverLockAFound \/ RecoverLockA \/ ReconcileLockA
  \/ LearnSecret \/ ClaimLegB
  \/ RefundLegA
  \/ BuyerContinues
  \/ \E flag \in BuyerFlags : BuyerThrows(flag)
  \/ BuyerRestarts

=============================================================================
