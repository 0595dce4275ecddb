----------------------------- MODULE SellerFlow -----------------------------
(***************************************************************************)
(* The Seller's flow with a store (src/client/seller.ts), on the EVM rail. *)
(*                                                                         *)
(* sRec is the Seller's flow record as a set of the facts that were saved: *)
(* the code keeps the same values in memory and saves them in the same     *)
(* step, and a save that fails makes the flow unusable until it is         *)
(* resumed from the store.  Every operation that is an action sequence     *)
(* here is guarded in the code by a pending flag of its own; sPc says for  *)
(* each flag how far the call that holds it has come.  A step ends where   *)
(* the code has saved something or has done something others can see, so a *)
(* crash, a throw or the other party's steps fall between any two of them. *)
(* SellerThrows is the exception, the lost connection or the restart after *)
(* which the call is made again from the top.  A call that finds nothing   *)
(* left to save, send or post is not a step.                               *)
(*                                                                         *)
(* What the records of frames, the signatures and the accounts contain is  *)
(* abstracted: both parties follow the protocol, so the checks of a        *)
(* frame's text, sender and contract id pass.                              *)
(***************************************************************************)
EXTENDS SwapWorld

VARIABLES sRec, sPc

sellerVars == <<sRec, sPc>>

SellerFacts == {"secret", "acceptLanded", "attemptedAcceptB", "lockedLegB",
                "claimAttempted", "claimLanded",
                "legBRefundAttempted", "legBRefundDone", "legBClaimSeen"}

\* The pending flags, and how far the call that holds one may have come.
SellerFlags == {"accept", "lock", "claim", "refund"}
SellerPoints == {"idle", "guard", "accept", "offer", "landed",        \* acceptLegA
                 "note", "noted", "frame",                            \* lockLegB
                 "verified", "send", "wait", "reveal", "receipt",     \* claimLegA
                 "refunded"}                                          \* refundLegB

SellerTypeOK == sRec \subseteq SellerFacts /\ sPc \in [SellerFlags -> SellerPoints]

SellerInit ==
  /\ sRec = {}
  /\ sPc = [flag \in SellerFlags |-> "idle"]

\* A step of the call that holds a flag: it stood at one point and moves on.
SStep(flag, from, to) ==
  /\ sPc[flag] = from
  /\ sPc' = [sPc EXCEPT ![flag] = to]

SSave(facts) == sRec' = sRec \cup facts

-----------------------------------------------------------------------------
(* acceptLegA *)

offerAExpired == now + OfferExpiryMs >= offerA.expiresMs

\* Mutant: the Buyer's terms are taken for leg B.
AcceptLegAMixed(o) ==
  /\ SStep("accept", "idle", "guard")
  /\ "offer-a" \in room /\ "secret" \notin sRec
  /\ PairOk(offerA, o)
  /\ ~offerAExpired
  /\ offerB' = offerA
  /\ SSave({"secret"})
  /\ UNCHANGED <<now, offerA, chainVars, sent, noteB, room, late>>

\* The checks, then the secret is minted and saved before anything is posted.
AcceptLegA(o) ==
  /\ SStep("accept", "idle", "guard")
  /\ "offer-a" \in room
  /\ "secret" \notin sRec
  /\ offerA.refundAfterMs - offerA.claimByMs >= ClaimInclusionMs
  /\ PairOk(offerA, o)
  /\ ~offerAExpired
  /\ offerB' = o
  /\ SSave({"secret"})
  /\ UNCHANGED <<now, offerA, chainVars, sent, noteB, room, late>>

\* The same call on a resumed flow: the saved secret and frames are reused.
AcceptLegAAgain ==
  /\ SStep("accept", "idle", "guard")
  /\ "secret" \in sRec /\ "acceptLanded" \notin sRec
  /\ PairOk(offerA, offerB)
  /\ UNCHANGED <<worldVars, sRec>>

\* The accept is looked for in the room; only a new one is held to the expiry.
AcceptAGuard ==
  /\ \/ SStep("accept", "guard", "offer") /\ "accept-a" \in room
     \/ SStep("accept", "guard", "accept") /\ "accept-a" \notin room /\ ~offerAExpired
  /\ UNCHANGED <<worldVars, sRec>>

PostAcceptA ==
  /\ SStep("accept", "accept", "offer")
  /\ PostStamped("accept-a", offerA.expiresMs)
  /\ UNCHANGED <<now, offerA, offerB, chainVars, sent, noteB, sRec>>

PostOfferB ==
  /\ SStep("accept", "offer", "landed")
  /\ Post("offer-b")
  /\ UNCHANGED <<now, offerA, offerB, chainVars, sent, noteB, late, sRec>>

AcceptLanded ==
  /\ SStep("accept", "landed", "idle")
  /\ SSave({"acceptLanded"})
  /\ UNCHANGED worldVars

-----------------------------------------------------------------------------
(* postAccountLineA, lockLegB and reconcileLegB *)

SellerAccountLine ==
  /\ "acceptLanded" \in sRec
  /\ "account-seller" \notin room
  /\ "lock-a" \notin room
  /\ Post("account-seller")
  /\ UNCHANGED <<now, offerA, offerB, chainVars, sent, noteB, late, sellerVars>>

\* The accept is saved as attempted before the note is written.  An accept
\* stamped at or after the offer's expiry is refused, unless attempted.
LockLegB ==
  /\ SStep("lock", "idle", IF "lockedLegB" \in sRec THEN "frame" ELSE "note")
  /\ ~("lockedLegB" \in sRec /\ "lock-b" \in room)
  /\ "acceptLanded" \in sRec
  /\ "accept-b" \in room
  /\ "attemptedAcceptB" \in sRec \/ "accept-b" \notin late
  /\ SSave({"attemptedAcceptB"})
  /\ UNCHANGED worldVars

\* paperRail.lock, set-if-absent; a note already locked under these terms is ours.
WriteNoteB ==
  /\ SStep("lock", "note", "noted")
  /\ noteB \in {"none", "locked"}
  /\ noteB' = "locked"
  /\ UNCHANGED <<now, offerA, offerB, chainVars, sent, room, late, sRec>>

NoteBSaved ==
  /\ SStep("lock", "noted", "frame")
  /\ SSave({"lockedLegB"})
  /\ UNCHANGED worldVars

PostLockB ==
  /\ SStep("lock", "frame", "idle")
  /\ Post("lock-b")
  /\ UNCHANGED <<now, offerA, offerB, chainVars, sent, noteB, late, sRec>>

\* reconcileLegB holds no flag; it may fail between the save and the post.
ReconcileLegB ==
  /\ "attemptedAcceptB" \in sRec
  /\ noteB = "locked"
  /\ ~("lockedLegB" \in sRec /\ "lock-b" \in room)
  /\ SSave({"lockedLegB"})
  /\ room' \in {room, room \cup {"lock-b"}}
  /\ UNCHANGED <<now, offerA, offerB, chainVars, sent, noteB, late, sPc>>

-----------------------------------------------------------------------------
(* claimLegA *)

\* What a claim sent now still has before the Buyer may refund.
ClaimInTime ==
  /\ now < offerA.claimByMs
  /\ offerA.refundAfterMs - now >= ClaimInclusionMs

\* Mutants: an attempt is taken for a landed claim, the lock is verified at
\* the latest block, and a claim counts once it is sent.
ClaimLegAAssumed ==
  /\ SStep("claim", "idle", "reveal")
  /\ "acceptLanded" \in sRec
  /\ "claimAttempted" \in sRec /\ "claimLanded" \notin sRec
  /\ SSave({"claimLanded"})
  /\ UNCHANGED worldVars

ClaimLegAUnfinal ==
  /\ SStep("claim", "idle", "verified")
  /\ "acceptLanded" \in sRec /\ "claimLanded" \notin sRec
  /\ "claimAttempted" \in sRec => headA # "claimed"
  /\ BothAccountLines
  /\ ClaimInTime
  /\ headA = "locked"
  /\ UNCHANGED <<worldVars, sRec>>

ClaimReceiptUnconfirmed ==
  /\ SStep("claim", "wait", "reveal")
  /\ SSave({"claimLanded"})
  /\ UNCHANGED worldVars

\* A claim recorded as landed: only its frames are left to post.
ClaimLegALanded ==
  /\ SStep("claim", "idle", "reveal")
  /\ "acceptLanded" \in sRec /\ "claimLanded" \in sRec
  /\ ~({"reveal-a", "receipt-a"} \subseteq room)
  /\ UNCHANGED <<worldVars, sRec>>

\* An earlier attempt is found on the chain, at the latest block.
ClaimLegAFound ==
  /\ SStep("claim", "idle", "reveal")
  /\ "acceptLanded" \in sRec
  /\ "claimAttempted" \in sRec /\ "claimLanded" \notin sRec
  /\ headA = "claimed"
  /\ SSave({"claimLanded"})
  /\ UNCHANGED worldVars

\* The first-claim guards: in time, and leg A's lock is final.  A claim that
\* was sent before stops the call only while its hash is recorded and the
\* node knows it as pending, so it may be sent again: the call throws or not.
ClaimLegA ==
  /\ SStep("claim", "idle", "verified")
  /\ "acceptLanded" \in sRec /\ "claimLanded" \notin sRec
  /\ "claimAttempted" \in sRec => headA # "claimed"
  /\ BothAccountLines
  /\ ClaimInTime
  /\ finalA = "locked"
  /\ UNCHANGED <<worldVars, sRec>>

\* The times once more; the attempt is saved before the claim is sent.
ClaimAttempt ==
  /\ SStep("claim", "verified", "send")
  /\ ClaimInTime
  /\ SSave({"claimAttempted"})
  /\ UNCHANGED worldVars

\* EvmHtlcRail.claim: what the contract would check, the last time to send at,
\* and the broadcast, which makes the secret public.
SendClaim ==
  /\ SStep("claim", "send", "wait")
  /\ headA = "locked"
  /\ now < offerA.refundAfterMs - ClaimInclusionMs
  /\ sent' = sent \cup {"claim"}
  /\ UNCHANGED <<now, offerA, offerB, chainVars, noteB, room, late, sRec>>

ClaimReceipt ==
  /\ SStep("claim", "wait", "reveal")
  /\ headA = "claimed"
  /\ SSave({"claimLanded"})
  /\ UNCHANGED worldVars

\* A runner may ask for no reveal frame (skipReveal).
PostRevealA ==
  /\ SStep("claim", "reveal", "receipt")
  /\ room' \in {room, room \cup {"reveal-a"}}
  /\ UNCHANGED <<now, offerA, offerB, chainVars, sent, noteB, late, sRec>>

PostReceiptA ==
  /\ SStep("claim", "receipt", "idle")
  /\ Post("receipt-a")
  /\ UNCHANGED <<now, offerA, offerB, chainVars, sent, noteB, late, sRec>>

-----------------------------------------------------------------------------
(* refundLegB *)

RefundLegB ==
  /\ SStep("refund", "idle", IF "legBRefundDone" \in sRec THEN "receipt" ELSE "note")
  /\ "receipt-refund-b" \notin room
  /\ "acceptLanded" \in sRec
  /\ RefundBTime
  /\ "lockedLegB" \in sRec
  /\ \/ "legBRefundDone" \in sRec /\ UNCHANGED sRec
     \/ /\ "legBRefundDone" \notin sRec /\ "legBClaimSeen" \notin sRec
        /\ SSave({"legBRefundAttempted"})
  /\ UNCHANGED worldVars

\* Mutants: the note is not read after paperRail.refund refused, so a claimed
\* one passes for refunded, or an earlier refund is not recognised.
RefundNoteBUnread ==
  /\ SStep("refund", "note", "refunded")
  /\ noteB' = IF noteB = "locked" THEN "refunded" ELSE noteB
  /\ UNCHANGED <<now, offerA, offerB, chainVars, sent, room, late, sRec>>

RefundNoteBOnce ==
  /\ SStep("refund", "note", "refunded")
  /\ noteB = "locked"
  /\ noteB' = "refunded"
  /\ UNCHANGED <<now, offerA, offerB, chainVars, sent, room, late, sRec>>

\* paperRail.refund, or the note is read after it refused.
RefundNoteB ==
  /\ SStep("refund", "note", "refunded")
  /\ noteB \in {"locked", "refunded"}
  /\ noteB' = "refunded"
  /\ UNCHANGED <<now, offerA, offerB, chainVars, sent, room, late, sRec>>

\* The Buyer took leg B: there is no refund, and leg A is there to be claimed.
NoteBClaimed ==
  /\ SStep("refund", "note", "idle")
  /\ noteB = "claimed"
  /\ sRec' = (sRec \ {"legBRefundAttempted"}) \cup {"legBClaimSeen"}
  /\ UNCHANGED worldVars

RefundBSaved ==
  /\ SStep("refund", "refunded", "receipt")
  /\ SSave({"legBRefundDone"})
  /\ UNCHANGED worldVars

\* The refund frame and the receipt.
PostReceiptRefundB ==
  /\ SStep("refund", "receipt", "idle")
  /\ Post("receipt-refund-b")
  /\ UNCHANGED <<now, offerA, offerB, chainVars, sent, noteB, late, sRec>>

-----------------------------------------------------------------------------
\* A call throws, or the process is gone: the flag is free, the record stays.
SellerThrows(flag) ==
  /\ sPc[flag] # "idle"
  /\ sPc' = [sPc EXCEPT ![flag] = "idle"]
  /\ UNCHANGED <<worldVars, sRec>>

\* What the flow says should be called next.
SellerNextStep ==
  CASE "secret" \notin sRec -> "acceptLegA"
    [] "secret" \in sRec /\ "acceptLanded" \notin sRec ->
         IF "accept-a" \notin room /\ offerAExpired THEN "abandoned" ELSE "acceptLegA"
    [] OTHER ->
         IF "legBClaimSeen" \in sRec
         THEN IF "receipt-a" \in room THEN "done" ELSE "claimLegA"
         ELSE IF {"legBRefundAttempted", "legBRefundDone"} \cap sRec # {}
         THEN IF "receipt-refund-b" \in room THEN "done" ELSE "refundLegB"
         ELSE LET lockFinished == "lockedLegB" \in sRec /\ "lock-b" \in room IN
              IF "attemptedAcceptB" \in sRec /\ ~lockFinished THEN "lockLegB"
              ELSE IF "account-seller" \notin room THEN "postAccountLineA"
              ELSE IF ~lockFinished THEN "lockLegB"
              ELSE IF "receipt-a" \in room THEN "done" ELSE "claimLegA"

\* The steps that carry on a call that holds its flag.
SellerContinues ==
  \/ AcceptAGuard \/ PostAcceptA \/ PostOfferB \/ AcceptLanded
  \/ WriteNoteB \/ NoteBSaved \/ PostLockB
  \/ ClaimAttempt \/ SendClaim \/ ClaimReceipt \/ PostRevealA \/ PostReceiptA
  \/ RefundNoteB \/ NoteBClaimed \/ RefundBSaved \/ PostReceiptRefundB

SellerNext ==
  \/ \E o \in OffersB : AcceptLegA(o)
  \/ AcceptLegAAgain
  \/ SellerAccountLine
  \/ LockLegB \/ ReconcileLegB
  \/ ClaimLegALanded \/ ClaimLegAFound \/ ClaimLegA
  \/ RefundLegB
  \/ SellerContinues
  \/ \E flag \in SellerFlags : SellerThrows(flag)

=============================================================================
