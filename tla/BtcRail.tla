------------------------------ MODULE BtcRail ------------------------------
(***************************************************************************)
(* Leg A on Bitcoin: the P2WSH script's spends, the node's mempool, the    *)
(* rail (src/rails/btc-htlc.ts, src/client/btc-rail.ts), and what the      *)
(* flows do differently on it: a lock and a claim count as sent, not as    *)
(* mined, and what was signed once is sent again as it is, never replaced  *)
(* (lockLegA, recoverLockA, refundLegA, recoverRefundA of buyer.ts;        *)
(* claimLegA, resumeBtcClaim, resendUnknownClaim, settleBtcClaim of        *)
(* seller.ts).                                                             *)
(***************************************************************************)
EXTENDS LegWorld

\* recoverFunding: the node has the transaction, in a block or not.
BtcKnown(tx) == tx \in pool \cup head.done

\* A claim with the secret is in the mempool or in a block.
BtcClaimKnown == \E tx \in pool \cup head.done : tx.kind = "claim"

\* gettxout on the funding output, the mempool included.
BtcUnspent ==
  /\ BtcKnown(bRec.lock)
  /\ \A tx \in pool \cup head.done : tx.kind = "lock"

-----------------------------------------------------------------------------
(* The chain *)

BtcConfirms(tx, leg) ==
  /\ tx \in handed
  /\ head' = [head EXCEPT !.leg = leg, !.shown = @ \/ tx.kind = "claim", !.done = @ \cup {tx}]
  /\ pool' = {other \in pool : other.kind # tx.kind
                             /\ (tx.kind = "lock" \/ other.kind = "lock")}
  /\ UNCHANGED faults
  /\ ChainOnly

\* A block takes the funding or one spend of it, whether or not this node
\* still has it: the claim at any time, the refund from its lock time on.
BtcMine(tx) ==
  \/ tx.kind = "lock" /\ head.leg = "none" /\ BtcConfirms(tx, "locked")
  \/ tx.kind = "claim" /\ head.leg = "locked" /\ BtcConfirms(tx, "claimed")
  \/ /\ tx.kind = "refund" /\ head.leg = "locked" /\ now >= RefundAfter
     /\ BtcConfirms(tx, "refunded")

-----------------------------------------------------------------------------
(* broadcastOrThrow: testmempoolaccept, then sendrawtransaction *)

BtcAcceptable(tx) ==
  IF tx.kind = "lock" THEN head.leg = "none"
  ELSE BtcUnspent /\ (tx.kind = "refund" => now >= RefundAfter)

\* A transaction the node has already counts as sent.
BtcAccepted(tx) ==
  \/ BtcKnown(tx) /\ SendsNothing
  \/ ~BtcKnown(tx) /\ BtcAcceptable(tx) /\ Hand(tx) /\ UNCHANGED faults

\* The node refuses it: for these reasons, or for one of its own (its fees).
BtcRefused(tx) ==
  /\ ~BtcKnown(tx)
  /\ IF BtcAcceptable(tx) THEN Fault ELSE UNCHANGED faults
  /\ UNCHANGED <<pool, handed>>

\* The node has it, but its answer is lost: the call throws, not knowing.
BtcAnswerLost(tx) == ~BtcKnown(tx) /\ BtcAcceptable(tx) /\ Hand(tx) /\ Fault

-----------------------------------------------------------------------------
(* lockLegA and recoverLockA *)

\* prepareLock: the wallet builds and signs one funding transaction.
BtcLock == MaySign("lock") /\ PrepareLock(NextTx("lock", MaxTime))

\* Mutant: a lock the node does not know is prepared anew.
BtcRelock ==
  /\ BGo("idle", "lock")
  /\ bRec.attempted /\ ~bRec.locked /\ ~BtcKnown(bRec.lock)
  /\ MayLock
  /\ MaySign("lock")
  /\ BSet([bRec EXCEPT !.lock = NextTx("lock", MaxTime)])
  /\ UNCHANGED bSaw
  /\ BLocal

\* recoverLock: landed is all that it answers of a transaction it knows; one
\* it does not know is sent again, under the guards of a first lock, because a
\* fresh one has another outpoint, which recoverLockA refuses.
BtcRecoverLock ==
  /\ bRec.attempted /\ ~bRec.locked
  /\ \/ /\ BtcKnown(bRec.lock)
        /\ BGo("idle", "idle")
        /\ BSet([bRec EXCEPT !.locked = TRUE])
     \/ ~BtcKnown(bRec.lock) /\ MayLock /\ BGo("idle", "lock") /\ UNCHANGED bRec
  /\ UNCHANGED bSaw
  /\ BLocal

\* commitLock and resendLock: the lock counts once a node has accepted it.
BtcSendLock ==
  /\ BGo("lock", "idle")
  /\ \/ BtcAccepted(bRec.lock) /\ BSet([bRec EXCEPT !.locked = TRUE])
     \/ (BtcRefused(bRec.lock) \/ BtcAnswerLost(bRec.lock)) /\ UNCHANGED bRec
  /\ UNCHANGED bSaw
  /\ BSends

-----------------------------------------------------------------------------
(* refundLegA and recoverRefundA *)

\* checkPendingClaim sees a claim in the mempool too.
BtcRefundLegA == RefundLegA(BtcClaimKnown, "ifDropped")

\* recoverRefund: what the node says of the recorded refund, and of the
\* output it would spend.
BtcRecoverRefund ==
  /\ \/ bRec.refund = NoTx /\ BGo("recover", "observe") /\ bSaw' = Saw("refund", "no handle", 0)
     \/ /\ bRec.refund # NoTx
        /\ ~BtcKnown(bRec.refund) /\ BtcUnspent
        /\ BGo("recover", "resend") /\ UNCHANGED bSaw
     \/ /\ bRec.refund # NoTx
        /\ BtcKnown(bRec.refund) \/ ~BtcUnspent
        /\ BGo("recover", "observe") /\ bSaw' = Saw("refund", "never-landed", 0)
  /\ UNCHANGED bRec
  /\ BLocal

\* resendRefund: the same bytes, if the output is still there.
BtcResendRefund ==
  /\ \/ /\ BGo("resend", "observe") /\ bSaw' = Saw("refund", "never-landed", 0)
        /\ \/ BtcAccepted(bRec.refund)
           \/ ~BtcKnown(bRec.refund) /\ ~BtcUnspent /\ SendsNothing
     \/ /\ BGo("resend", "idle") /\ UNCHANGED bSaw
        /\ BtcUnspent
        /\ BtcRefused(bRec.refund) \/ BtcAnswerLost(bRec.refund)
  /\ UNCHANGED bRec
  /\ BSends

\* Mutant: the attempt is not on record when the refund is signed.
BtcSignRefundUnnoted ==
  /\ BGo("sign", "send") /\ BtcKnown(bRec.lock) /\ MaySign("refund")
  /\ BSet([bRec EXCEPT !.refund = NextTx("refund", MaxTime)])
  /\ UNCHANGED bSaw
  /\ BLocal

\* The attempt is saved, then the signed refund, before it is sent; the
\* funding must be known for one to be built.
BtcSignRefund ==
  /\ \/ /\ BGo("sign", "send") /\ BtcKnown(bRec.lock) /\ MaySign("refund")
        /\ BSet([bRec EXCEPT !.refunding = TRUE, !.refund = NextTx("refund", MaxTime)])
     \/ /\ BGo("sign", "failed") /\ ~BtcKnown(bRec.lock)
        /\ BSet([bRec EXCEPT !.refunding = TRUE])
  /\ UNCHANGED bSaw
  /\ BLocal

\* The refund counts once the node has accepted it; one that was refused
\* (onNotBroadcast) is forgotten, one whose answer was lost is not.
BtcSendRefund ==
  /\ \/ /\ BGo("send", "verify") /\ BtcAccepted(bRec.refund)
        /\ BSet([bRec EXCEPT !.refunded = TRUE])
     \/ /\ BGo("send", "failed") /\ BtcRefused(bRec.refund)
        /\ BSet([bRec EXCEPT !.refund = NoTx])
     \/ BGo("send", "failed") /\ BtcAnswerLost(bRec.refund) /\ UNCHANGED bRec
  /\ UNCHANGED bSaw
  /\ BSends

\* Mutant: a refund that counts as sent is not looked after.
BtcKeepsRefund ==
  /\ BGo("ifDropped", "verify")
  /\ UNCHANGED <<bRec, bSaw>>
  /\ BLocal

\* resendRefundIfDropped: a refund that counts as sent is sent again while its
\* output is unspent.
BtcResendIfDropped ==
  /\ \/ /\ BGo("ifDropped", "verify")
        /\ IF ~BtcKnown(bRec.refund) /\ BtcUnspent THEN BtcAccepted(bRec.refund)
                                                   ELSE SendsNothing
     \/ /\ BGo("ifDropped", "idle") /\ BtcUnspent
        /\ BtcRefused(bRec.refund) \/ BtcAnswerLost(bRec.refund)
  /\ UNCHANGED <<bRec, bSaw>>
  /\ BSends

-----------------------------------------------------------------------------
(* claimLegA *)

BtcClaim == CHOOSE tx \in sRec.claims : TRUE

\* walletKnowsTransaction: the node once took the recorded claim.
BtcWalletKnows == sRec.claims \cap handed # {}

\* No claim is recorded: the first-claim guards.
BtcClaimLegA ==
  /\ SGo("idle", "sign")
  /\ ~sRec.landed /\ sRec.claims = {} /\ ~BtcClaimKnown
  /\ FirstClaimGuards
  /\ UNCHANGED <<sRec, sSaw>>
  /\ SLocal

\* The times again; the attempt is saved, the claim signed and saved.
BtcSignClaim ==
  /\ SGo("sign", "send")
  /\ ClaimTimes
  /\ MaySign("claim")
  /\ SSet([sRec EXCEPT !.attempted = TRUE, !.claims = {NextTx("claim", MaxTime)}])
  /\ UNCHANGED sSaw
  /\ SLocal

\* The last time to send at, then the broadcast.  What was provably not sent
\* is forgotten.
BtcSendClaim ==
  /\ \/ /\ now < NotAfter
        /\ \/ /\ SGo("send", "settle") /\ BtcAccepted(BtcClaim)
              /\ SSet([sRec EXCEPT !.sent = TRUE])
           \/ /\ SGo("send", "idle") /\ BtcRefused(BtcClaim)
              /\ SSet([sRec EXCEPT !.claims = {}])
           \/ SGo("send", "idle") /\ BtcAnswerLost(BtcClaim) /\ UNCHANGED sRec
     \/ /\ now >= NotAfter
        /\ SGo("send", "idle") /\ SSet([sRec EXCEPT !.claims = {}])
        /\ SendsNothing
  /\ UNCHANGED sSaw
  /\ SSends

\* resumeBtcClaim: the claim is there, or it is gone and its output is not
\* spent, or another transaction has spent it (ClaimSupersededError).
BtcResumeClaim ==
  /\ sRec.attempted /\ ~sRec.landed
  /\ \/ BtcClaimKnown /\ SGo("idle", "settle") /\ SSet([sRec EXCEPT !.sent = @ \/ sRec.claims # {}])
     \/ /\ ~BtcClaimKnown /\ sRec.claims # {} /\ BtcUnspent
        /\ SGo("idle", "resend") /\ UNCHANGED sRec
     \/ /\ ~BtcClaimKnown /\ BtcWalletKnows /\ ~BtcUnspent
        /\ SGo("idle", "idle") /\ ~sRec.sent /\ SSet([sRec EXCEPT !.sent = TRUE])
  /\ UNCHANGED sSaw
  /\ SLocal

\* The claim's secret is out already: leg B was taken with it.
LegBTaken == note = "claimed"

\* A claim that was sent, or that the wallet has seen, is out as well.
MayBeOut == sRec.sent \/ BtcWalletKnows

\* resendUnknownClaim.
BtcMayResend == LegBTaken \/ (now < NotAfter /\ (MayBeOut \/ FirstClaimGuards))

BtcResendClaim ==
  /\ BtcMayResend
  /\ \/ /\ SGo("resend", "settle") /\ BtcAccepted(BtcClaim)
        /\ SSet([sRec EXCEPT !.sent = TRUE])
     \/ /\ SGo("resend", "idle") /\ (BtcRefused(BtcClaim) \/ BtcAnswerLost(BtcClaim))
        /\ SSet([sRec EXCEPT !.sent = MayBeOut])
  /\ UNCHANGED sSaw
  /\ SSends

BtcResendTooLate ==
  /\ SGo("resend", "idle")
  /\ ~BtcMayResend
  /\ SSet([sRec EXCEPT !.sent = MayBeOut])
  /\ UNCHANGED sSaw
  /\ SLocal

\* settleBtcClaim: the reveal frame (a runner may ask for none); the claim is
\* recorded as landed only once a block holds it.
BtcReveal ==
  /\ SGo("settle", "mined?")
  /\ MayReveal
  /\ UNCHANGED <<rail, now, note, chainView, faults, sRec, sSaw, buyerSide>>

BtcClaimIsMined ==
  /\ SGo("mined?", "idle")
  /\ IF head.leg = "claimed" THEN SSet([sRec EXCEPT !.landed = TRUE]) ELSE UNCHANGED sRec
  /\ UNCHANGED sSaw
  /\ SLocal

-----------------------------------------------------------------------------

BtcBuyer ==
  \/ BtcLock \/ BtcRecoverLock \/ BtcSendLock
  \/ BtcRefundLegA \/ BtcRecoverRefund \/ BtcResendRefund \/ RecoverRefundA
  \/ BtcSignRefund \/ BtcSendRefund \/ RefundFailed
  \/ BtcResendIfDropped \/ ReportRefund

BtcSeller ==
  \/ BtcClaimLegA \/ BtcSignClaim \/ BtcSendClaim
  \/ BtcResumeClaim \/ BtcResendClaim \/ BtcResendTooLate
  \/ BtcReveal \/ BtcClaimIsMined

BtcTakeLegB == TakeLegB("reveal" \in room \/ BtcClaimKnown)

BtcNext ==
  \/ BtcBuyer \/ BtcSeller \/ BtcTakeLegB
  \/ \E tx \in handed : BtcMine(tx)
  \/ Fork \/ Evict

=============================================================================
