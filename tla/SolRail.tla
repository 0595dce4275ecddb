------------------------------ MODULE SolRail ------------------------------
(***************************************************************************)
(* Leg A on Solana: transactions that are valid for a number of blocks,    *)
(* the rail (src/rails/sol-htlc.ts, src/client/sol-rail.ts) and the flows  *)
(* on it.  (SolHtlc has the program.)  A sent transaction is waited for    *)
(* until it is final, or until the final height is past its last block.    *)
(* The Seller's claims are all recorded before they are sent: one that     *)
(* never landed may have been seen, and one that failed has published the  *)
(* secret.                                                                 *)
(***************************************************************************)
EXTENDS LegWorld

SolNext(kind) == NextTx(kind, now + ValidFor)
SolMaySign(kind) == MaySign(kind) /\ now + ValidFor <= MaxTime
SolHand(tx) == handed' = handed \cup {tx} /\ UNCHANGED <<pool, faults>>

\* blockhashPlan: the last block on record is never earlier than the true one,
\* whatever the node reports.
SolLastValid(tx) == tx.until

\* awaitFinalized, recoverBySignature: no status, and the finalized height is
\* past the last block.
SolExpired(tx) == tx \notin Included(head) /\ now - 1 > SolLastValid(tx)

-----------------------------------------------------------------------------
(* The chain *)

SolAllows(tx) ==
  CASE tx.kind = "lock" -> head.leg = "none" /\ now < RefundAfter
    [] tx.kind = "claim" -> head.leg = "locked" /\ now < RefundAfter
    [] tx.kind = "refund" -> head.leg = "locked" /\ now >= RefundAfter

\* A leader may put a transaction into a block while its blockhash is known.
SolMayLand(tx) == tx \notin Included(head) /\ now <= tx.until

SolLand(tx) ==
  /\ SolMayLand(tx) /\ SolAllows(tx)
  /\ head' = [head EXCEPT !.leg = CASE tx.kind = "lock" -> "locked" [] tx.kind = "claim" -> "claimed"
                                    [] tx.kind = "refund" -> "refunded",
                          !.shown = @ \/ tx.kind = "claim", !.done = @ \cup {tx}]
  /\ UNCHANGED <<pool, faults>>
  /\ ChainOnly

\* The program refuses it, or an account is frozen: it is in a block and
\* changes nothing, but what it carries is public.
SolLandFailed(tx) ==
  /\ SolMayLand(tx)
  /\ IF SolAllows(tx) THEN Fault ELSE UNCHANGED faults
  /\ head' = [head EXCEPT !.shown = @ \/ tx.kind = "claim", !.failed = @ \cup {tx}]
  /\ UNCHANGED pool
  /\ ChainOnly

-----------------------------------------------------------------------------
(* What became of a sent transaction *)

\* confirmWrite of a transaction that is final: a failed claim counts as
\* landed when another one has claimed the escrow.
SolLanded(tx) ==
  \/ tx \in fin.done
  \/ tx.kind = "claim" /\ tx \in fin.failed /\ fin.leg = "claimed"

SolAnswer(tx) ==
  CASE SolLanded(tx) -> "landed"
    [] ~SolLanded(tx) /\ tx \in fin.failed -> "landed-failed"
    [] SolExpired(tx) -> "never-landed"
    [] OTHER -> "pending"

\* simulateOrThrow at the newest block: what cannot succeed is not sent.
SolSimulates(tx) == tx \notin Included(head) /\ SolAllows(tx)

-----------------------------------------------------------------------------
(* lockLegA and recoverLockA *)

\* prepareLock: no escrow may exist.
SolLock == fin.leg = "none" /\ SolMaySign("lock") /\ PrepareLock(SolNext("lock"))

\* commitLock: sent with no further look at the deadlines.
SolSendLock ==
  /\ bAt = "lock"
  /\ IF SolSimulates(bRec.lock) THEN BGo("lock", "sent") /\ SolHand(bRec.lock)
                                ELSE BGo("lock", "idle") /\ SendsNothing
  /\ UNCHANGED <<bRec, bSaw>>
  /\ BSends

SolLockSent ==
  /\ BGo("sent", "idle")
  /\ BSet([bRec EXCEPT !.locked = bRec.lock \in fin.done /\ fin.leg = "locked"])
  /\ UNCHANGED bSaw
  /\ BLocal

\* recoverLock.  Nothing is ever sent again as it was: a lock that never
\* landed is signed anew (same ref), under the guards of a first one.
SolRecoverLock ==
  /\ bRec.attempted /\ ~bRec.locked
  /\ \/ SolAnswer(bRec.lock) = "landed" /\ BGo("idle", "idle") /\ BSet([bRec EXCEPT !.locked = TRUE])
     \/ /\ SolAnswer(bRec.lock) = "never-landed" /\ BGo("idle", "lock")
        /\ MayLock /\ fin.leg = "none" /\ SolMaySign("lock")
        /\ BSet([bRec EXCEPT !.lock = SolNext("lock")])
  /\ UNCHANGED bSaw
  /\ BLocal

-----------------------------------------------------------------------------
(* refundLegA and recoverRefundA *)

\* checkPendingClaim: the escrow reads Claimed at the final block.
SolRefundLegA == RefundLegA(fin.leg = "claimed", "verify")

SolRecoverRefund ==
  /\ BGo("recover", "observe")
  /\ bSaw' = Saw("refund", IF bRec.refund = NoTx THEN "no handle" ELSE SolAnswer(bRec.refund), 0)
  /\ UNCHANGED bRec
  /\ BLocal

\* refund: the attempt is saved; then, if the escrow reads Locked, the signed
\* refund, before it is simulated.
SolSignRefund ==
  /\ IF fin.leg = "locked"
     THEN /\ SolMaySign("refund") /\ BGo("sign", "send")
          /\ BSet([bRec EXCEPT !.refunding = TRUE, !.refund = SolNext("refund")])
     ELSE BGo("sign", "failed") /\ BSet([bRec EXCEPT !.refunding = TRUE])
  /\ UNCHANGED bSaw
  /\ BLocal

\* One that was not sent is forgotten.
SolSendRefund ==
  /\ bAt = "send"
  /\ IF SolSimulates(bRec.refund)
     THEN BGo("send", "refund sent") /\ SolHand(bRec.refund) /\ UNCHANGED bRec
     ELSE BGo("send", "failed") /\ SendsNothing /\ BSet([bRec EXCEPT !.refund = NoTx])
  /\ UNCHANGED bSaw
  /\ BSends

SolRefundSent ==
  /\ IF SolAnswer(bRec.refund) = "landed" /\ fin.leg = "refunded"
     THEN BGo("refund sent", "verify") /\ BSet([bRec EXCEPT !.refunded = TRUE])
     ELSE BGo("refund sent", "failed") /\ UNCHANGED bRec
  /\ UNCHANGED bSaw
  /\ BLocal

-----------------------------------------------------------------------------
(* claimLegA *)

\* SOL_CLAIM_LANDING_MARGIN_MS: the longest a transaction stays valid, and
\* the block it may land in.
LandingMargin == ValidFor + 1

\* latestLandingMs: a claim signed so, and sent now, cannot land at or after
\* refundAfter.  Asked before it is signed and again before it is sent.  The
\* code turns the remaining blocks into time at the slowest rate it expects,
\* slowBlockMs; the unit of time of the model is a block at that rate, and the
\* expiry margin that the code adds is none.  That blocks are never slower is
\* what the code assumes as well, up to the margin.  The mutant only asks
\* whether it is before refundAfter now.
SolOnlyNowInTime(tx, notAfter) == now < RefundAfter
SolInTime(tx, notAfter) == now < notAfter /\ now + (SolLastValid(tx) - (now - 1)) <= RefundAfter

SolNotAfter == IF sRec.starved THEN RefundAfter - LandingMargin ELSE NotAfter

\* resolveRecordedClaims: every claim on record is asked after.  One that is
\* pending stops the call, unless the secret is public.
SolResolve ==
  /\ sAt = "idle" /\ ~sRec.landed
  /\ \E tx \in sRec.claims :
       LET rest == sRec.claims \ {tx} IN
       \/ /\ SolAnswer(tx) = "landed"
          /\ SSet([sRec EXCEPT !.claims = {}, !.landed = TRUE])
          /\ MayReveal
       \/ /\ SolAnswer(tx) = "never-landed"
          /\ SSet([sRec EXCEPT !.claims = rest, !.starved = TRUE])
          /\ UNCHANGED room
       \/ /\ SolAnswer(tx) = "landed-failed"
          /\ SSet([sRec EXCEPT !.claims = rest, !.public = TRUE])
          /\ UNCHANGED room
  /\ UNCHANGED <<rail, now, note, chainView, faults, sAt, sSaw, buyerSide>>

SolResolved == \A tx \in sRec.claims : sRec.public /\ SolAnswer(tx) = "pending"

\* findPriorPreimage, then the guards: of a claim whose secret is public none
\* here, of one that may have been seen that the lock is still there, of a
\* first one all of them.
SolClaimLegA ==
  /\ ~sRec.landed /\ SolResolved
  /\ \/ /\ fin.leg = "claimed" /\ SGo("idle", "idle")
        /\ SSet([sRec EXCEPT !.landed = TRUE])
        /\ MayReveal
        /\ UNCHANGED sSaw
     \/ /\ fin.leg # "claimed" /\ SGo("idle", "sign")
        /\ sRec.public \/ (IF sRec.starved THEN fin.leg = "locked" ELSE FirstClaimGuards)
        /\ SSet([sRec EXCEPT !.attempted = TRUE])
        /\ sSaw' = Saw("claim", IF sRec.public THEN "retry" ELSE "secret", NoTx)
        /\ UNCHANGED room
  /\ UNCHANGED <<rail, now, note, chainView, faults, buyerSide>>

\* claim: the escrow must read Locked; a retry's proof, the failed claim, is
\* on the chain.  The signed claim is saved before it is simulated.
SolSignClaim ==
  LET tx == SolNext("claim") IN
  /\ SGo("sign", "send")
  /\ fin.leg = "locked" /\ SolMaySign("claim")
  /\ now < RefundAfter
  /\ IF sSaw.saw = "retry" THEN \E failed \in fin.failed : failed.kind = "claim"
                           ELSE SolInTime(tx, SolNotAfter)
  /\ SSet([sRec EXCEPT !.claims = @ \cup {tx}])
  /\ sSaw' = [sSaw EXCEPT !.at = tx]
  /\ SLocal

SolClaimNotSigned ==
  /\ SGo("sign", "idle")
  /\ \/ fin.leg # "locked" \/ now >= RefundAfter
     \/ sSaw.saw # "retry" /\ ~SolInTime(SolNext("claim"), SolNotAfter)
  /\ sSaw' = Nothing /\ UNCHANGED sRec
  /\ SLocal

\* Simulated, a last look at the time, sent.  One that was not sent is taken
\* off the record.
SolMaySendClaim ==
  /\ SolSimulates(sSaw.at)
  /\ IF sSaw.saw = "retry" THEN now < RefundAfter ELSE SolInTime(sSaw.at, SolNotAfter)

SolSendClaim ==
  /\ sAt = "send"
  /\ \/ /\ SolMaySendClaim /\ SGo("send", "claim sent")
        /\ SolHand(sSaw.at) /\ UNCHANGED <<sRec, sSaw>>
     \/ /\ ~SolMaySendClaim /\ SGo("send", "idle") /\ SendsNothing
        /\ SSet([sRec EXCEPT !.claims = @ \ {sSaw.at}])
        /\ sSaw' = Nothing
  /\ SSends

\* awaitFinalized and confirmWrite.  A claim that never landed, or failed, is
\* signed anew within the same call, as far as that may be and a few times.
SolSignAgain(saw) == SGo("claim sent", "sign") /\ sSaw' = Saw("claim", saw, NoTx)
SolGiveUp == SGo("claim sent", "idle") /\ sSaw' = Nothing

SolClaimSent ==
  LET tx == sSaw.at
      answer == SolAnswer(tx)
      rest == sRec.claims \ {tx} IN
  /\ sAt = "claim sent"
  /\ \/ /\ answer = "landed" /\ SolGiveUp
        /\ SSet([sRec EXCEPT !.claims = rest, !.landed = TRUE])
        /\ MayReveal
     \/ /\ answer = "never-landed" /\ (SolSignAgain(sSaw.saw) \/ SolGiveUp)
        /\ SSet([sRec EXCEPT !.claims = rest, !.starved = TRUE])
        /\ UNCHANGED room
     \/ /\ answer = "landed-failed"
        /\ (now < RefundAfter /\ SolSignAgain("retry")) \/ SolGiveUp
        /\ SSet([sRec EXCEPT !.claims = rest, !.public = TRUE])
        /\ UNCHANGED room
     \/ answer = "pending" /\ SolGiveUp /\ UNCHANGED <<sRec, room>>
  /\ UNCHANGED <<rail, now, note, chainView, faults, buyerSide>>

-----------------------------------------------------------------------------

SolBuyer ==
  \/ SolLock \/ SolSendLock \/ SolLockSent \/ SolRecoverLock
  \/ SolRefundLegA \/ SolRecoverRefund \/ RecoverRefundA \/ SolSignRefund
  \/ SolSendRefund \/ SolRefundSent \/ RefundFailed \/ ReportRefund

SolSeller ==
  \/ SolResolve \/ SolClaimLegA \/ SolSignClaim \/ SolClaimNotSigned
  \/ SolSendClaim \/ SolClaimSent

\* S2-1: a secret that only a failed claim, or a reveal frame, shows is not
\* enough to take leg B.
SolTakeLegB == TakeLegB(fin.leg = "claimed")

SolNextStep ==
  \/ SolBuyer \/ SolSeller \/ SolTakeLegB
  \/ \E tx \in handed : SolLand(tx) \/ SolLandFailed(tx)
  \/ Fork

=============================================================================
