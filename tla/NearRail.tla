------------------------------ MODULE NearRail ------------------------------
(***************************************************************************)
(* Leg A on NEAR: the access key's nonce, receipts that run a block after  *)
(* their transaction, payouts that fail and are taken back (NearHtlc has   *)
(* the contract itself), the rail (src/rails/near-htlc.ts,                 *)
(* src/client/near-rail.ts) and the flows on it.  A lock and a refund are  *)
(* saved before they are sent; a claim is not, since the lock's row tells  *)
(* what became of it.                                                      *)
(*                                                                         *)
(* A block here stands for the few blocks a receipt takes, and an          *)
(* optimistic block is taken not to be replaced.  Leg B is left out: what  *)
(* learns the secret here, the row, also ends the refunds.                 *)
(***************************************************************************)
EXTENDS LegWorld, FiniteSetsExt

\* The transactions of one access key, and its nonce in a view of the chain.
SameKey(kind) == IF kind = "claim" THEN {"claim"} ELSE Kinds \ {"claim"}
NearNonce(view, kind) ==
  Max({0} \cup {tx.n : tx \in {other \in Included(view) : other.kind \in SameKey(kind)}})

\* nextNonce and recentBlockHash: both read at the final block.
NearNext(kind) ==
  [kind |-> kind, n |-> NearNonce(fin, kind) + 1, until |-> MaxTime]
NearMaySign(kind) == NearNext(kind).n <= MaxSigned

\* What a node was given it may include for a day (taken to outlast the swap,
\* so that no send is answered "expired"), if its nonce is not used.
NearHand(tx) == handed' = handed \cup {tx} /\ UNCHANGED pool

NearUsed(view, tx) == NearNonce(view, tx.kind) >= tx.n

-----------------------------------------------------------------------------
(* The chain *)

NearInclude(tx) ==
  /\ ~NearUsed(head, tx)
  /\ head' = [head EXCEPT !.running = @ \cup {tx}]
  /\ UNCHANGED <<pool, faults>>
  /\ ChainOnly

\* The key's owner uses it for something else.
NearOther ==
  LET tx == [kind |-> "other", n |-> NearNonce(head, "other") + 1, until |-> MaxTime] IN
  /\ tx.n <= MaxSigned
  /\ head' = [head EXCEPT !.done = @ \cup {tx}]
  /\ handed' = handed \cup {tx}
  /\ Fault
  /\ UNCHANGED <<rail, now, note, fin, pool, buyerSide, sellerSide, room>>

NearRuns(tx, leg) ==
  /\ head' = [head EXCEPT !.leg = leg, !.shown = @ \/ tx.kind = "claim",
                          !.running = @ \ {tx}, !.done = @ \cup {tx}]
  /\ UNCHANGED <<pool, faults>>
  /\ ChainOnly

NearAllows(tx) ==
  CASE tx.kind = "lock" -> head.leg = "none" /\ now < RefundAfter
    [] tx.kind = "claim" -> head.leg = "locked" /\ (now < RefundAfter \/ head.shown)
    [] tx.kind = "refund" -> head.leg = "locked" /\ now >= RefundAfter /\ ~head.shown

NearExecute(tx) ==
  /\ tx \in head.running
  /\ NearAllows(tx)
  /\ NearRuns(tx, CASE tx.kind = "lock" -> "locked" [] tx.kind = "claim" -> "claiming"
                    [] tx.kind = "refund" -> "refunding")

\* The contract refuses it, or the token does.
NearExecuteFails(tx) ==
  /\ tx \in head.running
  /\ IF NearAllows(tx) THEN Fault ELSE UNCHANGED faults
  /\ head' = [head EXCEPT !.running = @ \ {tx}, !.failed = @ \cup {tx}]
  /\ UNCHANGED pool
  /\ ChainOnly

\* on_transfer_complete.
NearPayout ==
  /\ head.leg \in {"claiming", "refunding"}
  /\ head' = [head EXCEPT !.leg = IF @ = "claiming" THEN "claimed" ELSE "refunded"]
  /\ UNCHANGED <<pool, faults>>
  /\ ChainOnly

NearPayoutFails ==
  /\ head.leg \in {"claiming", "refunding"}
  /\ head' = [head EXCEPT !.leg = "locked"]
  /\ Fault
  /\ UNCHANGED pool
  /\ ChainOnly

\* Receipts do not wait longer than this.
NearReceiptsInTime == fin.running \cap head.running = {}

-----------------------------------------------------------------------------
(* What became of a sent transaction *)

\* EXPERIMENTAL_tx_status at FINAL: all its receipts, the payout's too.
NearFinished(tx) ==
  /\ tx \in fin.done \cup fin.failed
  /\ tx.kind # "lock" => fin.leg \notin {"claiming", "refunding"}

\* Mutant: what ran without failing did what it was sent for.
NearRan(tx) == tx \in fin.done

\* confirmWrite: did it do what it was sent for?
NearDidItsWork(tx) ==
  /\ tx \in fin.done
  /\ tx.kind = "refund" => fin.leg = "refunded"
  /\ tx.kind = "claim" => fin.leg = "claimed"

\* rowVerdict: what the row at the final block says of a write.
NearRow(of) ==
  CASE of = "lock" /\ fin.leg # "none" -> "landed"
    [] of = "refund" /\ fin.leg = "refunded" -> "landed"
    [] of = "refund" /\ fin.leg = "refunding" -> "pending"
    [] OTHER -> "nothing"

\* readWrite after the key was read: the transaction by its hash, the row, and
\* only then the nonce.
NearRead(tx) ==
  CASE NearFinished(tx) -> IF NearDidItsWork(tx) THEN "landed" ELSE "landed-failed"
    [] ~NearFinished(tx) /\ tx \in Included(fin) -> "pending"
    [] tx \notin Included(fin) /\ NearRow(tx.kind) # "nothing" -> NearRow(tx.kind)
    [] OTHER -> IF bSaw.saw = "used" THEN "settle" ELSE "unknown"

\* readLockSettled: far enough past the block the nonce was seen at.  Its
\* mutant does not wait.
NearSettledAtOnce == TRUE
NearSettled == now - 1 > bSaw.at

-----------------------------------------------------------------------------
(* lockLegA and recoverLockA; recoverRefund and resendRefund within refundLegA *)

Handle == IF bSaw.of = "lock" THEN bRec.lock ELSE bRec.refund

NearLock == NearMaySign("lock") /\ PrepareLock(NearNext("lock"))

\* readWrite's first read: the access key at the final block.
NearReadKey(tx, from, to) ==
  /\ BGo(from, to)
  /\ bSaw' = Saw(tx.kind, IF NearUsed(fin, tx) THEN "used" ELSE "fresh", now - 1)
  /\ UNCHANGED bRec
  /\ BLocal

NearRecoverLock == bRec.attempted /\ ~bRec.locked /\ NearReadKey(bRec.lock, "idle", "look")

NearRecoverRefund ==
  \/ bRec.refund # NoTx /\ NearReadKey(bRec.refund, "recover", "look")
  \/ /\ bRec.refund = NoTx /\ BGo("recover", "observe") /\ bSaw' = Saw("refund", "no handle", 0)
     /\ UNCHANGED bRec
     /\ BLocal

\* What recoverLockA, or recoverRefundA, does with an answer.  A fresh lock
\* (same ref) is under the guards of a first one.
NearAnswer(from, answer) ==
  \/ /\ bSaw.of = "refund"
     /\ BGo(from, "observe") /\ bSaw' = Saw("refund", answer, 0)
     /\ UNCHANGED bRec
  \/ /\ bSaw.of = "lock" /\ bSaw' = Nothing
     /\ IF answer = "never-landed" /\ MayLock
        THEN BGo(from, "lock") /\ NearMaySign("lock") /\ BSet([bRec EXCEPT !.lock = NearNext("lock")])
        ELSE BGo(from, "idle") /\ BSet([bRec EXCEPT !.locked = answer = "landed"])

\* readWrite, first on its own and then again within resendWrite; a lock is
\* sent again only under the guards of a first one.
NearLook ==
  LET answer == NearRead(Handle) IN
  /\ bAt \in {"look", "look again"}
  /\ \/ answer \in {"landed", "landed-failed", "pending"} /\ NearAnswer(bAt, answer)
     \/ answer = "settle" /\ BGo(bAt, "settle") /\ UNCHANGED <<bRec, bSaw>>
     \/ /\ answer = "unknown"
        /\ \/ BGo("look", IF bSaw.of = "lock" /\ ~MayLock THEN "idle" ELSE "key again")
           \/ BGo("look again", "resend")
        /\ UNCHANGED <<bRec, bSaw>>
  /\ BLocal

NearLookAgain == NearReadKey(Handle, "key again", "look again")

\* settledVerdict; the chain may be too slow to get there.
NearSettle ==
  /\ bAt = "settle"
  /\ IF NearSettled
     THEN NearAnswer("settle", IF NearRow(bSaw.of) = "nothing" THEN "never-landed" ELSE NearRow(bSaw.of))
     ELSE NearAnswer("settle", "pending")
  /\ BLocal

\* resendWrite: the same bytes.  A refund needs a row that reads Locked; a
\* refusal (the nonce is used) is judged from the optimistic head on.
NearResend ==
  \/ /\ bSaw.of = "refund" /\ fin.leg # "locked"
     /\ NearAnswer("resend", "never-landed")
     /\ BLocal
  \/ /\ bSaw.of = "refund" => fin.leg = "locked"
     /\ UNCHANGED bRec
     /\ IF NearUsed(head, Handle)
        THEN /\ BGo("resend", IF Handle \in Included(head) THEN "resent" ELSE "settle")
             /\ bSaw' = [bSaw EXCEPT !.at = now]
             /\ SendsNothing
        ELSE BGo("resend", "resent") /\ NearHand(Handle) /\ UNCHANGED <<bSaw, faults>>
     /\ BSends

\* The node waits until it is final, or gives up waiting.
NearResent ==
  /\ \/ /\ NearFinished(Handle)
        /\ NearAnswer("resent", IF NearDidItsWork(Handle) THEN "landed" ELSE "landed-failed")
     \/ ~NearFinished(Handle) /\ NearAnswer("resent", "pending")
  /\ BLocal

\* commitLock: sent with no further look at the deadlines.
NearSendLock ==
  /\ IF NearUsed(head, bRec.lock)
     THEN BGo("lock", "idle") /\ SendsNothing
     ELSE BGo("lock", "sent") /\ NearHand(bRec.lock) /\ UNCHANGED faults
  /\ UNCHANGED <<bRec, bSaw>>
  /\ BSends

NearLockSent ==
  /\ BGo("sent", "idle")
  /\ \/ bRec.lock \in fin.done /\ fin.leg = "locked" /\ BSet([bRec EXCEPT !.locked = TRUE])
     \/ ~(bRec.lock \in fin.done /\ fin.leg = "locked") /\ UNCHANGED bRec
  /\ UNCHANGED bSaw
  /\ BLocal

-----------------------------------------------------------------------------
(* refundLegA *)

\* checkPendingClaim: the row carries the secret.
NearRefundLegA == RefundLegA(fin.shown, "verify")

\* refund: the attempt is saved; then, if the row reads Locked, the signed
\* refund.
NearSignRefund ==
  /\ IF fin.leg = "locked"
     THEN /\ NearMaySign("refund") /\ BGo("sign", "send")
          /\ BSet([bRec EXCEPT !.refunding = TRUE, !.refund = NearNext("refund")])
     ELSE BGo("sign", "failed") /\ BSet([bRec EXCEPT !.refunding = TRUE])
  /\ UNCHANGED bSaw
  /\ BLocal

\* A refund that fails the chain pin was not sent and is forgotten; one that
\* the node refuses is not.
NearSendRefund ==
  /\ \/ BGo("send", "refund sent") /\ ~NearUsed(head, bRec.refund)
        /\ NearHand(bRec.refund) /\ UNCHANGED <<bRec, faults>>
     \/ BGo("send", "failed") /\ NearUsed(head, bRec.refund)
        /\ SendsNothing /\ UNCHANGED bRec
     \/ BGo("send", "failed") /\ BSet([bRec EXCEPT !.refund = NoTx])
        /\ Fault /\ UNCHANGED <<pool, handed>>
  /\ UNCHANGED bSaw
  /\ BSends

NearRefundSent ==
  /\ IF NearFinished(bRec.refund) /\ NearDidItsWork(bRec.refund)
     THEN BGo("refund sent", "verify") /\ BSet([bRec EXCEPT !.refunded = TRUE])
     ELSE BGo("refund sent", "failed") /\ UNCHANGED bRec
  /\ UNCHANGED bSaw
  /\ BLocal

-----------------------------------------------------------------------------
(* claimLegA *)

\* findPriorPreimage: the row carries our secret.  Claimed, the claim landed;
\* if not, its payout failed and it may be claimed again at any time.
NearClaimLegA ==
  /\ ~sRec.landed
  /\ \/ fin.shown /\ fin.leg = "claimed" /\ SGo("idle", "idle") /\ SSet([sRec EXCEPT !.landed = TRUE])
        /\ MayReveal
     \/ /\ IF fin.shown THEN fin.leg # "claimed" ELSE FirstClaimGuards
        /\ SGo("idle", "sign") /\ SSet([sRec EXCEPT !.attempted = TRUE])
        /\ UNCHANGED room
  /\ UNCHANGED <<rail, now, note, chainView, faults, sSaw, buyerSide>>

\* claim: the row must read Locked; whether it carries the secret is read
\* here and counts until the claim is sent.
NearSignClaim ==
  /\ fin.leg = "locked" /\ (fin.shown \/ now < RefundAfter)
  /\ NearMaySign("claim")
  /\ SGo("sign", "send")
  /\ sSaw' = Saw("claim", IF fin.shown THEN "revealed" ELSE "secret", NearNext("claim"))
  /\ UNCHANGED sRec
  /\ SLocal

NearClaimNotSigned ==
  /\ SGo("sign", "idle")
  /\ ~(fin.leg = "locked" /\ (fin.shown \/ now < RefundAfter))
  /\ UNCHANGED <<sRec, sSaw>>
  /\ SLocal

\* The claim that was signed when the row was read; sent if it is not too late.
\* Its mutant does not look at the time again.
NearInTimeWhenSigned == TRUE
NearInTime == sSaw.saw = "revealed" \/ now < NotAfter

NearSendClaim ==
  LET tx == sSaw.at IN
  /\ sAt = "send"
  /\ \/ /\ NearInTime /\ ~NearUsed(head, tx)
        /\ SGo("send", "claim sent") /\ NearHand(tx) /\ UNCHANGED <<faults, sSaw>>
     \/ /\ ~NearInTime \/ NearUsed(head, tx)
        /\ SGo("send", "idle") /\ SendsNothing
        /\ sSaw' = Nothing
  /\ UNCHANGED sRec
  /\ SSends

\* confirmWrite: Claimed is landed; a payout that failed leaves the secret in
\* the row, and the reveal is posted at once.
NearClaimSent ==
  LET finished == NearFinished(sSaw.at)
      landed == finished /\ NearDidItsWork(sSaw.at) IN
  /\ sAt = "claim sent"
  /\ sSaw' = Nothing
  /\ \/ /\ landed /\ SGo("claim sent", "idle") /\ SSet([sRec EXCEPT !.landed = TRUE])
        /\ MayReveal
     \/ /\ ~landed /\ SGo("claim sent", "idle") /\ UNCHANGED sRec
        /\ IF finished /\ sSaw.at \in fin.done THEN MayReveal ELSE UNCHANGED room
  /\ UNCHANGED <<rail, now, note, chainView, faults, buyerSide>>

-----------------------------------------------------------------------------

NearBuyer ==
  \/ NearLock \/ NearSendLock \/ NearLockSent
  \/ NearRecoverLock \/ NearRecoverRefund \/ NearLook \/ NearLookAgain
  \/ NearSettle \/ NearResend \/ NearResent
  \/ NearRefundLegA \/ RecoverRefundA \/ NearSignRefund \/ NearSendRefund
  \/ NearRefundSent \/ RefundFailed \/ ReportRefund

NearSeller ==
  \/ NearClaimLegA \/ NearSignClaim \/ NearClaimNotSigned \/ NearSendClaim
  \/ NearClaimSent

NearChain ==
  \/ \E tx \in handed : NearInclude(tx)
  \/ \E tx \in head.running : NearExecute(tx) \/ NearExecuteFails(tx)
  \/ NearPayout \/ NearPayoutFails

NearNextStep == NearBuyer \/ NearSeller \/ NearChain \/ NearOther

=============================================================================
