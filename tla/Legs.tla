-------------------------------- MODULE Legs --------------------------------
(***************************************************************************)
(* Leg A on one of the three rails, and what the recovery of a lost        *)
(* answer, process or transaction must keep on each of them.               *)
(***************************************************************************)
EXTENDS BtcRail, NearRail, SolRail

On(r) == rail = r /\ UNCHANGED rail

BlockEnds ==
  /\ rail = "near" => NearReceiptsInTime
  /\ Advance

LegsNext ==
  \/ On("btc") /\ (BtcNext \/ NoteBack)
  \/ On("near") /\ NearNextStep
  \/ On("sol") /\ SolNextStep
  \/ BlockEnds
  \/ BuyerThrows \/ SellerThrows

\* Time goes on; a Bitcoin node mines what it holds, and both parties keep
\* calling their flows.  (Nothing is assumed of the other two chains.)
LegsFairness ==
  /\ WF_legVars(BlockEnds)
  /\ WF_legVars(On("btc") /\ \E tx \in pool : BtcMine(tx))
  /\ WF_legVars(On("btc") /\ BtcBuyer)
  /\ WF_legVars(On("btc") /\ BtcSeller)

LegsSpec == LegInit /\ [][LegsNext]_legVars /\ LegsFairness

-----------------------------------------------------------------------------

Handed(kind) == {tx \in handed : tx.kind = kind}

\* On Bitcoin a second funding transaction would lock a second amount, and a
\* second refund or claim could replace the one on record: whatever is lost,
\* evicted or forked away, no second one of a kind is ever sent.
SentOnce ==
  rail = "btc" => \A kind \in {"lock", "claim", "refund"} : Cardinality(Handed(kind)) <= 1

\* A transaction that was sent and may still take effect, now or after a fork.
MayTakeEffect(tx) ==
  /\ tx \notin fin.done \cup fin.failed
  /\ \/ tx \in Included(head)
     \/ CASE rail = "btc" -> fin.leg = IF tx.kind = "lock" THEN "none" ELSE "locked"
          [] rail = "near" -> ~NearUsed(fin, tx)
          [] rail = "sol" -> now <= tx.until

OnRecord == {bRec.lock, bRec.refund} \cup sRec.claims

\* A handle is given up ("never-landed", or not broadcast) only when its
\* transaction is dead: what may still take effect is on its flow's record, so
\* a flow that starts again finds it.  (A NEAR claim needs none: the lock's row
\* tells.  On Solana, once one claim has landed, resolveRecordedClaims lets go
\* of the other retries at once, which may still reach a block and fail there.)
NeedsRecord(tx) ==
  tx.kind # "other" /\ (tx.kind = "claim" => rail = "btc" \/ (rail = "sol" /\ ~sRec.landed))

NoStrayTx ==
  \A tx \in handed : MayTakeEffect(tx) /\ NeedsRecord(tx) => tx \in OnRecord

\* The first claim that leaves the Seller shows the secret: it leaves only
\* before the claim margin and only for a lock that is final, however long the
\* call took between its guards and the send.  (On Solana a claim that was
\* recorded and expired counts as seen, though it may never have been sent; the
\* next one only has to keep the landing margin.)
LastTimeToClaim == IF rail = "sol" THEN SolNotAfter ELSE NotAfter

SecretHeldBack ==
  [][Handed("claim") = {} /\ Handed("claim")' # {} =>
       now < LastTimeToClaim /\ fin.leg = "locked"]_legVars

\* A claim recorded as landed on NEAR or Solana has paid: not one whose payout
\* is under way or was taken back, nor one that failed.  (On Bitcoin one
\* confirmation is enough: see LockedSettles.)
LandedIsPaid == sRec.landed /\ rail # "btc" => fin.leg = "claimed"

\* A refund that is reported is final, and stays so through every fork.
RefundReportedIsFinal == bRec.done => fin.leg = "refunded"

\* On Solana a claim that runs after leg A's refund time fails and publishes
\* the secret for nothing: only one whose secret was public already may.
NoLateClaim ==
  [][rail = "sol" => \A tx \in head'.failed \ head.failed :
       tx.kind = "claim" /\ now >= RefundAfter => head.shown]_legVars

\* On Bitcoin a locked leg A is claimed or refunded in the end, although
\* transactions are evicted, forked away and refused and calls die: the flows
\* send them again.  Only a claim that was recorded as landed at one
\* confirmation is not looked after any more.
LockedSettles == (rail = "btc" /\ head.leg = "locked") ~> (head.leg # "locked" \/ sRec.landed)

=============================================================================
