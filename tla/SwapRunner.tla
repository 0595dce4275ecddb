----------------------------- MODULE SwapRunner -----------------------------
(***************************************************************************)
(* The two flows under runners that keep going: each makes one call at a   *)
(* time, the one its flow's `next` names, or the refund of its own leg     *)
(* once that leg's refund time has come (what --resume and --refund do);   *)
(* the Buyer is sent back from the refund to `next` by a claim it saw.     *)
(* A call that cannot go on throws; throws counts those that fail          *)
(* otherwise, MaxThrows of them at most.                                   *)
(***************************************************************************)
EXTENDS Swap

CONSTANT MaxThrows

ASSUME MaxThrowsAssumption == MaxThrows \in Nat

VARIABLE throws

runnerVars == <<vars, throws>>

SellerIdle == \A flag \in SellerFlags : sPc[flag] = "idle"
BuyerIdle == \A flag \in BuyerFlags : bPc[flag] = "idle"

SellerCalls ==
  /\ SellerIdle
  /\ \/ SellerNextStep = "acceptLegA" /\ ((\E o \in OffersB : AcceptLegA(o)) \/ AcceptLegAAgain)
     \/ SellerNextStep = "postAccountLineA" /\ SellerAccountLine
     \/ SellerNextStep = "lockLegB" /\ LockLegB
     \/ SellerNextStep = "claimLegA" /\ (ClaimLegALanded \/ ClaimLegAFound \/ ClaimLegA)
     \/ SellerNextStep # "done" /\ RefundLegB

BuyerCalls ==
  /\ BuyerIdle
  /\ \/ BuyerNextStep = "bid" /\ \E o \in OffersA : Bid(o)
     \/ BuyerNextStep = "acceptLegB" /\ AcceptLegB
     \/ BuyerNextStep = "verifyLegBLocked" /\ VerifyLegBLocked
     \/ BuyerNextStep = "postAccountLineA" /\ BuyerAccountLine
     \/ BuyerNextStep = "lockLegA" /\ (LockLegADone \/ LockLegA \/ RecoverLockAFound \/ RecoverLockA)
     \/ BuyerNextStep = "learnSecret" /\ (LearnSecret \/ ClaimLegB)
     \/ BuyerNextStep # "done" /\ "refundClaimSeen" \notin bRec /\ RefundLegA

SellerRuns ==
  /\ \/ SellerCalls
     \/ SellerContinues
     \/ ~ENABLED SellerContinues /\ \E flag \in SellerFlags : SellerThrows(flag)
  /\ UNCHANGED <<buyerVars, throws>>

BuyerRuns ==
  /\ \/ BuyerCalls
     \/ BuyerContinues
     \/ ~ENABLED BuyerContinues /\ \E flag \in BuyerFlags : BuyerThrows(flag)
  /\ UNCHANGED <<sellerVars, throws>>

Fails ==
  /\ throws < MaxThrows
  /\ throws' = throws + 1
  /\ \/ (\E flag \in SellerFlags : SellerThrows(flag)) /\ UNCHANGED buyerVars
     \/ ((\E flag \in BuyerFlags : BuyerThrows(flag)) \/ BuyerRestarts) /\ UNCHANGED sellerVars

WorldRuns(A) == A /\ UNCHANGED <<sellerVars, buyerVars, throws>>

RunnerInit == Init /\ throws = 0

RunnerNext == SellerRuns \/ BuyerRuns \/ Fails \/ WorldRuns(WorldNext)

\* Both runners keep going, time passes, blocks become final, and a
\* transaction that was sent is mined as long as the contract accepts it.
RunnerFairness ==
  /\ WF_runnerVars(SellerRuns)
  /\ WF_runnerVars(BuyerRuns)
  /\ WF_runnerVars(WorldRuns(Tick))
  /\ WF_runnerVars(WorldRuns(Finalize)) /\ WF_runnerVars(WorldRuns(FinalizeNoLock))
  /\ WF_runnerVars(WorldRuns(MineClaim))
  /\ WF_runnerVars(WorldRuns(MineRefund))

RunnerSpec == RunnerInit /\ [][RunnerNext]_runnerVars /\ RunnerFairness

-----------------------------------------------------------------------------
(* Properties *)

\* A Seller that has locked leg B gets to the end: paid on leg A, or leg B
\* refunded, and the receipt posted, whatever calls failed on the way
\* (lockLegB, claimLegA, refundLegB and the facts they resume from).
SellerFinishes == noteB = "locked" ~> SellerNextStep = "done"

\* A Buyer that has attempted its lock gets to the end: leg B taken, leg A
\* refunded, or told that the lock never landed (lockLegA, claimLegB,
\* refundLegA).  One that lets leg B's refund time pass after leg A was
\* claimed has lost leg B, which no call can bring back.
BuyerFinishes ==
  "legALockAttempted" \in bRec ~>
    BuyerNextStep = "done" \/ (headA = "claimed" /\ noteB # "claimed" /\ RefundBTime)

=============================================================================
