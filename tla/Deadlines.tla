----------------------------- MODULE Deadlines -----------------------------
(***************************************************************************)
(* The deadline rules both parties apply to a pair of offers               *)
(* (src/deadlines.ts).  Pure operators: an offer is a record with          *)
(* expiresMs, claimByMs and refundAfterMs, a policy a record with the six  *)
(* fields of DeadlinePolicy.  Numbers are integers; a value that is not a  *)
(* safe integer fails the same checks a negative one does.                 *)
(***************************************************************************)
EXTENDS Integers

\* Math.ceil(x / y) for a positive y.
CeilDiv(x, y) == -((-x) \div y)

AtLeast(x, y) == IF x >= y THEN x ELSE y

\* Mutant: a started block is not counted.
blocksBetweenFloor(fromMs, toMs, blockMs) == (toMs - fromMs) \div blockMs

\* How many FLOP blocks lie between two instants, a started block counted.
blocksBetween(fromMs, toMs, blockMs) == CeilDiv(toMs - fromMs, blockMs)

\* Mutant: the margin in percent is left out.
timelockSymmetryMinimumBlocksFlat(tOther, marginPercent, maxFinalityStall, finalityLag) ==
  tOther + maxFinalityStall + finalityLag

\* R10.2: the blocks leg B must outlast leg A's tOther blocks by.
timelockSymmetryMinimumBlocks(tOther, marginPercent, maxFinalityStall, finalityLag) ==
  tOther + AtLeast(CeilDiv(tOther * marginPercent, 100), maxFinalityStall + finalityLag)

checkLegInvariants(leg) ==
  /\ leg.claimByMs > 0 /\ leg.refundAfterMs > 0 /\ leg.expiresMs > 0
  /\ leg.claimByMs < leg.refundAfterMs

checkPolicy(policy) ==
  /\ policy.minRevealWindowMs >= 0
  /\ policy.finalityAMs >= 0
  /\ policy.flopMarginPercent >= 0
  /\ policy.flopMaxFinalityStallBlocks >= 0
  /\ policy.flopFinalityLagBlocks >= 0
  /\ policy.flopBlockMs > 0

\* The fields of a policy; JSON gives them as whole numbers of either sign.
DeadlinePolicy ==
  [minRevealWindowMs : Int, finalityAMs : Int, flopMarginPercent : Int,
   flopMaxFinalityStallBlocks : Int, flopFinalityLagBlocks : Int, flopBlockMs : Int]

\* What checkSwapDeadlines can evaluate at all.
WellFormed(legA, legB, lockTimeMs, policy) ==
  /\ lockTimeMs > 0
  /\ checkLegInvariants(legA)
  /\ checkLegInvariants(legB)
  /\ checkPolicy(policy)

\* Rule 1: the Seller's reveal window.
RevealWindowOk(legA, lockTimeMs, policy) ==
  legA.refundAfterMs - lockTimeMs >= policy.minRevealWindowMs

\* Rule 2: the Buyer still has leg B once leg A's last claim is final.
requiredBClaimByMs(legA, policy) == legA.refundAfterMs + policy.finalityAMs

tOtherBlocks(legA, lockTimeMs, policy) ==
  blocksBetween(lockTimeMs, legA.refundAfterMs, policy.flopBlockMs)

tFlopBlocks(legB, lockTimeMs, policy) ==
  blocksBetween(lockTimeMs, legB.refundAfterMs, policy.flopBlockMs)

requiredTFlopBlocks(legA, lockTimeMs, policy) ==
  timelockSymmetryMinimumBlocks(tOtherBlocks(legA, lockTimeMs, policy),
    policy.flopMarginPercent, policy.flopMaxFinalityStallBlocks,
    policy.flopFinalityLagBlocks)

requiredBRefundAfterMs(legA, lockTimeMs, policy) ==
  lockTimeMs + requiredTFlopBlocks(legA, lockTimeMs, policy) * policy.flopBlockMs

\* Rule 3; a leg A that ended before the lock time cannot be evaluated and
\* is a violation.
SymmetryOk(legA, legB, lockTimeMs, policy) ==
  /\ tOtherBlocks(legA, lockTimeMs, policy) >= 0
  /\ tFlopBlocks(legB, lockTimeMs, policy) >= requiredTFlopBlocks(legA, lockTimeMs, policy)

\* Mutants: rule 2 dropped, and the reveal window the only rule left.
checkSwapDeadlinesNoFinality(legA, legB, lockTimeMs, policy) ==
  /\ WellFormed(legA, legB, lockTimeMs, policy)
  /\ RevealWindowOk(legA, lockTimeMs, policy)
  /\ SymmetryOk(legA, legB, lockTimeMs, policy)

checkSwapDeadlinesWindowOnly(legA, legB, lockTimeMs, policy) ==
  /\ WellFormed(legA, legB, lockTimeMs, policy)
  /\ RevealWindowOk(legA, lockTimeMs, policy)

\* DeadlineCheck.ok.
checkSwapDeadlines(legA, legB, lockTimeMs, policy) ==
  /\ WellFormed(legA, legB, lockTimeMs, policy)
  /\ RevealWindowOk(legA, lockTimeMs, policy)
  /\ legB.claimByMs >= requiredBClaimByMs(legA, policy)
  /\ SymmetryOk(legA, legB, lockTimeMs, policy)

=============================================================================
