--------------------------- MODULE DeadlineDrift ---------------------------
(***************************************************************************)
(* A pair of offers between the moment it was checked and the moment leg A *)
(* is locked.  The rules of checkSwapDeadlines are evaluated at a declared *)
(* lock time when the legs are paired (acceptLegA, acceptLegB) and again   *)
(* at the clock when leg A is locked (checkLockDeadlines).                 *)
(***************************************************************************)
EXTENDS Deadlines

CONSTANTS Legs, Policies, PairTimes, Horizon

\* The deadlines of one leg.
Leg == [expiresMs : Nat, claimByMs : Nat, refundAfterMs : Nat]

ASSUME DriftAssumption ==
  /\ Legs \subseteq Leg
  /\ Policies \subseteq DeadlinePolicy
  /\ \A policy \in Policies : checkPolicy(policy)
  /\ PairTimes \subseteq Nat
  /\ Horizon \in Nat

VARIABLES legA, legB, policy,
          pairedMs,    \* the lock time the pair was checked at
          lockTimeMs   \* the time leg A would be locked at

vars == <<legA, legB, policy, pairedMs, lockTimeMs>>

Init ==
  /\ legA \in Legs /\ legB \in Legs
  /\ policy \in Policies
  /\ pairedMs \in PairTimes
  /\ lockTimeMs = pairedMs

Delay ==
  /\ lockTimeMs < Horizon
  /\ lockTimeMs' = lockTimeMs + 1
  /\ UNCHANGED <<legA, legB, policy, pairedMs>>

Spec == Init /\ [][Delay]_vars

-----------------------------------------------------------------------------
(* Properties *)

\* How much later leg B's refund time is, and the block that rounding may take.
Gap == legB.refundAfterMs - legA.refundAfterMs + policy.flopBlockMs

\* A pair that passed when it was made leaves both margins of R10.2, in time
\* and not only in whole blocks: leg B outlasts leg A by the stall and the lag,
\* and by the percentage of what leg A still has when it is locked, however
\* much later that is.  Asked again then, rule 3 misses a block at most; and
\* the Buyer has leg B once leg A is final (checkSwapDeadlines at acceptLegB,
\* checkLockDeadlines at lockLegA).
OkLeavesMargin ==
  checkSwapDeadlines(legA, legB, pairedMs, policy) =>
    /\ legA.refundAfterMs + policy.finalityAMs < legB.refundAfterMs
    /\ Gap > (policy.flopMaxFinalityStallBlocks + policy.flopFinalityLagBlocks) * policy.flopBlockMs
    /\ Gap * 100 > (legA.refundAfterMs - lockTimeMs) * policy.flopMarginPercent
    /\ lockTimeMs <= legA.refundAfterMs =>
         tFlopBlocks(legB, lockTimeMs, policy) + 1 >= requiredTFlopBlocks(legA, lockTimeMs, policy)

\* The minimum that checkSwapDeadlines reports for leg B's refund time, once
\* met when the legs are paired, keeps rule 3 satisfied however late leg A
\* is locked, up to its own refund time: only the rounding of a time that
\* was short of it can turn a pair that passed into one that fails.
ReportedMinimumLasts ==
  (/\ legB.refundAfterMs >= requiredBRefundAfterMs(legA, pairedMs, policy)
   /\ tOtherBlocks(legA, pairedMs, policy) >= 0
   /\ lockTimeMs <= legA.refundAfterMs)
  => SymmetryOk(legA, legB, lockTimeMs, policy)

\* "legB.refundAfterMs must be >= requiredBRefundAfterMs" (deadlines.ts, and
\* "Rule 3's minimum" in types.ts): a pair that passes has at least it.
OkMeetsReportedMinimum ==
  checkSwapDeadlines(legA, legB, lockTimeMs, policy) =>
    legB.refundAfterMs >= requiredBRefundAfterMs(legA, lockTimeMs, policy)

=============================================================================
