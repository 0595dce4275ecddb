--------------------------- MODULE DeadlineProofs ---------------------------
(* What the deadline rules guarantee, for every pair of offers and policy. *)
EXTENDS DeadlineDrift, TLAPS

-----------------------------------------------------------------------------
(* Rounding to whole blocks *)

\* Products of integers are integers and grow with their first factor.
LEMMA ProductFacts ==
  ASSUME NEW x \in Int, NEW y \in Int, NEW z \in Int, z > 0
  PROVE  /\ x * z \in Int
         /\ x <= y => x * z <= y * z
         /\ x < y => x * z < y * z
BY Z3

\* Comparing two whole numbers of blocks is comparing their lengths.
LEMMA BlocksCompare ==
  ASSUME NEW x \in Int, NEW y \in Int, NEW z \in Int, z > 0
  PROVE  /\ x * z < y * z => x < y
         /\ x * z <= y * z => x <= y
<1>1. y <= x => y * z <= x * z
  BY ProductFacts
<1>2. y < x => y * z < x * z
  BY ProductFacts
<1>3. x * z \in Int /\ y * z \in Int
  BY ProductFacts
<1> QED
  BY <1>1, <1>2, <1>3

\* Math.ceil rounds up, and by less than one.
LEMMA CeilDivBounds ==
  ASSUME NEW x \in Int, NEW y \in Int, y > 0
  PROVE  /\ CeilDiv(x, y) \in Int
         /\ CeilDiv(x, y) * y >= x
         /\ CeilDiv(x, y) * y < x + y
<1> DEFINE q == (-x) \div y
<1>1. q \in Int
  BY Z3
<1>2. q * y <= -x /\ -x < q * y + y
  BY Z3
<1>3. (-q) * y = -(q * y) /\ q * y \in Int
  BY <1>1, Z3
<1> HIDE DEF q
<1>4. /\ -q \in Int
      /\ (-q) * y >= x
      /\ (-q) * y < x + y
  BY <1>1, <1>2, <1>3
<1> QED
  BY <1>4 DEF CeilDiv, q

\* A longer time never makes fewer blocks.
LEMMA CeilDivMonotone ==
  ASSUME NEW x \in Int, NEW w \in Int, NEW y \in Int, y > 0, x <= w
  PROVE  CeilDiv(x, y) <= CeilDiv(w, y)
<1> DEFINE c == CeilDiv(x, y)
           d == CeilDiv(w, y)
<1>1. /\ c \in Int /\ d \in Int
      /\ c * y < x + y /\ w <= d * y
  BY CeilDivBounds
<1> HIDE DEF c, d
<1>2. c * y \in Int /\ d * y \in Int /\ (d + 1) * y = d * y + y
  BY <1>1, Z3
<1>3. c * y < (d + 1) * y
  BY <1>1, <1>2
<1>4. c < d + 1
  BY <1>1, <1>3, BlocksCompare
<1> QED
  BY <1>1, <1>4 DEF c, d

-----------------------------------------------------------------------------
(* The rules *)

\* The policies that pass checkPolicy.
SoundPolicies == {p \in DeadlinePolicy : checkPolicy(p)}

\* What R10.2 asks of leg B, beyond leg A's own blocks.
MarginBlocks(tOther, p) ==
  AtLeast(CeilDiv(tOther * p.flopMarginPercent, 100),
          p.flopMaxFinalityStallBlocks + p.flopFinalityLagBlocks)

\* The block counts of a pair are whole numbers, and each is its time divided
\* by the block time and rounded up (blocksBetween).
LEMMA BlockCounts ==
  ASSUME NEW leg \in Leg, NEW t \in Int, NEW p \in SoundPolicies
  PROVE  LET n == blocksBetween(t, leg.refundAfterMs, p.flopBlockMs) IN
         /\ n \in Int
         /\ n * p.flopBlockMs >= leg.refundAfterMs - t
         /\ n * p.flopBlockMs < leg.refundAfterMs - t + p.flopBlockMs
<1>1. leg.refundAfterMs - t \in Int /\ p.flopBlockMs \in Int /\ p.flopBlockMs > 0
  BY DEF Leg, SoundPolicies, DeadlinePolicy, checkPolicy
<1> QED
  BY <1>1, CeilDivBounds DEF blocksBetween

\* The margin is a whole number of blocks, at least the finality stall and
\* lag, at least the percentage, and no smaller for a longer leg A
\* (timelockSymmetryMinimumBlocks).
LEMMA MarginFacts ==
  ASSUME NEW p \in SoundPolicies, NEW n \in Int, NEW m \in Int, m <= n
  PROVE  /\ MarginBlocks(n, p) \in Int
         /\ MarginBlocks(n, p) >= p.flopMaxFinalityStallBlocks + p.flopFinalityLagBlocks
         /\ MarginBlocks(n, p) * 100 >= n * p.flopMarginPercent
         /\ MarginBlocks(m, p) <= MarginBlocks(n, p)
<1> DEFINE pc == p.flopMarginPercent
           s == p.flopMaxFinalityStallBlocks + p.flopFinalityLagBlocks
<1>1. pc \in Int /\ pc >= 0 /\ s \in Int
  BY DEF SoundPolicies, DeadlinePolicy, checkPolicy
<1> HIDE DEF pc, s
<1>2. n * pc \in Int /\ m * pc \in Int /\ m * pc <= n * pc
  <2>1. CASE pc > 0
    BY <1>1, <2>1, ProductFacts
  <2>2. CASE pc = 0
    BY <1>1, <2>2
  <2> QED
    BY <1>1, <2>1, <2>2
<1>3. /\ CeilDiv(n * pc, 100) \in Int /\ CeilDiv(m * pc, 100) \in Int
      /\ CeilDiv(m * pc, 100) <= CeilDiv(n * pc, 100)
      /\ CeilDiv(n * pc, 100) * 100 >= n * pc
  <2>1. 100 \in Int /\ 100 > 0
    OBVIOUS
  <2> HIDE DEF pc
  <2> DEFINE a == n * pc
             b == m * pc
  <2>2. a \in Int /\ b \in Int /\ b <= a
    BY <1>2
  <2> HIDE DEF a, b
  <2>3. CeilDiv(a, 100) \in Int /\ CeilDiv(b, 100) \in Int /\ CeilDiv(a, 100) * 100 >= a
    BY <2>1, <2>2, CeilDivBounds
  <2>4. CeilDiv(b, 100) <= CeilDiv(a, 100)
    BY <2>1, <2>2, CeilDivMonotone
  <2> QED
    BY <2>3, <2>4 DEF a, b
<1> DEFINE u == CeilDiv(n * pc, 100)
           v == CeilDiv(m * pc, 100)
<1>4. /\ AtLeast(u, s) \in Int /\ AtLeast(u, s) >= s /\ AtLeast(u, s) >= u
      /\ AtLeast(v, s) <= AtLeast(u, s)
  <2> HIDE DEF u, v
  <2> QED
    BY <1>1, <1>3 DEF AtLeast, u, v
<1>5. AtLeast(u, s) * 100 >= n * pc
  <2> HIDE DEF u, v, pc, s
  <2>1. u \in Int /\ u * 100 >= n * pc
    BY <1>3 DEF u
  <2> DEFINE w == AtLeast(u, s)
             k == n * pc
  <2>2. w \in Int /\ w >= u /\ k \in Int
    BY <1>2, <1>4
  <2> HIDE DEF w, k
  <2> QED
    BY <2>1, <2>2 DEF w, k
<1> QED
  BY <1>4, <1>5 DEF MarginBlocks, pc, s

\* A pair that passes at t leaves both margins of R10.2 between the refund
\* times, less the rounding of one block, and leg A's finality before leg B's
\* claim-by; and at any later time rule 3 is short of one block at most
\* (checkSwapDeadlines, rules 2 and 3).
LEMMA PassingPairLeavesMargin ==
  ASSUME NEW a \in Leg, NEW b \in Leg, NEW p \in SoundPolicies,
         NEW t \in Int, NEW later \in Int, t <= later,
         checkSwapDeadlines(a, b, t, p)
  PROVE  LET gap == b.refundAfterMs - a.refundAfterMs + p.flopBlockMs IN
         /\ a.refundAfterMs + p.finalityAMs < b.refundAfterMs
         /\ gap > (p.flopMaxFinalityStallBlocks + p.flopFinalityLagBlocks) * p.flopBlockMs
         /\ gap * 100 > (a.refundAfterMs - later) * p.flopMarginPercent
         /\ tFlopBlocks(b, later, p) + 1 >= requiredTFlopBlocks(a, later, p)
<1>1. a.refundAfterMs + p.finalityAMs < b.refundAfterMs
  BY DEF Leg, SoundPolicies, DeadlinePolicy, checkSwapDeadlines, WellFormed, checkLegInvariants,
     requiredBClaimByMs
<1> DEFINE s == p.flopMaxFinalityStallBlocks + p.flopFinalityLagBlocks
           bm == p.flopBlockMs
           pc == p.flopMarginPercent
           n0 == tOtherBlocks(a, t, p)
           n1 == tOtherBlocks(a, later, p)
           nb0 == tFlopBlocks(b, t, p)
           nb1 == tFlopBlocks(b, later, p)
           m0 == MarginBlocks(n0, p)
           m1 == MarginBlocks(n1, p)
           ra == a.refundAfterMs
           rb == b.refundAfterMs
<1>2. /\ bm \in Int /\ bm > 0 /\ s \in Int /\ pc \in Int /\ pc >= 0
      /\ ra \in Int /\ rb \in Int
  BY DEF Leg, SoundPolicies, DeadlinePolicy, checkPolicy
<1>3. /\ n0 \in Int /\ n0 * bm >= ra - t
      /\ n1 \in Int /\ n1 * bm < ra - later + bm
  BY BlockCounts DEF tOtherBlocks
<1>4. /\ nb0 \in Int /\ nb0 * bm < rb - t + bm
      /\ nb1 \in Int /\ nb1 * bm >= rb - later
  BY BlockCounts DEF tFlopBlocks
<1>5. n1 <= n0
  <2>1. ra - later \in Int /\ ra - t \in Int /\ ra - later <= ra - t
    BY <1>2
  <2> QED
    BY <1>2, <2>1, CeilDivMonotone DEF tOtherBlocks, blocksBetween
<1>6. /\ m0 \in Int /\ m0 >= s /\ m0 * 100 >= n0 * pc
      /\ m1 \in Int /\ m1 <= m0
  BY <1>3, <1>5, MarginFacts
<1>7. nb0 >= n0 + m0
  BY DEF checkSwapDeadlines, SymmetryOk, requiredTFlopBlocks, timelockSymmetryMinimumBlocks,
     MarginBlocks
<1>8. requiredTFlopBlocks(a, later, p) = n1 + m1
  BY DEF requiredTFlopBlocks, timelockSymmetryMinimumBlocks, MarginBlocks
<1> HIDE DEF s, bm, pc, n0, n1, nb0, nb1, m0, m1, ra, rb
<1> DEFINE gap == rb - ra + bm
<1>9. /\ (n0 + m0) * bm = n0 * bm + m0 * bm
      /\ (n1 + m0 - 2) * bm = n1 * bm + m0 * bm - 2 * bm
      /\ n0 * bm \in Int /\ n1 * bm \in Int /\ m0 * bm \in Int
      /\ nb0 * bm \in Int /\ nb1 * bm \in Int
  BY <1>2, <1>3, <1>4, <1>6, Z3
\* The gap is the margin's blocks, the stall's and the lag's among them.
<1>10. gap > m0 * bm
  <2>1. (n0 + m0) * bm <= nb0 * bm
    BY <1>2, <1>3, <1>4, <1>6, <1>7, ProductFacts
  <2> QED
    BY <1>2, <1>3, <1>4, <1>9, <2>1
<1>11. gap > s * bm
  <2>1. s * bm <= m0 * bm /\ s * bm \in Int
    BY <1>2, <1>6, ProductFacts
  <2> QED
    BY <1>2, <1>9, <1>10, <2>1
\* And the percentage of leg A's blocks, hence of what leg A still has.
<1>12. gap * 100 > (ra - later) * pc
  <2>1. ra - later \in Int /\ ra - later <= n0 * bm
    BY <1>2, <1>3, <1>9
  <2>2. /\ (ra - later) * pc <= (n0 * bm) * pc
        /\ (ra - later) * pc \in Int /\ (n0 * bm) * pc \in Int
    <3> DEFINE x == ra - later
               y == n0 * bm
    <3>1. x \in Int /\ y \in Int /\ x <= y
      BY <1>9, <2>1
    <3> HIDE DEF x, y
    <3>2. x * pc <= y * pc /\ x * pc \in Int /\ y * pc \in Int
      <4>1. CASE pc > 0
        BY <1>2, <3>1, <4>1, ProductFacts
      <4>2. CASE pc = 0
        BY <3>1, <4>2
      <4> QED
        BY <1>2, <4>1, <4>2
    <3> QED
      BY <3>2 DEF x, y
  <2>3. (n0 * pc) * bm <= (m0 * 100) * bm
    <3>1. n0 * pc \in Int /\ m0 * 100 \in Int
      BY <1>2, <1>3, <1>6
    <3> QED
      BY <1>2, <1>6, <3>1, ProductFacts
  <2>4. (n0 * bm) * pc = (n0 * pc) * bm /\ (m0 * 100) * bm = (m0 * bm) * 100
    BY <1>2, <1>3, <1>6, Z3
  <2>5. (m0 * bm) * 100 < gap * 100
    <3>1. gap \in Int
      BY <1>2
    <3> HIDE DEF gap
    <3> QED
      BY <1>9, <1>10, <3>1
  <2>6. gap * 100 \in Int /\ (m0 * bm) * 100 \in Int
    BY <1>2, <1>9
  <2> QED
    BY <2>2, <2>3, <2>4, <2>5, <2>6
\* Later, leg A has lost all the blocks that leg B has, but for one.
<1>13. nb1 + 1 >= n1 + m1
  <2>1. (n1 + m0 - 2) * bm < nb1 * bm
    BY <1>2, <1>3, <1>4, <1>9, <1>10
  <2>2. n1 + m0 - 2 < nb1
    BY <1>2, <1>3, <1>4, <1>6, <2>1, BlocksCompare
  <2> QED
    BY <1>3, <1>4, <1>6, <2>2
<1> QED
  BY <1>1, <1>8, <1>11, <1>12, <1>13, Zenon DEF gap, s, bm, pc, ra, rb, nb1

\* The minimum that was reported for leg B's refund time, once met, keeps rule
\* 3 satisfied however much later leg A is locked, up to its refund time
\* (requiredBRefundAfterMs): leg A loses at least the blocks that leg B loses.
LEMMA ReportedMinimumKeeps ==
  ASSUME NEW a \in Leg, NEW b \in Leg, NEW p \in SoundPolicies,
         NEW t \in Int, NEW later \in Int, t <= later, later <= a.refundAfterMs,
         b.refundAfterMs >= requiredBRefundAfterMs(a, t, p)
  PROVE  SymmetryOk(a, b, later, p)
<1> DEFINE bm == p.flopBlockMs
           ra == a.refundAfterMs
           rb == b.refundAfterMs
           n0 == tOtherBlocks(a, t, p)
           n1 == tOtherBlocks(a, later, p)
           nb == tFlopBlocks(b, later, p)
           m0 == MarginBlocks(n0, p)
           m1 == MarginBlocks(n1, p)
<1>1. bm \in Int /\ bm > 0 /\ ra \in Int /\ rb \in Int /\ later <= ra
  BY DEF Leg, SoundPolicies, DeadlinePolicy, checkPolicy
<1>2. n0 \in Int /\ n0 * bm >= ra - t
  BY BlockCounts DEF tOtherBlocks
<1>3. n1 \in Int /\ n1 * bm >= ra - later /\ n1 * bm < ra - later + bm
  BY BlockCounts DEF tOtherBlocks
<1>4. nb \in Int /\ nb * bm >= rb - later
  BY BlockCounts DEF tFlopBlocks
<1>5. n1 <= n0
  <2>1. ra - later \in Int /\ ra - t \in Int /\ ra - later <= ra - t
    BY <1>1
  <2> QED
    BY <1>1, <2>1, CeilDivMonotone DEF tOtherBlocks, blocksBetween
<1>6. m0 \in Int /\ m1 \in Int /\ m1 <= m0
  BY <1>2, <1>3, <1>5, MarginFacts
<1>7. rb >= t + (n0 + m0) * bm
  BY DEF requiredBRefundAfterMs, requiredTFlopBlocks, timelockSymmetryMinimumBlocks, MarginBlocks
<1>8. SymmetryOk(a, b, later, p) <=> n1 >= 0 /\ nb >= n1 + m1
  BY DEF SymmetryOk, requiredTFlopBlocks, timelockSymmetryMinimumBlocks, MarginBlocks
<1> HIDE DEF bm, ra, rb, n0, n1, nb, m0, m1
<1>9. /\ (n0 + m0) * bm = n0 * bm + m0 * bm
      /\ (n1 + m0 - 1) * bm = n1 * bm + m0 * bm - bm
      /\ (-1) * bm = -bm
      /\ n0 * bm \in Int /\ n1 * bm \in Int /\ m0 * bm \in Int /\ nb * bm \in Int
  BY <1>1, <1>2, <1>3, <1>4, <1>6, Z3
<1>10. (n1 + m0 - 1) * bm < nb * bm
  BY <1>1, <1>2, <1>3, <1>4, <1>7, <1>9
<1>11. n1 + m0 - 1 < nb
  BY <1>1, <1>3, <1>4, <1>6, <1>10, BlocksCompare
<1>12. n1 >= 0
  <2>1. (-1) * bm < n1 * bm
    BY <1>1, <1>3, <1>9
  <2>2. -1 < n1
    BY <1>1, <1>3, <2>1, BlocksCompare
  <2> QED
    BY <1>3, <2>2
<1> QED
  BY <1>3, <1>4, <1>6, <1>8, <1>11, <1>12

-----------------------------------------------------------------------------
(* From the moment the legs are paired to the moment leg A is locked *)

DriftInv ==
  /\ legA \in Legs /\ legB \in Legs /\ policy \in Policies
  /\ pairedMs \in Int /\ lockTimeMs \in Int
  /\ pairedMs <= lockTimeMs

\* Nothing but the lock time moves, and it only moves on.
LEMMA DriftInductive == Spec => []DriftInv
<1>1. Init => DriftInv
  BY DriftAssumption DEF Init, DriftInv
<1>2. DriftInv /\ [Delay]_vars => DriftInv'
  BY DEF DriftInv, Delay, vars
<1> QED
  BY <1>1, <1>2, PTL DEF Spec

\* What the assumptions on the constants say of the legs and the policies.
LEMMA DriftValues ==
  ASSUME DriftInv
  PROVE  legA \in Leg /\ legB \in Leg /\ policy \in SoundPolicies
BY DriftAssumption DEF DriftInv, SoundPolicies

\* However late leg A is locked, a pair that passed when it was made leaves
\* both margins of R10.2, the percentage with the stall and the lag.
THEOREM PassingLeavesMargin == Spec => []OkLeavesMargin
<1>1. DriftInv => OkLeavesMargin
  BY DriftValues, PassingPairLeavesMargin DEF DriftInv, OkLeavesMargin, Gap
<1> QED
  BY <1>1, DriftInductive, PTL

\* A pair that meets the minimum reported when it was made still passes rule 3
\* when leg A is locked.
THEOREM MinimumLasts == Spec => []ReportedMinimumLasts
<1>1. DriftInv => ReportedMinimumLasts
  BY DriftValues, ReportedMinimumKeeps DEF DriftInv, ReportedMinimumLasts
<1> QED
  BY <1>1, DriftInductive, PTL

=============================================================================
