----------------------------- MODULE MCEvidence -----------------------------
(***************************************************************************)
(* Captures of a leg on each of the four rails, one behaviour being of one *)
(* rail, and what the evidence promises of the chain.                      *)
(***************************************************************************)
EXTENDS BtcEvidence, EvmEvidence, AccountEvidence

MCBounds ==
  [btc |-> [depth |-> 2, height |-> 6, blocks |-> 8, faults |-> 1],
   evm |-> [depth |-> 2, height |-> 5, blocks |-> 7, faults |-> 1],
   near |-> [depth |-> 1, height |-> 4, blocks |-> 5, faults |-> 1],
   sol |-> [depth |-> 1, height |-> 4, blocks |-> 4, faults |-> 1]]

Capture ==
  \/ rail = "btc" /\ BtcCapture
  \/ rail = "evm" /\ EvmCapture
  \/ rail = "near" /\ NearCapture
  \/ rail = "sol" /\ SolCapture

EvidenceNext == Mine \/ Fork \/ ReadFails \/ Capture

\* A sweep is run again and again, and every read is answered or times out.
EvidenceSpec == EvidenceInit /\ [][EvidenceNext]_evidenceVars /\ WF_evidenceVars(Capture)

\* Evidence that calls a state of the leg final is right about the blocks
\* that no fork can replace, and stays right: a settled leg has settled so
\* there, a locked one is locked there or was (RailObservation.final).
FinalIsFinal ==
  /\ said.rail \in {"claimed", "refunded"} => BlockAt(FinalHeight).leg = said.rail
  /\ said.rail = "locked" => BlockAt(FinalHeight).leg # "none"

\* What a lock is vouched for or refuted on held in one final block: the lock
\* of these terms, with its amount, and a payee who could be paid (railVerified).
OneFinalBlock(P(_)) == \E h \in 1..FinalHeight : BlockAt(h).leg \in {"locked", "revealed"} /\ P(BlockAt(h))

VerdictIsOfOneBlock ==
  /\ said.verdict = "true" => ours /\ OneFinalBlock(LAMBDA b : b.leg = "locked" /\ b.payable)
  /\ said.verdict = "false" /\ said.rail = "none" => OneFinalBlock(LAMBDA b : ~ours \/ ~b.payable)

\* Captures of a Solana leg keep ending with all reads in one slot: the reads
\* of one take about as long as a slot, and nothing but luck keeps them in it.
CapturesHitOneSlot == []<>(rail = "sol" => at = "decide" /\ OneSlot)

\* A Bitcoin output is spent in a block that the scan for the spend gets to.
WithinScan ==
  rail = "btc" => \E h \in FundingHeight..(FundingHeight + ScanWindow - 1) : h <= FinalHeight /\ SpentAt(h)

\* A leg of these terms that is settled for good is sooner or later seen to
\* be: no fork, lag or failed read keeps it from the board, and nothing but
\* the two limits above.
SettledIsSeen ==
  CapturesHitOneSlot =>
    (ours /\ lines /\ BlockAt(FinalHeight).leg \in {"claimed", "refunded"} /\ WithinScan
       ~> said.rail \in {"claimed", "refunded"})
=============================================================================
