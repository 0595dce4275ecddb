---------------------------- MODULE BtcEvidence ----------------------------
(***************************************************************************)
(* The evidence of a Bitcoin leg (src/rails/btc-evidence.ts).  A node      *)
(* answers about the chain it is on at the moment of each read, so the     *)
(* number of confirmations is put together from answers of different       *)
(* times: the height of the tip is read first.                             *)
(***************************************************************************)
EXTENDS EvidenceWorld

\* pin.finality.confirmations
Confirmations == Depth + 1

\* Where the output is made, in the chain as it is; 0 when it is not.
FundingHeight ==
  LET made == {h \in 1..Tip : BlockAt(h).leg # "none"} IN
  IF made = {} THEN 0 ELSE CHOOSE h \in made : \A k \in made : h <= k

BtcReadTip == Reads("tip", "funding", [tip |-> Tip]) /\ Honest

\* getrawtransaction, and getblockheader of the block it names.
BtcReadFunding ==
  /\ IF FundingHeight = 0
     THEN Reads("funding", "decide", [got EXCEPT !.tip = 0])
     ELSE Reads("funding", "output", [tip |-> got.tip, funding |-> FundingHeight,
                                      confirmations |-> Tip - FundingHeight + 1])
  /\ Honest

ScanEnd(tip, funding) == IF tip < funding + ScanWindow - 1 THEN tip ELSE funding + ScanWindow - 1

\* A spent output is looked for from the block that made it on; the mutant
\* begins with the next one.
ScanFromNext(funding) == funding + 1
ScanFrom(funding) == funding

\* gettxout, of the chain alone.
BtcReadOutput ==
  /\ LET known == [tip |-> got.tip, funding |-> got.funding, confirmations |-> got.confirmations,
                   unspent |-> BlockAt(Tip).leg = "locked", scan |-> ScanFrom(got.funding),
                   spend |-> [height |-> 0, status |-> "none"]] IN
     Reads("output", IF known.unspent THEN "decide" ELSE "scan", known)
  /\ Honest

SpentAt(h) ==
  BlockAt(h).leg \in {"claimed", "refunded"} /\ BlockAt(h - 1).leg \notin {"claimed", "refunded"}

\* getblockhash of one height, and that block.  What the witness shows tells a
\* claim from a refund.
BtcScan ==
  /\ at = "scan"
  /\ IF got.scan > ScanEnd(got.tip, got.funding)
     THEN Reads("scan", "decide", got)
     ELSE IF SpentAt(got.scan)
     THEN Reads("scan", "decide",
                [got EXCEPT !.spend = [height |-> got.scan, status |-> BlockAt(got.scan).leg]])
     ELSE Reads("scan", "scan", [got EXCEPT !.scan = @ + 1])
  /\ Honest

\* How deep the spend is buried, by the tip that was read before it was found.
\* The mutant counts from the tip there is by now.
SpendConfirmationsNow == Tip - got.spend.height + 1
SpendConfirmations == got.tip - got.spend.height + 1

BtcConclusion ==
  CASE got.tip = 0 -> Unverified
    [] got.tip # 0 /\ got.funding > got.tip -> Unverified
    [] got.tip # 0 /\ got.funding <= got.tip /\ got.unspent ->
         IF got.confirmations < Confirmations THEN Unverified ELSE Judge("locked", TRUE)
    [] got.tip # 0 /\ got.funding <= got.tip /\ ~got.unspent ->
         IF got.spend.status = "none" \/ SpendConfirmations < Confirmations
         THEN Unverified ELSE Judge(got.spend.status, TRUE)

BtcDecide == at = "decide" /\ Conclude(BtcConclusion)

BtcCapture ==
  \/ StartCapture("tip") \/ BtcReadTip \/ BtcReadFunding \/ BtcReadOutput
  \/ BtcScan \/ BtcDecide
=============================================================================
