---------------------------- MODULE EvmEvidence ----------------------------
(***************************************************************************)
(* The evidence of an EVM leg (src/rails/evm-evidence.ts): one call of     *)
(* locks(hashLock), pinned to the hash of a block that is taken to be      *)
(* final, by the node's tag or by counting from its newest one.            *)
(***************************************************************************)
EXTENDS EvidenceWorld

\* eth_getBlockByNumber of the tag "finalized".
EvmReadTagged ==
  \E h \in 1..FinalHeight : FinalAsSeen(h) /\ Reads("block", "locks", [block |-> chain[h]])

\* The mode "confirmations", or a node without the tag: eth_blockNumber ...
EvmReadLatest == Reads("block", "numbered", [latest |-> Tip]) /\ Honest

\* ... and the block so many below it.
EvmReadNumbered ==
  /\ at = "numbered"
  /\ LET n == got.latest - Depth IN
     IF n < 1 THEN Reads("numbered", "decide", [status |-> "no block"])
              ELSE Reads("numbered", "locks", [block |-> chain[n]])
  /\ Honest

\* eth_call, of the block with that hash, whether or not it still counts.
EvmReadLocks ==
  /\ at = "locks"
  /\ Reads("locks", "decide", [status |-> blocks[got.block].leg])
  /\ Honest

\* Whether the leg is locked is told before the parties are known; whether it
\* is claimed or refunded only of one's own lock.
EvmConclusion ==
  CASE got.status \in {"none", "no block"} -> Unverified
    [] got.status = "locked" -> [Judge("locked", TRUE) EXCEPT !.rail = "locked"]
    [] OTHER -> Judge(got.status, TRUE)

EvmDecide == at = "decide" /\ Conclude(EvmConclusion)

EvmCapture ==
  \/ StartCapture("block") \/ EvmReadTagged \/ EvmReadLatest \/ EvmReadNumbered
  \/ EvmReadLocks \/ EvmDecide
=============================================================================
