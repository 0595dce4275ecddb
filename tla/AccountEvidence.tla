-------------------------- MODULE AccountEvidence --------------------------
(***************************************************************************)
(* The evidence of a NEAR leg (src/rails/near-evidence.ts) and of a Solana *)
(* leg (src/rails/sol-evidence.ts), where the lock and the payee's means   *)
(* to be paid are accounts of their own.  On NEAR every read names the     *)
(* block it is about.  On Solana a read can only ask for a final slot that *)
(* is not older than a given one, and says which one it got.  A block      *)
(* stands for all the slots that leave the leg as it is, and they go on    *)
(* for ever: between two reads there may always be a new one.              *)
(***************************************************************************)
EXTENDS EvidenceWorld

-----------------------------------------------------------------------------
(* NEAR *)

NearReadBlock ==
  \E h \in 1..FinalHeight : FinalAsSeen(h) /\ Reads("block", "lock", [block |-> chain[h]])

\* get_lock, the contract's code and keys.
NearReadLock ==
  /\ at = "lock"
  /\ Reads("lock", "payee", [block |-> got.block, status |-> blocks[got.block].leg])
  /\ Honest

\* storage_balance_of the payee.
NearReadPayee ==
  /\ at = "payee"
  /\ Reads("payee", "decide", [status |-> got.status, payable |-> blocks[got.block].payable])
  /\ Honest

\* A transfer that is under way has settled nothing; a lock whose preimage is
\* out can only be claimed, and is not vouched for.
NearConclusion ==
  CASE got.status \in {"none", "claiming", "refunding"} -> Unverified
    [] got.status = "revealed" -> IF lines /\ ~ours THEN Refuted("none") ELSE Unverified
    [] OTHER -> Judge(got.status, got.payable)

NearDecide == at = "decide" /\ Conclude(NearConclusion)

NearCapture ==
  \/ StartCapture("block") \/ NearReadBlock \/ NearReadLock \/ NearReadPayee \/ NearDecide

-----------------------------------------------------------------------------
(* Solana *)

SolReadSlot(tries) ==
  \E h \in 1..FinalHeight :
    /\ FinalAsSeen(h)
    /\ got' = [tries |-> tries, min |-> h, moved |-> FALSE]
    /\ at' = "escrow"

\* One account, from whichever final slot the node answers for: it may be a
\* later one than the escrow's, without a block between them.
SolRead(from, to, label, slotMoves) ==
  /\ at = from
  /\ \E h \in got.min..FinalHeight, moved \in slotMoves :
       /\ FinalAsSeen(h)
       /\ Reads(from, to, [l \in DOMAIN got \cup {label} |->
                             CASE l = label -> h
                               [] l = "moved" -> got.moved \/ moved
                               [] OTHER -> got[l]])

SolStart == at = "idle" /\ SolReadSlot(1) /\ UNCHANGED <<leg, blocks, chain, said>>
SolReadEscrow == SolRead("escrow", "vault", "escrow", {FALSE})
SolReadVault == SolRead("vault", "payee", "vault", BOOLEAN)
SolReadPayee == SolRead("payee", "decide", "payee", BOOLEAN)

\* The mutant compares the escrow and its vault only.
EscrowAndVaultOneSlot == got.escrow = got.vault
OneSlot == got.escrow = got.vault /\ got.vault = got.payee /\ ~got.moved

\* Reads that straddle two slots are made again, all of them.
SolAgain ==
  /\ at = "decide" /\ ~OneSlot /\ got.tries < Attempts
  /\ SolReadSlot(got.tries + 1)
  /\ UNCHANGED <<leg, blocks, chain, said>>

\* A mixed view is never trusted.  The vault holds the amount as long as the
\* escrow is locked.
SolConclusion ==
  LET status == BlockAt(got.escrow).leg
      funded == BlockAt(got.vault).leg = "locked"
      payable == BlockAt(got.payee).payable IN
  CASE ~OneSlot \/ status = "none" -> Unverified
    [] OneSlot /\ status = "locked" -> Judge(status, funded /\ payable)
    [] OneSlot /\ status \in {"claimed", "refunded"} -> Judge(status, TRUE)

SolDecide ==
  /\ at = "decide" /\ (OneSlot \/ got.tries = Attempts)
  /\ Conclude(SolConclusion)

SolCapture ==
  \/ SolStart \/ SolReadEscrow \/ SolReadVault \/ SolReadPayee \/ SolAgain \/ SolDecide
=============================================================================
