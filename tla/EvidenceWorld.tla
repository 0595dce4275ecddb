--------------------------- MODULE EvidenceWorld ---------------------------
(***************************************************************************)
(* One leg of a swap on its chain, and a party (the watcher, an auditor)   *)
(* that asks a node about it.  A capture is several reads, one after the   *)
(* other, while blocks are made and forked; the evidence is what is        *)
(* concluded from the answers alone.  The modules BtcEvidence, EvmEvidence *)
(* and AccountEvidence (NEAR, Solana) have the reads and the conclusions.  *)
(*                                                                         *)
(* blocks are all that were ever made, chain (numbers of blocks, from      *)
(* height 1) those that count now.  Of a block only what it does to the    *)
(* leg is kept: the state of the leg in it, and whether the payee's        *)
(* account could take the payout then.  at is the next read of a running   *)
(* capture, got what was answered so far, said the last evidence.          *)
(***************************************************************************)
EXTENDS Integers, Sequences, FiniteSets

CONSTANTS
  Rails,      \* a subset of {"btc", "evm", "near", "sol"}
  Bounds,     \* for each of them: how many of the newest blocks a fork may replace
              \* (depth), and the limits of the model
  ScanWindow, \* Bitcoin: scanWindowBlocks
  Attempts    \* Solana: SOL_CAPTURE_ATTEMPTS

ASSUME EvidenceAssumption ==
  /\ Rails \subseteq {"btc", "evm", "near", "sol"}
  /\ Bounds \in [Rails -> [depth : Nat, height : Nat, blocks : Nat, faults : Nat]]
  /\ ScanWindow \in Nat \ {0} /\ Attempts \in Nat \ {0}

VARIABLES rail, ours, lines, blocks, chain, faults, at, got, said

leg == <<rail, ours, lines>>        \* ours: the lock at the ref was made with the
world == <<blocks, chain, faults>>  \* agreed terms; lines: both account lines are proven
evidenceVars == <<leg, world, at, got, said>>

LegStates ==
  {"none", "locked", "claiming", "revealed", "claimed", "refunding", "refunded"}

NoReads == [none |-> TRUE]
NoEvidence == [verdict |-> "null", rail |-> "none"]

-----------------------------------------------------------------------------
(* The chain *)

Depth == Bounds[rail].depth
MaxHeight == Bounds[rail].height
MaxBlocks == Bounds[rail].blocks
\* Forks, failed reads, and answers of a node that lags behind.
MaxFaults == Bounds[rail].faults

Max2(a, b) == IF a > b THEN a ELSE b

BlockAt(h) == blocks[chain[h]]
Tip == Len(chain)
\* The newest block that no fork can replace.
FinalHeight == Max2(1, Tip - Depth)

\* What one transaction makes of the leg.  On NEAR the transfer is a receipt
\* of its own, and may fail: a failed claim leaves the lock with its preimage
\* in the open, a failed refund leaves it as it was.
OneStep(l) ==
  CASE l = "none" -> {"locked"}
    [] l = "locked" -> IF rail = "near" THEN {"claiming", "refunding"} ELSE {"claimed", "refunded"}
    [] l = "claiming" -> {"claimed", "revealed"}
    [] l = "revealed" -> {"claiming"}
    [] l = "refunding" -> {"refunded", "locked"}
    [] OTHER -> {}

\* A lock may be claimed in the block that made it.
InOneBlock(l) == {l} \cup OneStep(l) \cup (IF l = "none" /\ rail # "near" THEN {"claimed"} ELSE {})

\* Only NEAR's storage registration and Solana's token account can go away.
MayPay == IF rail \in {"near", "sol"} THEN BOOLEAN ELSE {TRUE}

\* k blocks are made on top of prefix.
Grow(prefix, k) ==
  /\ Len(blocks) + k <= MaxBlocks
  /\ \E ls \in [1..k -> LegStates], ps \in [1..k -> MayPay] :
       /\ \A i \in 1..k : ls[i] \in InOneBlock(IF i = 1 THEN blocks[prefix[Len(prefix)]].leg ELSE ls[i - 1])
       /\ blocks' = blocks \o [i \in 1..k |-> [height |-> Len(prefix) + i, leg |-> ls[i], payable |-> ps[i]]]
  /\ chain' = prefix \o [i \in 1..k |-> Len(blocks) + i]

Fault == faults < MaxFaults /\ faults' = faults + 1

Mine ==
  /\ Tip < MaxHeight
  /\ Grow(chain, 1)
  /\ UNCHANGED <<leg, faults, at, got, said>>

\* The newest blocks are replaced; the new branch is as long as the old one.
Fork ==
  /\ Fault
  /\ \E k \in 1..Depth : k < Tip /\ Grow(SubSeq(chain, 1, Tip - k), k)
  /\ UNCHANGED <<leg, at, got, said>>

-----------------------------------------------------------------------------
(* A capture *)

Reads(from, to, answers) == at = from /\ at' = to /\ got' = answers /\ UNCHANGED <<leg, blocks, chain, said>>
Honest == UNCHANGED faults

\* A block a node may give as its newest final one: a node that is behind is
\* a fault.
FinalAsSeen(h) == IF h = FinalHeight THEN Honest ELSE h \in 1..(FinalHeight - 1) /\ Fault

StartCapture(first) == Reads("idle", first, NoReads) /\ Honest

Conclude(evidence) == at' = "idle" /\ got' = NoReads /\ said' = evidence /\ UNCHANGED <<leg, world>>

\* A read that throws ends the capture; nothing is concluded from it.
ReadFails ==
  /\ at # "idle" /\ Fault
  /\ at' = "idle" /\ got' = NoReads /\ said' = NoEvidence
  /\ UNCHANGED <<leg, blocks, chain>>

-----------------------------------------------------------------------------
(* What is concluded of a leg whose final state was read *)

Unverified == NoEvidence
Refuted(status) == [verdict |-> "false", rail |-> status]
Verified == [verdict |-> "true", rail |-> "locked"]

\* A lock that differs from the terms is refuted.  A settled leg that differs
\* may be another one's, and nothing is said.
Judge(status, payable) ==
  CASE ~lines -> Unverified
    [] lines /\ status = "locked" -> IF ours /\ payable THEN Verified ELSE Refuted("none")
    [] lines /\ status # "locked" -> IF ours THEN Refuted(status) ELSE Unverified

EvidenceInit ==
  /\ rail \in Rails /\ ours \in BOOLEAN /\ lines \in BOOLEAN
  /\ blocks = <<[height |-> 1, leg |-> "none", payable |-> TRUE]>>
  /\ chain = <<1>> /\ faults = 0
  /\ at = "idle" /\ got = NoReads /\ said = NoEvidence
=============================================================================
