----------------------------- MODULE EscrowBase -----------------------------
(***************************************************************************)
(* What the three escrow contracts have in common: who calls them, the     *)
(* hash locks and the times they are given, and the bounds of an instance. *)
(* Addresses and hash locks are model values, and sha256 is the function   *)
(* Sha256 from preimages to hash locks.                                    *)
(***************************************************************************)
EXTENDS Naturals, FiniteSets

CONSTANTS
  Accounts,      \* accounts that send transactions
  Rail,          \* the contract's own address
  HashLocks,
  Preimages,
  Sha256,        \* [Preimages -> HashLocks]
  Supply,        \* what every account holds of every token at first
  MaxAmount,     \* bound on the amounts locked
  MsPerSecond,   \* 1000 in the contracts that read seconds
  Deadlines,     \* ms-epoch values passed as claimByMs and refundAfterMs
  MaxTimestamp   \* bound on the block time, in seconds

\* Addresses and hashes are of bounded length: there are finitely many.
ASSUME AccountsAssumption == IsFiniteSet(Accounts) /\ Rail \notin Accounts
ASSUME HashAssumption == IsFiniteSet(HashLocks) /\ Sha256 \in [Preimages -> HashLocks]
ASSUME NumbersAssumption ==
  /\ Supply \in Nat /\ MaxAmount \in Nat /\ MaxTimestamp \in Nat
  /\ MsPerSecond \in Nat \ {0}
  /\ Deadlines \subseteq Nat

=============================================================================
