----------------------------- MODULE SwapWorld -----------------------------
(***************************************************************************)
(* What the Buyer's and the Seller's flows of one swap share: the wall     *)
(* clock, leg A's escrow on an EVM chain, leg B's note on the paper rail,  *)
(* and the venue's rooms.                                                  *)
(*                                                                         *)
(* Leg A. headA is the escrow's status at the latest block and finalA at   *)
(* the finalized one, where "absent" says that the block is at or past leg *)
(* A's refund time and holds no lock. A transaction that was ever          *)
(* broadcast stays in sent, because any node may still hold it, and is     *)
(* mined at any later time the contract accepts it, or never. Blocks carry *)
(* the time they are mined at, so the contract's checks are against now.   *)
(*                                                                         *)
(* Leg B.  The paper rail is a note store with its own checks, not part of *)
(* this repository; noteB is the note's status.                            *)
(*                                                                         *)
(* Rooms.  room holds the kinds of the frames that were posted, late those *)
(* of the two accepts that were stamped at or after the offer's expiry.    *)
(* The reveal of leg B and the two refund frames, which neither flow       *)
(* reads, are posted with the receipts they come right before.             *)
(***************************************************************************)
EXTENDS Deadlines

CONSTANTS
  Policy,             \* DeadlinePolicy of leg A's rail
  ClaimInclusionMs,   \* policy.claimInclusionMarginMs
  OfferExpiryMs,      \* SELLER_OFFER_EXPIRY_MARGIN_MS
  LockNeedMs,         \* finalityAMs + LOCK_SETTLE_ALLOWANCE_MS, or 0 off Base Sepolia
  LockTimes,          \* lock times the runners declare when they pair the legs
  OffersA, OffersB,   \* deadlines the Buyer may bid, and the Seller may propose
  NoOffer,
  MaxTime,            \* bound on the clock
  MaxReorgs           \* bound on chain reorganisations

Offer == [expiresMs : Nat, claimByMs : Nat, refundAfterMs : Nat]

ASSUME WorldAssumption ==
  /\ Policy \in DeadlinePolicy /\ checkPolicy(Policy)
  /\ ClaimInclusionMs \in Nat /\ OfferExpiryMs \in Nat /\ LockNeedMs \in Nat
  /\ LockTimes \subseteq Nat
  /\ OffersA \subseteq Offer /\ OffersB \subseteq Offer
  /\ NoOffer \notin Offer
  /\ MaxTime \in Nat \ {0} /\ MaxReorgs \in Nat

VARIABLES
  now, offerA, offerB,
  headA, finalA, sent, reorgs,
  noteB, room, late

chainVars == <<headA, finalA, reorgs>>
worldVars == <<now, offerA, offerB, chainVars, sent, noteB, room, late>>

LegStatus == {"none", "locked", "claimed", "refunded"}
Transactions == {"lock", "claim", "refund"}
Frames == {"offer-a", "accept-a", "offer-b", "accept-b", "account-seller",
           "account-buyer", "lock-b", "lock-a", "reveal-a", "receipt-a",
           "receipt-b", "receipt-refund-a", "receipt-refund-b"}

WorldTypeOK ==
  /\ now \in 1..MaxTime
  /\ offerA \in OffersA \cup {NoOffer}
  /\ offerB \in OffersB \cup {NoOffer}
  /\ headA \in LegStatus /\ finalA \in LegStatus \cup {"absent"}
  /\ sent \subseteq Transactions
  /\ reorgs \in 0..MaxReorgs
  /\ noteB \in LegStatus
  /\ room \subseteq Frames
  /\ late \subseteq {"accept-a", "accept-b"}

WorldInit ==
  /\ now = 1
  /\ offerA = NoOffer /\ offerB = NoOffer
  /\ headA = "none" /\ finalA = "none"
  /\ sent = {}
  /\ reorgs = 0
  /\ noteB = "none"
  /\ room = {} /\ late = {}

-----------------------------------------------------------------------------
(* What the flows' actions read and write. *)

RefundATime == now >= offerA.refundAfterMs
RefundBTime == now >= offerB.refundAfterMs

\* The finalized block holds leg A's lock, settled or not.
LockFinal == finalA \in {"locked", "claimed", "refunded"}

\* The rules hold for a pair of offers at a declared lock time.
PairOk(a, b) == \E lockTimeMs \in LockTimes : checkSwapDeadlines(a, b, lockTimeMs, Policy)

\* A frame is posted: once, whoever asks again (FlowJournal.ensurePosted).
Post(kind) == room' = room \cup {kind}

\* The venue stamps an accept with the time it arrives.
PostStamped(kind, expiresMs) ==
  /\ Post(kind)
  /\ late' = IF kind \notin room /\ now >= expiresMs THEN late \cup {kind} ELSE late

BothAccountLines == {"account-seller", "account-buyer"} \subseteq room

-----------------------------------------------------------------------------
(* The chain of leg A, and time. *)

\* EvmHashRail.lock in a block.
MineLock ==
  /\ "lock" \in sent
  /\ headA = "none"
  /\ ~RefundATime
  /\ headA' = "locked"
  /\ UNCHANGED <<now, offerA, offerB, finalA, reorgs, sent, noteB, room, late>>

\* EvmHashRail.claim in a block.
MineClaim ==
  /\ "claim" \in sent
  /\ headA = "locked"
  /\ ~RefundATime
  /\ headA' = "claimed"
  /\ UNCHANGED <<now, offerA, offerB, finalA, reorgs, sent, noteB, room, late>>

\* EvmHashRail.refund in a block.
MineRefund ==
  /\ "refund" \in sent
  /\ headA = "locked"
  /\ RefundATime
  /\ headA' = "refunded"
  /\ UNCHANGED <<now, offerA, offerB, finalA, reorgs, sent, noteB, room, late>>

\* The finalized block moves up to a later block that holds the lock.
Finalize ==
  /\ headA \notin {finalA, "none"}
  /\ finalA' \in {headA, "locked"} \ {finalA}
  /\ UNCHANGED <<now, offerA, offerB, headA, reorgs, sent, noteB, room, late>>

\* It moves past leg A's refund time without a lock in any block up to it:
\* none that is mined later can hold one.
FinalizeNoLock ==
  /\ offerA # NoOffer
  /\ finalA = "none" /\ headA = "none"
  /\ RefundATime
  /\ finalA' = "absent"
  /\ UNCHANGED <<now, offerA, offerB, headA, reorgs, sent, noteB, room, late>>

\* Blocks that are not final are replaced; their transactions stay in sent.
Reorg ==
  /\ reorgs < MaxReorgs
  /\ headA \notin {finalA, "none"}
  /\ headA' \in (IF finalA = "none" THEN {"none", "locked"} ELSE {"locked"}) \ {headA}
  /\ reorgs' = reorgs + 1
  /\ UNCHANGED <<now, offerA, offerB, finalA, sent, noteB, room, late>>

Tick ==
  /\ now < MaxTime
  /\ now' = now + 1
  /\ UNCHANGED <<offerA, offerB, chainVars, sent, noteB, room, late>>

WorldNext == MineLock \/ MineClaim \/ MineRefund \/ Finalize \/ FinalizeNoLock \/ Reorg \/ Tick

=============================================================================
