------------------------------ MODULE LegWorld ------------------------------
(***************************************************************************)
(* Leg A of one swap on a chain other than the EVM one: what the Bitcoin,  *)
(* NEAR and Solana rails and the two flows on top of them share.  SwapWorld *)
(* and the flow modules take a sent transaction to be mined or not; here   *)
(* the question is how a flow that lost its answer, its process or its     *)
(* transaction finds out what became of it, and what it may then send.     *)
(*                                                                         *)
(* now is the clock and the height of the block that is being filled: a    *)
(* block becomes final when the next one is begun.  head and fin are what  *)
(* the chain holds at the latest and at the final block: the escrow's      *)
(* status, whether the secret is in it, and the transactions that are      *)
(* being run (running), took effect (done) or ran without effect (failed). *)
(* pool holds the transactions that a node still has and may put into a    *)
(* block, handed every one that a node was ever given.                     *)
(*                                                                         *)
(* bRec and sRec are what the Buyer's and the Seller's flow have saved,    *)
(* bAt and sAt how far a running call has come, bSaw and sSaw what it has  *)
(* read, at which block, and not yet acted on.  A call that throws, or     *)
(* dies with its process, goes back to "idle" and leaves the record.       *)
(* Every such event, every lost answer, eviction, fork, spurious refusal   *)
(* and failed payout counts against maxFaults.                             *)
(***************************************************************************)
EXTENDS Integers, FiniteSets

CONSTANTS
  Rails,   \* which of "btc", "near" and "sol" leg A may be on
  Terms    \* for each of them, leg A's times and the bounds

TermsOK(t) ==
  /\ {t.lockBy, t.claimBy, t.refundAfter, t.margin, t.refundB, t.validFor,
      t.maxTime, t.maxSigned, t.maxFaults} \subseteq Nat
  /\ 1 <= t.maxTime /\ t.lockBy <= t.claimBy /\ t.claimBy + t.margin <= t.refundAfter
  /\ t.refundAfter < t.refundB

ASSUME LegAssumption ==
  /\ Rails \subseteq {"btc", "near", "sol"}
  /\ DOMAIN Terms = Rails /\ \A r \in Rails : TermsOK(Terms[r])

VARIABLES rail, now, note, head, fin, pool, handed, faults,
          bRec, bAt, bSaw, sRec, sAt, sSaw, room

chainView == <<head, fin, pool, handed>>
buyerSide == <<bRec, bAt, bSaw>>
sellerSide == <<sRec, sAt, sSaw>>
legVars == <<rail, now, note, chainView, faults, buyerSide, sellerSide, room>>

LockBy == Terms[rail].lockBy          \* the deadline rules refuse a lock from here on
ClaimBy == Terms[rail].claimBy
RefundAfter == Terms[rail].refundAfter
Margin == Terms[rail].margin          \* claimInclusionMarginMs
RefundB == Terms[rail].refundB        \* leg B's refund time
ValidFor == Terms[rail].validFor      \* blocks a NEAR or Solana transaction stays valid
MaxTime == Terms[rail].maxTime
MaxSigned == Terms[rail].maxSigned    \* of a kind (on NEAR: of a key)
MaxFaults == Terms[rail].maxFaults

\* A signed transaction: n tells two of a kind apart (on NEAR it is the nonce),
\* until is the last block that may hold it.
Kinds == {"lock", "claim", "refund", "other"}
Tx == [kind : Kinds, n : 1..MaxSigned, until : 0..MaxTime]
NoTx == [kind |-> "none", n |-> 0, until |-> 0]

LegStatuses == {"none", "locked", "claiming", "claimed", "refunding", "refunded"}
View == [leg : LegStatuses, shown : BOOLEAN, running : SUBSET Tx,
         done : SUBSET Tx, failed : SUBSET Tx]
EmptyView == [leg |-> "none", shown |-> FALSE, running |-> {}, done |-> {}, failed |-> {}]

Nothing == [of |-> "nothing", saw |-> "nothing", at |-> 0]
Saw(of, saw, at) == [of |-> of, saw |-> saw, at |-> at]

BuyerRecord ==
  [attempted : BOOLEAN, lock : Tx \cup {NoTx}, locked : BOOLEAN,
   refunding : BOOLEAN, refund : Tx \cup {NoTx}, refunded : BOOLEAN,
   tookB : BOOLEAN, done : BOOLEAN]

\* claims: the claims on record that are not settled (at most one on Bitcoin,
\* none on NEAR); sent and the three after it: #claimTx.sent,
\* neverLandedClaims > 0, publicClaimSignature, claimOutcome "landed".
SellerRecord ==
  [attempted : BOOLEAN, claims : SUBSET Tx, sent : BOOLEAN,
   starved : BOOLEAN, public : BOOLEAN, landed : BOOLEAN]

ViewOK(view) ==
  /\ view.leg \in LegStatuses /\ view.shown \in BOOLEAN
  /\ view.running \cup view.done \cup view.failed \subseteq handed
  /\ view.running \cap (view.done \cup view.failed) = {}

\* What parseBuyer and parseSeller ask of the fields of a record: one that a
\* flow saved and they refuse could never be opened again.
RecordsLoad ==
  /\ bRec.lock # NoTx <=> bRec.attempted
  /\ bRec.locked \/ bRec.refunding \/ bRec.tookB => bRec.attempted
  /\ bRec.refund # NoTx \/ bRec.refunded => bRec.refunding
  /\ bRec.done => bRec.refunded
  /\ sRec.claims # {} \/ sRec.sent \/ sRec.starved \/ sRec.public => sRec.attempted

LegTypeOK ==
  /\ RecordsLoad
  /\ now \in 1..MaxTime
  /\ note \in {"locked", "claimed", "refunded"}
  /\ ViewOK(head) /\ ViewOK(fin)
  /\ pool \subseteq handed /\ handed \subseteq Tx
  /\ faults \in 0..MaxFaults
  /\ bRec \in BuyerRecord
  /\ sRec.claims \subseteq Tx /\ [sRec EXCEPT !.claims = {}] \in SellerRecord
  /\ room \subseteq {"reveal", "receipt"}

\* The legs are paired and leg B's note is locked and verified.
LegInit ==
  /\ rail \in Rails
  /\ now = 1 /\ note = "locked"
  /\ head = EmptyView /\ fin = EmptyView
  /\ pool = {} /\ handed = {}
  /\ faults = 0
  /\ bRec = [attempted |-> FALSE, lock |-> NoTx, locked |-> FALSE,
             refunding |-> FALSE, refund |-> NoTx, refunded |-> FALSE,
             tookB |-> FALSE, done |-> FALSE]
  /\ sRec = [attempted |-> FALSE, claims |-> {}, sent |-> FALSE,
             starved |-> FALSE, public |-> FALSE, landed |-> FALSE]
  /\ bAt = "idle" /\ sAt = "idle" /\ bSaw = Nothing /\ sSaw = Nothing
  /\ room = {}

-----------------------------------------------------------------------------
(* Steps of the chain, time and leg B's note *)

Included(view) == view.running \cup view.done \cup view.failed

Fault == faults < MaxFaults /\ faults' = faults + 1

Advance ==
  /\ now < MaxTime
  /\ now' = now + 1
  /\ fin' = head
  /\ UNCHANGED <<rail, note, head, pool, handed, faults, buyerSide, sellerSide, room>>

\* The blocks that are not final are replaced; nodes keep what was in them.
Fork ==
  /\ head # fin
  /\ head' = fin
  /\ pool' = pool \cup (Included(head) \ Included(fin))
  /\ Fault
  /\ UNCHANGED <<rail, now, note, fin, handed, buyerSide, sellerSide, room>>

\* A node drops a transaction.
Evict ==
  /\ \E tx \in pool : pool' = pool \ {tx}
  /\ Fault
  /\ UNCHANGED <<rail, now, note, head, fin, handed, buyerSide, sellerSide, room>>

\* The Seller takes its note back (refundLegB).
NoteBack ==
  /\ note = "locked" /\ now >= RefundB
  /\ note' = "refunded"
  /\ UNCHANGED <<rail, now, chainView, faults, buyerSide, sellerSide, room>>

\* What a step of the chain leaves alone, besides the final view.
ChainOnly == UNCHANGED <<rail, now, note, fin, handed, buyerSide, sellerSide, room>>

-----------------------------------------------------------------------------
(* What the calls are made of *)

BGo(from, to) == bAt = from /\ bAt' = to
SGo(from, to) == sAt = from /\ sAt' = to
BSet(record) == bRec' = record
SSet(record) == sRec' = record

\* What only the Buyer's, or only the Seller's, own saves and reads change,
\* and what a call that also sends a transaction changes.
BLocal == UNCHANGED <<rail, now, note, chainView, faults, sellerSide, room>>
SLocal == UNCHANGED <<rail, now, note, chainView, faults, buyerSide, room>>
BSends == UNCHANGED <<rail, now, note, head, fin, sellerSide, room>>
SSends == UNCHANGED <<rail, now, note, head, fin, buyerSide, room>>
SendsNothing == UNCHANGED <<pool, handed, faults>>

\* A transaction that is signed: unlike every one of its kind that was sent.
NextTx(kind, until) ==
  [kind |-> kind, n |-> 1 + Cardinality({tx \in handed : tx.kind = kind}), until |-> until]
MaySign(kind) == NextTx(kind, 0).n <= MaxSigned

Hand(tx) == handed' = handed \cup {tx} /\ pool' = pool \cup {tx}

\* A call throws or dies; what it did stays done.
BuyerThrows ==
  /\ bAt # "idle" /\ bAt' = "idle" /\ bSaw' = Nothing
  /\ Fault
  /\ UNCHANGED <<rail, now, note, chainView, bRec, sellerSide, room>>

SellerThrows ==
  /\ sAt # "idle" /\ sAt' = "idle" /\ sSaw' = Nothing
  /\ Fault
  /\ UNCHANGED <<rail, now, note, chainView, sRec, buyerSide, room>>

-----------------------------------------------------------------------------
(* The Buyer's calls, where the rails do not differ *)

\* checkLockGuards and checkLockDeadlines: every lock that is built or sent
\* again is held to them.
MayLock == now < LockBy /\ note = "locked"

\* lockLegA: the rail prepares one lock transaction (prepareLock), saved
\* before it is sent.
PrepareLock(tx) ==
  /\ BGo("idle", "lock")
  /\ ~bRec.attempted
  /\ MayLock
  /\ BSet([bRec EXCEPT !.attempted = TRUE, !.lock = tx])
  /\ UNCHANGED bSaw
  /\ BLocal

\* refundLegA.  claimKnown: what checkPendingClaim answers; it sends the Buyer
\* to claim leg B instead (routeToClaim, which the runner's modules have).
\* after: what is done once a refund is on record.
RefundLegA(claimKnown, after) ==
  /\ bRec.attempted /\ ~bRec.tookB /\ ~bRec.done
  /\ now >= RefundAfter
  /\ ~claimKnown
  /\ BGo("idle", IF bRec.refunded THEN after ELSE IF bRec.refunding THEN "recover" ELSE "sign")
  /\ UNCHANGED <<bRec, bSaw>>
  /\ BLocal

\* What verifyLockFinal says at the final block, wherever refundLegA asks.
SeenRefunded(from) ==
  fin.leg = "refunded" /\ BGo(from, "verify") /\ BSet([bRec EXCEPT !.refunded = TRUE])
SeenClaimed(from) ==
  fin.leg = "claimed" /\ BGo(from, "idle") /\ UNCHANGED bRec
SeenNeither(from, to) ==
  fin.leg \notin {"refunded", "claimed"} /\ BGo(from, to)

\* recoverRefundA, once the rail has said what became of the recorded refund:
\* a fresh one only if none was ever signed, the recorded one never landed
\* (on Bitcoin: never even then), or it landed and failed and leg A is locked.
FreshRefund ==
  \/ bSaw.saw = "no handle"
  \/ bSaw.saw = "never-landed" /\ rail # "btc"
  \/ bSaw.saw = "landed-failed" /\ fin.leg = "locked" /\ ~fin.shown

RecoverRefundA ==
  /\ bSaw' = Nothing
  /\ \/ SeenRefunded("observe")
     \/ SeenClaimed("observe")
     \/ FreshRefund /\ SeenNeither("observe", "sign") /\ BSet([bRec EXCEPT !.refund = NoTx])
     \/ ~FreshRefund /\ SeenNeither("observe", "idle") /\ UNCHANGED bRec
  /\ BLocal

\* refund threw.
RefundFailed ==
  /\ SeenRefunded("failed") \/ SeenClaimed("failed") \/ (SeenNeither("failed", "idle") /\ UNCHANGED bRec)
  /\ UNCHANGED bSaw
  /\ BLocal

\* Mutant: a refund is reported once it is in a block.
ReportRefundEarly ==
  /\ BGo("verify", "idle")
  /\ head.leg = "refunded" /\ BSet([bRec EXCEPT !.done = TRUE])
  /\ UNCHANGED bSaw
  /\ BLocal

\* Only a final refund is reported.
ReportRefund ==
  /\ \/ SeenClaimed("verify")
     \/ fin.leg = "refunded" /\ BGo("verify", "idle") /\ BSet([bRec EXCEPT !.done = TRUE])
     \/ SeenNeither("verify", "idle") /\ UNCHANGED bRec
  /\ UNCHANGED bSaw
  /\ BLocal

\* learnSecret and claimLegB once the secret can be had (BuyerFlow has the
\* steps of these calls).
TakeLegB(secretKnown) ==
  /\ bRec.attempted /\ bAt = "idle"
  /\ secretKnown
  /\ note = "locked" /\ now < RefundB
  /\ note' = "claimed"
  /\ BSet([bRec EXCEPT !.tookB = TRUE])
  /\ UNCHANGED <<rail, now, chainView, faults, bAt, bSaw, sellerSide, room>>

-----------------------------------------------------------------------------
(* The Seller's guards *)

\* assertFirstClaimGuards: in time, and the lock verified at the final block.
ClaimTimes == now < ClaimBy /\ RefundAfter - now >= Margin
NotAfter == RefundAfter - Margin
LockVerified == fin.leg = "locked" /\ ~fin.shown
FirstClaimGuards == ClaimTimes /\ LockVerified

\* The reveal frame, which a caller may ask not to post.
MayReveal == room' \in {room, room \cup {"reveal"}}

=============================================================================
