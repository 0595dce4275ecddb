# Verification of the swap desk

The desk swaps a stablecoin (leg A, a hashed timelock on an EVM chain, Bitcoin,
NEAR or Solana) against FLOP (leg B, in this build a note on the paper rail).
Buyer and Seller never trust each other: both legs are locked under one hash,
the Seller's claim of leg A publishes the secret that opens leg B, and each leg
goes back to its payer after its refund time. This directory holds TLA+ modules
translated from the code, TLC configurations for them, and proofs that TLAPS
checks. `PROJECT.json` maps every definition to the lines it stands for.

## Inventory

| Part | State it keeps | Operations | What makes it correct |
|---|---|---|---|
| `contracts/EvmHashRail.sol` | a lock per hash; tokens | lock, claim, refund; each ends in a call of the token, which may call back | money in once, out once, to the right side of the refund time; never more owed than held |
| `contracts-near/htlc`, `contracts-sol/htlc` | locks; on NEAR also transfers under way | the same, on NEAR with an asynchronous transfer and a callback | the same promise, over failed transfers |
| `src/deadlines.ts` | none | `checkSwapDeadlines` (rules 1 to 3) | an accepted pair leaves both parties their margins, also when it is used later than it was checked |
| `src/client/seller.ts` | the Seller's record, pending flags | acceptLegA, postAccountLineA, lockLegB, reconcileLegB, claimLegA, refundLegB, `next` | paid on leg A or leg B back; the secret only for a final lock; no false receipt |
| `src/client/buyer.ts` | the Buyer's record, pending flags | bid, acceptLegB, verifyLegBLocked, postAccountLineA, lockLegA, reconcileLockA, learnSecret, claimLegB, refundLegA, `next` | leg A back or leg B taken; no verdict that the chain takes back |
| `src/client/evm-rail.ts`, `src/rails/evm-htlc.ts` | none of its own | sends with a last guard, receipts, reads at the latest and the finalized block | what counts as evidence, and at which block |
| `src/client/flow-store.ts` | a file per record, lock and temp files | load, save (compare-and-swap), exclusive section | a save that resolved is never lost; what a crash leaves blocks nobody |
| `src/client/flow-resume.ts` | the journal of a flow | open, update, ensurePosted | durable before visible; a line is posted once |
| `src/client/rehearsal-run.ts` | run and outcome files | settle, resume, refund | both parties are brought to an end |
| `src/swap.ts`, `src/board.ts`, `src/replay.ts` | none (folds over transcripts) | foldSwap, the board | the same status for everyone, whatever order and duplicates |
| `src/watcher.ts` | `state.json`, `swaps.jsonl`, captures | sweep | every transition reported, across crashes |
| Bitcoin, NEAR and Solana rails (`src/client/*-rail.ts`, `src/rails/*-htlc.ts`) | recorded handles and signed bytes | as the EVM rail, plus recovery and resends | nothing sent twice, nothing that may still land forgotten; the same evidence rules on other chains |
| `src/rails/*-evidence.ts`, `src/rails/rpc-capture.ts` | a capture per leg and sweep | reads, one after the other; the verdict from the answers | what is called final is final, and a lock is judged on one block |
| `src/client/flow-record.ts`, set-up, key files, bundles, tools | files | encoding, checks, I/O | data; not state machines |

The parts meet in few places. A runner calls one public step of a flow at a
time; a step reads rooms and chain, saves its intention in the record through
the journal and the store, acts (sends a transaction, writes the note, posts a
frame), and saves the result. The parties share only the venue's rooms, leg A's
chain, leg B's note and the wall clock.

What is hard here: a crash, a throw or a lost connection between any save and
the act it announces; transactions mined late, or in a block that is replaced;
two clocks' worth of deadlines checked at one time and relied on at another; a
refund racing a claim; two processes on one record. `PROJECT.json` lists each
at its line under `hazards`.

## Modules

| Module | Models | State and actions |
|---|---|---|
| `Htlc` | what any escrow promises | status and whether the refund time has come |
| `EscrowBase` | what the escrows share | accounts, hash locks, preimages |
| `EvmHashRail` | the Solidity contract | `locks`, block time, token balances and allowances, the stack of token calls; lock, claim and refund each do checks and effects in one step and push a call, during which the token may re-enter, return or fail and undo |
| `NearHtlc` | the NEAR contract | `nLocks`, balances, `receipts` still to run: a payout and its callback run in later blocks than the call that made them, and may fail |
| `SolHtlc` | the Solana program | escrows by payer and hash lock, vaults that anyone may send tokens to, token accounts that may be frozen |
| `Deadlines` | `deadlines.ts` | operators only |
| `DeadlineDrift` | the rules over time | a pair and a clock that moves on after the check |
| `SwapWorld` | what the flows share | clock, offers, leg A at the latest (`headA`) and the finalized block (`finalA`), transactions ever sent, leg B's note, frames posted |
| `SellerFlow`, `BuyerFlow` | the two flows, EVM rail, with a store | `sRec`/`bRec`: the facts of the stored record; `sPc`/`bPc`: for each pending flag of the class how far the call that holds it has come; `bHolds`: the secret in the runner's memory |
| `Swap` | both flows on one world | the properties of a swap |
| `SwapRunner` | runners that keep going | the calls `next` names, failures and restarts, fairness |
| `LegWorld` | leg A and its two flows on the other chains | what the chain holds at the latest (`head`) and the final block (`fin`), transactions a node has (`pool`) or was ever given (`handed`), the records, and what a running call has read and not yet acted on |
| `BtcRail`, `NearRail`, `SolRail` | the three rails under lockLegA, recoverLockA, claimLegA, refundLegA, recoverRefundA | what makes a transaction valid on the chain, and the rail's prepare, commit, recover and resend, read by read |
| `Legs` | one leg on one of the rails | composition, fairness, properties |
| `EvidenceWorld` | a chain and someone who asks a node about it | every block ever made, those that count, the reads of a capture so far, the last evidence |
| `BtcEvidence`, `EvmEvidence`, `AccountEvidence` | the captures and verdicts of the four rails | the reads in their order; what is concluded |
| `Rooms` | what the watcher reads | lines of the offers room, state of the deal rooms, legs on their chains |
| `Board` | `board.ts` and `swap.ts` | operators: pairs and contracts from lines, statuses from rooms and evidence |
| `Watcher` | `sweepOnce` | a sweep's reads, then `board.json`, `swaps.jsonl`, `HIT`, `state.json`, one step each |
| `FlowJournal` | the journals of a Seller | stored records, lines in the rooms or still under way, flow objects with their overlapping posts |
| `FlowStore` | `FileFlowStore.save` under `FlowJournal.commit` | record, durable record, temp files, lock file, and each flow's place in its save; every file operation is a step |
| `SwapProofs` | | theorems about `Swap` |
| `LegProofs` | | theorems about `Legs` |
| `DeadlineProofs` | | theorems about `Deadlines` and `DeadlineDrift` |
| `EscrowProofs` | | theorems about the three escrows |
| `EvidenceProofs` | | theorems about the evidence on the four rails |
| `RoomsProofs` | | theorems about the journals, the watcher and the board |
| `FlowStoreProofs` | | theorems about `FlowStore` |
| `SumTheorems` | | facts the proofs share: how a sum over a finite set changes with one element, the least of a set of numbers |
| `MC...` | | instances for TLC; `MCEscrows`, `MCEvidence` and `MCRooms` also put parts side by side, of which one behaviour is about one |

`Swap` extends the two flows, which extend `SwapWorld`, which extends
`Deadlines`; `SwapRunner` and `SwapProofs` extend `Swap`. Each escrow module
instantiates `Htlc` once per lock. `Legs` extends the three rails, which extend
`LegWorld`; the evidence modules extend `EvidenceWorld`; `Watcher` extends
`Board`, which extends `Rooms`.

**The flows (EVM).** A step ends where the code has saved something or has done
something others can see. `SellerThrows` and `BuyerThrows` end a call at any
such place, `BuyerRestarts` ends the process and what it held in memory; the
record stays, and the next call resumes from it. Frames, signatures, accounts
and amounts are abstracted to their presence: the flows refuse what does not
match, and a refused call is no step. `SendLock` is the approve and the lock
together. A frame is posted atomically and once, which `FlowJournal` looks at
more closely. The escrow in `SwapWorld` is the one whose contract `EvmHashRail`
shows to implement `Htlc`: one lock, claimed before the refund time or refunded
from it on.

**The other rails.** `LegWorld` asks a different question than `SwapWorld`: how
a flow that lost its answer, its process or its transaction finds out what
became of it. Reads of one call happen at different blocks and are steps of
their own. On Bitcoin a transaction stays valid and may be evicted and sent
again; on NEAR one is dead once the access key's nonce has passed it, and a
payout is a receipt that may fail after its call succeeded; on Solana one is
dead once its last valid block has passed. Leg B is a note that the Buyer may
take once it can have the secret, and that comes back after its refund time
(`BuyerFlow` and `SellerFlow` have the steps of these calls).

**The journal.** A record is a version (standing for its bytes, as their digest
does in the code) and a ledger of lines. The offers room is a short ring, so a
look at it may miss a line that landed. The Seller's scan, mint and first save
are steps of one exclusive section of the store (`EnterBegin`, `Scan`, `Begin`;
`SectionIsFree` is the section): without it two flows both scan before either
has saved, and post two accepts.

**The watcher.** A leg's evidence is taken as the `evidence` run shows it to be:
final, of one block, or none. tclk's transcript machine is a library; of a deal
room only its state is kept. A line of the offers room may come again. A failed
read of `state.json` or of `swaps.jsonl` counts as an empty file, as in the code;
`lost` remembers the lines that disappeared that way, for the properties alone.

In `FlowStore` a record is the set of updates in it, so that "a save is lost"
is "a resolved update is missing". The lock file is created empty and gets its
body in a second step, and a removal by name removes whatever is there.

## Runs

| Run | Bounds | Shows |
|---|---|---|
| `escrows` | 2 accounts, 2 hash locks, amount 1, times that do not fall on whole seconds; on EVM one nested call; on NEAR 2 waiting receipts and a failed payout; on Solana a frozen account | `ImplementsHtlc`, `NearImplementsHtlc` (where a lock is claimed from the reveal on, and its row never refunded after it), `SolImplementsHtlc`; `Solvent`, `NearSolvent`; `TermsFrozen`; `RevealedIsPaid`: a payee whose claim showed the preimage is paid in the end, when payouts stop failing |
| `deadline_drift` | deadlines to 12, blocks of 1 to 3, all small policies, pairs made at 1 or 2 and locked at any time to 8 | `OkLeavesMargin`: an accepted pair has leg A's finality and R10.2's margin, the blocks of stall and lag and the percentage of what is left of leg A, to within the block that rounding takes, at every later lock time; `ReportedMinimumLasts`: a pair that meets the reported minimum keeps rule 3 until leg A's refund time |
| `deadline_minimum` | the same | violation: rounding up to blocks lets a pair pass below the reported minimum |
| `swap` | one bid, one acceptable and two refused leg Bs, 6 time units, no reorganisation | atomicity (`BuyerPaidSellerPaid`), `LegBOutlastsLegA`, `ClaimLeavesBuyerTime`, `BuyerWhole`, `SellerWhole`, `ReceiptsTruthful` |
| `swap_reorg` | 5 time units, one reorganisation | `BuyerVerdictsFinal`, `BuyerWhole`, `SecretOnlyForFinalLock` |
| `swap_reorged_lock` | the same | violation: evidence from the latest block puts the never-landed verdict out of reach |
| `swap_runner` | deadlines as tight as the rules allow, 2 failed calls or restarts | `SellerFinishes`, `BuyerFinishes` |
| `rail_leg` | times that leave each call the room its margins are made for, on Solana a claim margin above the landing margin; 7 to 11 blocks, 2 or 3 signed transactions of a kind, 3 faults on Bitcoin and 1 on NEAR and Solana | `SentOnce`, `NoStrayTx`, `LandedIsPaid`, `RefundReportedIsFinal`, `SecretHeldBack`, `NoLateClaim`, `LockedSettles` |
| `evidence` | Bitcoin: forks to depth 2, height 6, 8 blocks, a scan of 2 blocks; EVM: depth 2, height 5, 7 blocks; NEAR, Solana: depth 1, height 4, 5 and 4 blocks, on Solana any number of slots and 2 capture attempts; one fault | `FinalIsFinal`, `VerdictIsOfOneBlock`, `SettledIsSeen` |
| `rooms` | pairs: 7 lines, one of them repeated; watcher: 2 sweeps, 1 crash or failed read of a room, a chain or a file, 1 event meanwhile, from every stage of a swap; journal: 2 flow objects, 3 saves of a record, 2 posts, 1 fault | `StrangersDoNotRepair`, `SettledIsTrue`, `EveryStatusHasALine`, `PostedIsRecorded` |
| `flow_store` | 2 processes, 3 saves, 2 faults | `NoSaveLost`, `LeftoverNeverRefuses`, `SaveEnds` |
| `flow_store_shared` | 2 processes, 3 saves, no fault | violation: a slow creator's empty lock file is broken and a resolved save replaced |

The swap's time bounds put one time unit between any two deadlines that the
rules keep apart, so every order of a step and a deadline occurs, and the clock
passes the last refund time. One reorganisation may drop any block that is not
final, at any time. In `rail_leg` a block is final when the next one is begun,
so a fork replaces one block; a fault is a lost answer, a call that dies, an
eviction, a fork, a refusal without reason or a failed payout, and on Bitcoin
three of them allow a claim to be mined, forked away and evicted. A second
signed transaction of a kind is what a wrong recovery would send; NEAR's nonces
are of the key, so a third is needed for one of another kind between two, and on
Solana a third for the retry of a retry. In
`evidence` a fault is a fork, a failed read or a node that lags. Seven lines
are what two leg Bs that cross one leg A take, and come in any order with a
stranger's and with one that is posted twice (`MaxRepeats`); the theorem has no
such bound. A sweep meets its latest line again. Paper legs and late clocks begin
where the fold looks at them, at a refund frame and while a leg is not locked.
On Bitcoin height and scan are such that a scan that started at the
lock ends before the tip, with the spend on either side of its end. Two sweeps are one that is cut off and one that comes after it. In
`flow_store` three saves are the least in which one flow saves, another
replaces it and a third notices; two faults allow a crash while the leftover of
another is being removed. Deadlock is not checked where the bounds on time,
saves or faults make every behaviour stop.

`BuyerPaidSellerPaid`, `SellerWhole` and `ReceiptsTruthful` are stated for
chains that do not reorganise: the code itself takes a claim's receipt at the
latest block for the payment, and a replaced claim is visible in them.
`flow_store` starts no second process over a leftover lock, the exception the
repository's README makes, and lets a creator write its lock's body within one
poll (`PromptBody`); `flow_store_shared` drops only the second assumption.

Assumptions of the other runs:

- `rail_leg`: on NEAR an optimistic block is not replaced, and a transaction's
  validity (a day) outlasts the swap. On NEAR and Solana whatever a node was
  handed may be put into a block while it is valid; nodes' pools are not
  modelled and nothing is assumed to be mined, so there is no liveness there.
- `evidence`: one node whose height never falls. Confirmations are the fork
  depth and one on Bitcoin, and the depth below the latest block on EVM: the
  configuration is taken to be right. `SettledIsSeen` has two provisos, and TLC
  finds it violated without either. On Bitcoin the spend is within the scan
  window (`WithinScan`); a later one stays unverified, as the code says it does.
  On Solana captures hit one slot again and again (`CapturesHitOneSlot`): the
  five reads of a capture must be answered at one slot, the code tries
  `SOL_CAPTURE_ATTEMPTS` times a sweep (3; the run has 2), and while slots go on
  nothing in the code keeps every attempt of every sweep from straddling two.
  The slots of the model go on for ever, also when no block that matters to the
  leg is made any more. Checks of the configuration, and of captures that were tampered
  with, are the one outcome "unverified".
- `rail_leg`, Solana: a block is never slower than `slowBlockMs` (600 ms), by
  which the code bounds how late a signed claim can land (`latestLandingMs`).
  The model's unit of time is a block at that rate, so its claims live as long
  as any the bound allows for, and its expiry margin is none where the code adds
  `SOL_EXPIRY_MARGIN_MS`. What slower blocks would do beyond that margin is
  outside the bound of the code, and of `NoLateClaim`.
- `rooms`: sweeps do not overlap, offers are well formed and rightly oriented.
- In `SolClaimLegA` the branch that finds a claim by the preimage on the chain
  (`findPriorPreimage`) is in the model because it is in the code; it never
  fires, since a claim is on record before it is sent and is settled from there.

Fairness. `SwapRunner`: each runner takes a step when it has one (the rehearsal
runner calls on in a loop and is started again with `--resume` or `--refund`),
time passes, blocks become final, and a claim or refund that was sent is mined
as long as the contract accepts it; a lock need not be. Failures are bounded.
`FlowStore`: a process that runs goes on with its save. `NearHtlc`: receipts
run, and a payee claims again after a failed payout. `Legs`: time passes, a
Bitcoin node mines what it holds, and both parties keep calling. `MCEvidence`:
the watcher is run again and again, and every request is answered or times out
(`DEFAULT_RPC_TIMEOUT_MS`).

Every property of a passing run has a mutant: a definition changed the way a
plausible bug would (a guard dropped, a floor for a ceiling, a sync left out)
under which TLC finds the property violated. The mutant operators stand before
the definitions they change.

## Disagreements between code and text

1. `deadlines.ts` reports a minimum for leg B's refund time that accepted pairs
   may miss by less than a block (`deadline_minimum`).
2. The README promises a verdict for every lock that never landed, and says that
   a row at the latest block is not evidence; `lockLegA` and `recoverLock` record
   such evidence, after which `refundLegA` no longer asks (`swap_reorged_lock`).
3. `flow-store.ts` says that a live holder's lock is never broken silently, and
   the README that two live instances can get past each other only at a leftover
   lock; an empty lock file of a live creator is enough (`flow_store_shared`).

## What the properties leave open

Behaviour that the models show and the properties except, for a reader who
relies on them:

- `LockedSettles` holds up to a claim that the Seller has recorded as landed,
  which on Bitcoin it does at one confirmation, as the README says (1404-1428).
  What the README does not say: if that block is then replaced and the claim
  evicted, `claimLegA` returns early (`seller.ts:1524`), and the claim that the
  README has sent again until it is mined is not sent again any more.
- `PostedIsRecorded` says that no line has two texts. The same text may be
  posted twice: when a post that timed out arrives after the room was read on
  resume, or when the line has left the ring of the offers room. "Exactly
  once" (`flow-resume.ts:499`) holds for the text.
- `EveryStatusHasALine` excepts the lines that a sweep lost with a failed read of
  `swaps.jsonl`. The comment at `watcher.ts:929` says "append swaps.jsonl on
  status change", but the file is written anew from what could be read, and a
  failed read counts as an empty file (`watcher.ts:985`): the lines of earlier
  sweeps are gone, and as `state.json` still has their statuses nothing writes
  them again. Stated without the exception, as `complete \subseteq published`,
  the property is violated by two sweeps and one failed read.
- `EveryStatusHasALine` allows a status to be in `swaps.jsonl` that is no more
  on the board: when a sweep dies before `state.json`, and in the next one a
  read fails, the old state and the new status agree and no line says that the
  status went back.

## Proofs

`EscrowProofs` proves each of the three escrows to implement `Htlc`, for all constants and
without the bounds of the run `escrows` (`EvmContractIsHtlc`,
`NearContractIsHtlc`, `SolProgramIsHtlc`). The assumptions are those of the
modules: types of the constants, `Rail` and `ZeroAddress` outside `Accounts`, at
least one token. All three arguments have the same shape: an inductive
invariant, the few things a step may do to one lock (`Reach`, `NearOpens`, `SolOpens`, ...),
one lemma per action, and from those the steps of `Htlc`.

- EVM: `Htlc` is seen at transaction boundaries, so the invariant must speak of
  what is inside a transaction. `Chained` says that the locks as they are, and as
  any unfinished call would restore them, can be reached from the committed ones
  at the block's time (`Reach`): a lock and its refund never, for the times
  exclude each other. `EvmTermsFrozen` follows from it, and `EvmTypeCorrect`
  (no balance goes below zero) is part of it.
- NEAR: `NearImplementsHtlc` is not inductive, as the status of a lock alone does
  not say which callback may still arrive. `PayoutMatches` ties every payout and
  callback under way to its lock's status, `OnePayout` says a lock has one at
  most, and `StatusMatches` that a refund under way has its time behind it and
  no secret out. `NearStatus` reads a lock that is refunded as refunded whether
  or not its preimage is out, so a refund after a reveal would be a step that
  `Htlc` does not have.
- Solana: `SolInv` adds that the vault of an open escrow has its money, which is
  also a part of `SolImplementsHtlc`.

`SwapProofs` proves about `Swap`, for every policy, all sets of offers and
lock times and any clock bound:

- `TypeCorrect` (`TypeOK`), `VerdictsAreFinal` (`BuyerVerdictsFinal`),
  `SecretGuarded` (`SecretOnlyForFinalLock`) and `BuyerEndsWhole`
  (`BuyerWhole`), with any number of reorganisations;
- `BuyerPaysForLegB` (`BuyerPaidSellerPaid`), `LegBStaysLocked`
  (`LegBOutlastsLegA`), `BuyerHasTime` (`ClaimLeavesBuyerTime`),
  `SellerEndsWhole` (`SellerWhole`) and `ReceiptsAreTrue`
  (`ReceiptsTruthful`), with `MaxReorgs = 0`, as the run `swap` has it.

Only `WorldAssumption` is assumed (the constants' types and a well-formed
policy; TLC evaluates it in every swap run). The argument does not go through
the fifty-odd actions once per theorem. `SellerMay` and `BuyerMay` say what a
step of each flow may do to the state that matters, and `SellerEffects` and
`BuyerEffects` prove it action by action; the theorems use only these.

`BuyerVerdictsFinal` speaks of the latest block and is not inductive: nothing in
it says that a block that was decided on cannot be replaced. `FinalInv` relates
the two blocks (what is final is at the head too), and `VerdictInv` ties every
verdict, and every claim that has passed its checks but has not been sent, to
the finalized block. `FinalityInductive` proves both with `TypeOK`.

For `BuyerPaysForLegB`, `PaidInv` follows the secret: whoever has it, in the
Buyer's memory, in the reveal frame, or in the Seller's record as a landed
claim, has it from a claim that was mined, which on such a chain stays.

What is left in the end, and the deadlines, rest on `OrderInv`, which holds
whatever blocks are replaced: terms come before what rests on them (`TermsInv`),
a lock is on the chain only if it was sent, under terms that are safe
(`TermsSafe`), after the attempt was saved (`LockInv`), and leg B's note is where
the facts and frames say (`NoteInv`). `OutlastInv` adds that leg B's note is
there from the check of leg A's lock on, until its refund opens or the Seller
has claimed leg A.

`DeadlineProofs` shows the two promises of the rules for all policies, not only
small ones: an accepted pair still has both terms of R10.2's margin, less the one
block that rounding takes, however late leg A is locked (`PassingLeavesMargin`;
`MarginFacts` does the arithmetic of the rounded blocks), and one that meets the reported minimum keeps
rule 3 until leg A's refund time (`MinimumLasts`). `DriftInv` says what the
clock may have done since the check.

`EvmSolvent` and `NearContractSolvent` are about sums over all locks, which
`SumTheorems` makes provable: the library's sums are folds over a choice of
order, so the module proves that a finite sum exists (`SumFunctionOnSet` agrees
with any table of partial sums) and that changing one addend changes the sum by
the difference. `Balanced` and `NearBooks` relate what is owed, inside a
transaction and with receipts under way, to what is held.

`LegProofs` is about `Legs`, on Bitcoin, NEAR and Solana, for all terms that
`TermsOK` allows and any number of faults:

- `LegTypeCorrect` (`LegTypeOK`), which says that a flow can open every record
  it saved.
- `NothingSentTwice` (`SentOnce`), `ReportedRefundsAreFinal`
  (`RefundReportedIsFinal`), `LandedClaimsArePaid` (`LandedIsPaid`).
- `NothingGoesAstray` (`NoStrayTx`).
- the action properties `SecretIsHeldBack` (`SecretHeldBack`) and
  `NoClaimFailsLate` (`NoLateClaim`).

`LegInv` is the inductive invariant. A view of the chain and the one before it
agree (`ChainInv`), and what a leg's status says of the transactions that ran is
true in both (`Told`); `BuyerInv` and `SellerInv` give each place in the code
what the record holds there, since a resumed call trusts it; `BtcOnce` says that
a Bitcoin record never forgets a transaction a node may have. The two action
properties need more, and only there: until a claim is handed over no place in
the code takes the secret for public (`HeldInv`), and on Solana a claim that is
handed over ends before the refund time or its secret was public (`SolHeldInv`).
Each is kept by one lemma per actor and rail.

`NoStrayTx` rests on `StrayInv`. On Bitcoin a handle is never forgotten
(`BtcOnce`); NEAR and Solana sign anew, and there the invariant says that a
handle is dropped only when it is `Dead`: run or failed in a final block, or in
no block while its nonce is used in the final view (NEAR) or its last valid
block is past (Solana). `KeptInv` says so of locks and refunds. On NEAR
`NearPast` bounds what the newest view holds beyond the final one, and
`NearKept` what a lookup may conclude from the two: a nonce read as used at the
newest block proves nothing until that block is final, which is what the wait of
`readLockSettled` is for. On Solana `ClaimsKept` numbers the claims, so that one
which is dropped was either handed over and has expired, or never handed over.

Two properties of the legs were found too strong on the way and say now what the
code does:

- `SecretHeldBack` demanded the claim margin of every first claim. On Solana a
  claim that was recorded, never sent (a crash between the save and the send)
  and expired counts as one that "never landed" (`resolveRecordedClaims`), and
  the next is held to the landing margin only (`seller.ts:1696-1717`), although
  it is the first that shows the secret. It still cannot fail late. The run's
  terms on Solana keep the two margins apart, so that it sees this.
- `NoStrayTx` demanded every transaction that may take effect to be on record.
  On Solana a claim whose outcome is recorded, and one of the same secret after
  another has landed, need no record any more (`NeedsRecord`).

`EvidenceProofs` is about a capture on each of the four rails, for every depth
of forks and any number of blocks, forks, lagging answers and failed reads; only
`EvidenceAssumption` (types) is assumed.

- `EvidenceIsFinal` (`FinalIsFinal`) and `VerdictsAreOfOneBlock`
  (`VerdictIsOfOneBlock`).

Both follow from `EvidenceInv`, which has three parts. `WorldInv` is the chain:
along it the leg only goes on, whatever was forked (`Leads`), and `ChainGrows`
shows that mining and forking leave every final block alone. `GotInv` says for
each place in a capture what the answers held so far are worth. On EVM, NEAR and
Solana they are of final blocks from the start, a block counted down from an old
tip included. On Bitcoin an answer may be of any block, and the invariant says
instead that one which will be counted as confirmed is final already: the tip is
read before the rest, so confirmations may be too few and never too many
(`ConfirmedIsFinal`). `IsTrue(said)` is what the last evidence says, of the final
blocks. The properties are not inductive without the middle part.

`RoomsProofs` is about `MCRooms`, for any flows, lines of strangers, sweeps and
faults:

- `PostsAreRecorded` (`PostedIsRecorded`). `JournalInv` says that a flow's copy
  of the record is never ahead of the stored one (`StoreInv`), that one flow at
  most is in the section and a flow that is about to mint has seen the store
  empty, as it still is (`BeginInv`), that a text is in the copy before it is
  posted (`OpsInv`), and that no save takes a text back.
- `ToldBeforeSaved` (`EveryStatusHasALine`). `FilesInv` follows the files through
  a sweep that may be cut off between any two of them: what `state.json` has, or
  a sweep took from it, was in `swaps.jsonl` before (`Told`, which counts what
  was lost since).
- `BoardIsTrue` (`SettledIsTrue`). What evidence says of a lock stays true
  (`TrueForGood`), so a sweep's reads of different times agree; `SwapSays` goes
  through the fourteen rules of the fold and says what each status rests on.
- `StrangersLeaveThePair`, the action property `StrangersDoNotRepair`: a line
  that is appended leaves the earlier accepts and crossings as they are, and a
  new crossing comes after them or is the repeated offer of one of them
  (`CrossingExtends`).

`FlowStoreProofs` is about `FlowStore`, for any number of flows and saves:

- `StoreTypeCorrect`, and `LeftoverIsBroken`, the action property
  `LeftoverNeverRefuses`, for any number of processes and faults;
- `ResolvedSavesStay` (`NoSaveLost`), under `ReadmeRule`: a lock file gets its
  body within a poll, and there are two processes at most or there is no fault.

`ReadmeRule` is the rule of the repository's README, one process per swap, with
a second one allowed that does not begin over a leftover lock. It is needed:
with three processes TLC finds a run of `FlowStore` in which one crashes in its
save and the two others both meet its lock and break it, and a resolved save is
replaced, which is the narrow window that README argues
(`src/README.md:2269`), and `flow_store_shared` shows what a late body does. The
invariant `StoreInv` says that the save that holds the lock is the one in the
lock file (`HolderInv`), that whoever breaks a lock breaks a leftover one that
no one else can be breaking (`BreakInv`, for which `LeftoverInv` follows the
processes), and that the record a save replaces is the one it compared
(`RecordInv`).

Left to TLC: the liveness properties (`RevealedIsPaid`, `SellerFinishes`,
`BuyerFinishes`, `SaveEnds`, `LockedSettles`, `SettledIsSeen`) and `ENABLED` in
`SwapRunner`, which the provers cannot treat.

## Plan

A run that follows the Seller's dropped claim (see above) to its end.

## Not modelled

- Encoding and validation of records and frames, signatures and account proofs,
  fees and gas, building of scripts and transactions, coin selection, hashing
  and files of captures, key files, configuration, pre-flight checks, bundles
  and command-line tools: data handling and I/O without a state machine of its
  own.
- The flows without a store: the same calls with nothing to resume from.
  `routeToClaim`'s saved fact (`refundClaimSeen`) on the other rails: the runner
  modules have it on EVM.
- `MemoryFlowStore`, the Windows branches of the store, transient read errors of
  the lock file; the watcher's raw archive, its endpoints' failover and state
  files of earlier versions; the board's counts and ages; reasons,
  coordination-only swaps and unsupported orientations of the fold.
- The paper rail and the transcript machine come from a vendored package that is
  not in the repository; they appear as the code uses them.

## Running

`tlc -config MCSwap.cfg MCSwap` (and likewise for each run of `PROJECT.json`),
`tlapm SwapProofs.tla` (a few minutes; `LegProofs` takes about six), and
likewise for the other modules of proofs.
