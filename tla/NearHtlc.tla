------------------------------ MODULE NearHtlc ------------------------------
(***************************************************************************)
(* The NEAR escrow contract (contracts-near/htlc/src/lib.rs).  On NEAR a   *)
(* call of another contract is a receipt that runs in a later block, and   *)
(* its result comes back in a callback: money arrives by the token's       *)
(* ft_transfer_call (transfer, then ft_on_transfer here, then the token    *)
(* takes back what was refused), and leaves by ft_transfer, whose result   *)
(* on_transfer_complete reads.  Time, other calls and other locks' money   *)
(* move between any two of these.  receipts holds those still to run.      *)
(*                                                                         *)
(* A payout fails for reasons outside the contract (the receiver is not    *)
(* registered with the token, the contract's own balance); it may fail at  *)
(* any time here.  The storage check of a lock is a free choice likewise.  *)
(***************************************************************************)
EXTENDS EscrowBase, Functions

CONSTANTS
  UsdcToken,     \* the one token whose transfers open locks
  Messages,      \* the msg values that callers use
  MaxReceipts,   \* bound on receipts waiting at one time
  MaxFailures    \* bound on failed payouts

VARIABLES
  nLocks,      \* LookupMap keyed by payer and hash lock
  nNow,        \* block time in ms
  nBalance,    \* the token's balances
  receipts,    \* receipts waiting to run
  failures     \* payouts that have failed

nearVars == <<nLocks, nNow, nBalance, receipts, failures>>

Keys == Accounts \X HashLocks
NearHolders == Accounts \cup {Rail}
AccountIds == NearHolders \cup {UsdcToken}

LockStatus == {"Locked", "Claiming", "Claimed", "Refunding", "Refunded"}

NearLock == [payee : AccountIds, amount : Nat, claimByMs : Nat,
             refundAfterMs : Nat, status : LockStatus, revealed : BOOLEAN]

\* A key that was never locked under.
NoNearLock == [status |-> "None", revealed |-> FALSE]

\* The msg of an ft_transfer_call that parses; one that does not is refused
\* like any other that breaks a rule.
LockMsg == [hashLock : HashLocks, payee : AccountIds,
            claimByMs : Nat, refundAfterMs : Nat]

ASSUME NearAssumption ==
  /\ UsdcToken \notin NearHolders
  /\ Messages \subseteq LockMsg
  /\ MaxReceipts \in Nat /\ MaxFailures \in Nat

Receipts ==
  [kind : {"onTransfer"}, predecessor : AccountIds, sender : Accounts,
   amount : 0..MaxAmount, msg : Messages]
  \cup [kind : {"resolve"}, sender : Accounts, unused : Nat]
  \cup [kind : {"transfer"}, key : Keys, exit : {"Claim", "Refund"}]
  \cup [kind : {"callback"}, key : Keys, exit : {"Claim", "Refund"}, ok : BOOLEAN]

NearInit ==
  /\ nLocks = [k \in Keys |-> NoNearLock]
  /\ nNow = 0
  /\ nBalance = [a \in NearHolders |-> IF a \in Accounts THEN Supply ELSE 0]
  /\ receipts = {}
  /\ failures = 0

\* A new receipt; one like it may not wait already (receipts are told apart
\* by what they carry here).
Schedule(r, done) ==
  /\ r \notin receipts
  /\ receipts' = (receipts \ done) \cup {r}

Exists(k) == nLocks[k] # NoNearLock

-----------------------------------------------------------------------------
(* The token, as the contract uses it *)

\* ft_transfer_call: the money is the contract's before it is asked.
FtTransferCall(sender, amount, msg) ==
  /\ amount > 0
  /\ Cardinality(receipts) < MaxReceipts
  /\ amount <= nBalance[sender]
  /\ nBalance' = [nBalance EXCEPT ![sender] = @ - amount, ![Rail] = @ + amount]
  /\ Schedule([kind |-> "onTransfer", predecessor |-> UsdcToken, sender |-> sender,
               amount |-> amount, msg |-> msg], {})
  /\ UNCHANGED <<nLocks, nNow, failures>>

\* Anyone may call ft_on_transfer with no transfer behind it.
CallOnTransferDirectly(caller, amount, msg) ==
  /\ Cardinality(receipts) < MaxReceipts
  /\ Schedule([kind |-> "onTransfer", predecessor |-> caller, sender |-> caller,
               amount |-> amount, msg |-> msg], {})
  /\ UNCHANGED <<nLocks, nNow, nBalance, failures>>

\* ft_resolve_transfer gives back what ft_on_transfer refused.
FtResolveTransfer(r) ==
  /\ r.kind = "resolve"
  /\ nBalance' = [nBalance EXCEPT ![Rail] = @ - r.unused, ![r.sender] = @ + r.unused]
  /\ receipts' = receipts \ {r}
  /\ UNCHANGED <<nLocks, nNow, failures>>

PayTo(k, exit) == IF exit = "Claim" THEN nLocks[k].payee ELSE k[1]

\* ft_transfer pays out of the contract's balance, or fails and moves nothing.
FtTransfer(r) ==
  /\ r.kind = "transfer"
  /\ nLocks[r.key].amount <= nBalance[Rail]
  /\ LET to == PayTo(r.key, r.exit) IN
     nBalance' = [nBalance EXCEPT ![Rail] = @ - nLocks[r.key].amount,
                                  ![to] = @ + nLocks[r.key].amount]
  /\ Schedule([kind |-> "callback", key |-> r.key, exit |-> r.exit, ok |-> TRUE], {r})
  /\ UNCHANGED <<nLocks, nNow, failures>>

FtTransferFails(r) ==
  /\ r.kind = "transfer"
  /\ failures < MaxFailures
  /\ failures' = failures + 1
  /\ Schedule([kind |-> "callback", key |-> r.key, exit |-> r.exit, ok |-> FALSE], {r})
  /\ UNCHANGED <<nLocks, nNow, nBalance>>

-----------------------------------------------------------------------------
(* The contract *)

\* Mutants: any caller's word for a transfer is taken; a retry after the refund
\* time is refused; refund does not ask whether the secret is out.
AcceptsAnyCaller(r) ==
  /\ r.amount # 0
  /\ r.msg.payee \notin {Rail, UsdcToken}
  /\ r.msg.claimByMs < r.msg.refundAfterMs
  /\ nNow < r.msg.refundAfterMs
  /\ ~Exists(<<r.sender, r.msg.hashLock>>)

ClaimWindow(lock) == nNow < lock.refundAfterMs

\* The rules a transfer must keep to open a lock, in the code's order but for
\* the storage check, which comes last.
AcceptsTransfer(r) ==
  /\ r.amount # 0
  /\ r.predecessor = UsdcToken
  /\ r.msg.payee \notin {Rail, UsdcToken}
  /\ r.msg.claimByMs < r.msg.refundAfterMs
  /\ nNow < r.msg.refundAfterMs
  /\ ~Exists(<<r.sender, r.msg.hashLock>>)

\* ft_on_transfer: a lock is stored and nothing given back, or nothing is
\* stored and the token gives everything back.
FtOnTransfer(r, storageCovered) ==
  /\ r.kind = "onTransfer"
  /\ IF AcceptsTransfer(r) /\ storageCovered
     THEN /\ nLocks' = [nLocks EXCEPT ![<<r.sender, r.msg.hashLock>>] =
               [payee |-> r.msg.payee, amount |-> r.amount,
                claimByMs |-> r.msg.claimByMs, refundAfterMs |-> r.msg.refundAfterMs,
                status |-> "Locked", revealed |-> FALSE]]
          /\ receipts' = receipts \ {r}
     ELSE /\ IF r.predecessor = UsdcToken /\ r.amount > 0
             THEN Schedule([kind |-> "resolve", sender |-> r.sender, unused |-> r.amount], {r})
             ELSE receipts' = receipts \ {r}
          /\ UNCHANGED nLocks
  /\ UNCHANGED <<nNow, nBalance, failures>>

\* A lock never claimed is bound by the refund time; one whose secret is out
\* belongs to the payee for good.
Claimable(lock) == nNow < lock.refundAfterMs \/ lock.revealed

NearClaim(k, preimage) ==
  /\ Exists(k)
  /\ nLocks[k].status = "Locked"
  /\ Claimable(nLocks[k])
  /\ Sha256[preimage] = k[2]
  /\ nLocks' = [nLocks EXCEPT ![k].status = "Claiming", ![k].revealed = TRUE]
  /\ Schedule([kind |-> "transfer", key |-> k, exit |-> "Claim"], {})
  /\ UNCHANGED <<nNow, nBalance, failures>>

NearRefundRevealed(k) ==
  /\ Exists(k)
  /\ nLocks[k].status = "Locked"
  /\ nNow >= nLocks[k].refundAfterMs
  /\ nLocks' = [nLocks EXCEPT ![k].status = "Refunding"]
  /\ Schedule([kind |-> "transfer", key |-> k, exit |-> "Refund"], {})
  /\ UNCHANGED <<nNow, nBalance, failures>>

\* The caller names only its own lock: k[1] is the predecessor.  One whose
\* secret is out is the payee's (F4).
NearRefund(k) ==
  /\ Exists(k)
  /\ nLocks[k].status = "Locked"
  /\ ~nLocks[k].revealed
  /\ nNow >= nLocks[k].refundAfterMs
  /\ nLocks' = [nLocks EXCEPT ![k].status = "Refunding"]
  /\ Schedule([kind |-> "transfer", key |-> k, exit |-> "Refund"], {})
  /\ UNCHANGED <<nNow, nBalance, failures>>

\* on_transfer_complete: success settles the lock, failure puts it back; the
\* secret, once revealed, stays revealed.
OnTransferComplete(r) ==
  /\ r.kind = "callback"
  /\ nLocks' = [nLocks EXCEPT ![r.key].status =
                  IF ~r.ok THEN "Locked" ELSE IF r.exit = "Claim" THEN "Claimed" ELSE "Refunded"]
  /\ receipts' = receipts \ {r}
  /\ UNCHANGED <<nNow, nBalance, failures>>

NearBlock ==
  /\ \E m \in Messages : nNow < m.refundAfterMs
  /\ nNow' = nNow + 1
  /\ UNCHANGED <<nLocks, nBalance, receipts, failures>>

NearNext ==
  \/ \E sender \in Accounts, amount \in 1..MaxAmount, msg \in Messages :
       \/ FtTransferCall(sender, amount, msg)
       \/ CallOnTransferDirectly(sender, amount, msg)
  \/ \E r \in receipts :
       \/ FtResolveTransfer(r)
       \/ FtTransfer(r)
       \/ FtTransferFails(r)
       \/ \E storageCovered \in BOOLEAN : FtOnTransfer(r, storageCovered)
       \/ OnTransferComplete(r)
  \/ \E k \in Keys : NearRefund(k) \/ \E preimage \in Preimages : NearClaim(k, preimage)
  \/ NearBlock

NearSpec == NearInit /\ [][NearNext]_nearVars

\* Receipts run; whoever has the secret of a revealed lock claims it again,
\* and payouts do not fail for ever (MaxFailures).
NearFairness ==
  /\ \A k \in Keys : WF_nearVars(\E preimage \in Preimages : NearClaim(k, preimage))
  /\ WF_nearVars(\E r \in receipts : FtTransfer(r) \/ FtTransferFails(r))
  /\ WF_nearVars(\E r \in receipts : OnTransferComplete(r))

-----------------------------------------------------------------------------
(* Properties *)

NearTypeOK ==
  /\ nLocks \in [Keys -> NearLock \cup {NoNearLock}]
  /\ nNow \in Nat
  /\ nBalance \in [NearHolders -> Nat]
  /\ receipts \subseteq Receipts
  /\ failures \in 0..MaxFailures

\* A lock's money is still the contract's to keep: it is open, or on its way
\* out with a payout that has not run or has failed.
Owes(k) ==
  /\ nLocks[k].status \in {"Locked", "Claiming", "Refunding"}
  /\ \A r \in receipts : r.kind = "callback" /\ r.key = k => ~r.ok

Kept(k) == IF Owes(k) THEN nLocks[k].amount ELSE 0

\* Money the token has moved to the contract that is no lock's: its transfer
\* is not decided yet, or was refused and is not given back yet.
Undecided(r) ==
  CASE r.kind = "resolve" -> r.unused
    [] r.kind = "onTransfer" /\ r.predecessor = UsdcToken -> r.amount
    [] OTHER -> 0

\* The token holds for the contract exactly what its open locks and the
\* transfers not yet decided or not yet given back are worth: no lock is
\* opened without its money (the allow-list of ft_on_transfer), none is paid
\* twice across the asynchronous payouts, and refused money goes back.
NearSolvent ==
  nBalance[Rail] =
    SumFunctionOnSet([k \in Keys |-> Kept(k)], Keys)
    + SumFunctionOnSet([r \in receipts |-> Undecided(r)], receipts)

\* A lock counts as refunded when the payer has the money, whatever became of
\* its secret, and otherwise as claimed from the moment the secret is out, paid
\* or not.
NearStatus(k) ==
  IF ~Exists(k) THEN "none"
  ELSE IF nLocks[k].status = "Refunded" THEN "refunded"
  ELSE IF nLocks[k].revealed THEN "claimed" ELSE "locked"

NearRefundOpen(k) == Exists(k) /\ nNow >= nLocks[k].refundAfterMs

NearEscrow(k) == INSTANCE Htlc WITH status <- NearStatus(k), refundOpen <- NearRefundOpen(k)

\* Every lock of the NEAR contract keeps the promise of Htlc over failed
\* payouts and late callbacks: above all, a lock whose claim has shown the
\* secret never goes back to the payer (the revealed check of refund, F4),
\* and a lock whose refund is under way is not claimed.
NearImplementsHtlc ==
  /\ \A k \in Keys : NearEscrow(k)!Init
  /\ [][\A k \in Keys : [NearEscrow(k)!Next]_(NearEscrow(k)!vars)]_nearVars

\* Once claim has made the secret public the payee is paid, however many
\* payouts fail and however late it gets: claim stays open to a retry past
\* the refund time.
RevealedIsPaid ==
  \A k \in Keys : nLocks[k].revealed ~> nLocks[k].status = "Claimed"

=============================================================================
