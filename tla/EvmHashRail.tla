---------------------------- MODULE EvmHashRail ----------------------------
(***************************************************************************)
(* The Solidity escrow contract of the EVM rail (contracts/                *)
(* EvmHashRail.sol).  Each of its three functions runs its checks and its  *)
(* effects in one step and then hands control to the token, whose code may *)
(* re-enter the contract, move the money and return, or fail, which undoes *)
(* everything since the call.  calls is the stack of token calls that have *)
(* not returned; it is empty between transactions.                         *)
(*                                                                         *)
(* Data that is abstracted: addresses and hash locks are model values, and *)
(* sha256 is the function Sha256 from preimages to hash locks.             *)
(***************************************************************************)
EXTENDS EscrowBase, Sequences, Functions

CONSTANTS
  ZeroAddress,
  Tokens,        \* ERC-20 contracts
  MaxDepth       \* bound on nested token calls

Addresses == Accounts \cup {Rail, ZeroAddress}
Holders == Accounts \cup {Rail}

ASSUME EvmAssumption ==
  /\ ZeroAddress \notin Holders
  /\ Tokens # {}
  /\ MaxDepth \in Nat

VARIABLES
  locks,       \* the contract's mapping(bytes32 => Lock)
  timestamp,   \* block.timestamp
  balance,     \* every token's balances
  allowance,   \* what every account lets the contract pull, per token
  calls        \* token calls in progress, outermost first

vars == <<locks, timestamp, balance, allowance, calls>>

Status == {"none", "locked", "claimed", "refunded"}

Lock == [payer : Addresses, payee : Addresses, token : Tokens, amount : Nat,
         claimByMs : Nat, refundAfterMs : Nat, status : Status]

\* What the mapping holds for a hash lock nobody has used: all zero bytes.
NoLock == [payer |-> ZeroAddress, payee |-> ZeroAddress,
           token |-> CHOOSE t \in Tokens : TRUE, amount |-> 0,
           claimByMs |-> 0, refundAfterMs |-> 0, status |-> "none"]

\* A token call: who pays whom, whether the money has moved yet, and the
\* state to return to if the call fails.
Call == [token : Tokens, from : Holders, to : Addresses, amount : Nat,
         moved : BOOLEAN,
         locks : [HashLocks -> Lock],
         balance : [Tokens -> [Addresses -> Nat]],
         allowance : [Tokens -> [Accounts -> Nat]]]

\* block.timestamp scaled to the ms the deadlines are kept in.
NowMs == timestamp * MsPerSecond

Init ==
  /\ locks = [h \in HashLocks |-> NoLock]
  /\ timestamp = 0
  /\ balance = [t \in Tokens |-> [a \in Addresses |-> IF a \in Accounts THEN Supply ELSE 0]]
  /\ allowance = [t \in Tokens |-> [a \in Accounts |-> 0]]
  /\ calls = <<>>

\* Hand control to the token, remembering what a failure restores.
Enter(token, from, to, amount) ==
  calls' = Append(calls, [token |-> token, from |-> from, to |-> to,
                          amount |-> amount, moved |-> FALSE, locks |-> locks,
                          balance |-> balance, allowance |-> allowance])

\* Nested calls come out of a token's code, and are bounded.
MayCall == Len(calls) <= MaxDepth

\* Mutants: a closed lock may be opened again; the status check of claim is
\* only "exists"; its time check is off by one; a token checks no balance.
LockFundsReused(sender, h, payee, amount, token, claimByMs, refundAfterMs) ==
  /\ MayCall
  /\ locks[h].status # "locked"
  /\ payee # ZeroAddress /\ amount > 0
  /\ claimByMs < refundAfterMs /\ NowMs < refundAfterMs
  /\ locks' = [locks EXCEPT ![h] =
       [payer |-> sender, payee |-> payee, token |-> token, amount |-> amount,
        claimByMs |-> claimByMs, refundAfterMs |-> refundAfterMs, status |-> "locked"]]
  /\ Enter(token, sender, Rail, amount)
  /\ UNCHANGED <<timestamp, balance, allowance>>

ClaimTwice(h, preimage) ==
  /\ MayCall
  /\ locks[h].status # "none"
  /\ NowMs < locks[h].refundAfterMs
  /\ Sha256[preimage] = h
  /\ locks' = [locks EXCEPT ![h].status = "claimed"]
  /\ Enter(locks[h].token, Rail, locks[h].payee, locks[h].amount)
  /\ UNCHANGED <<timestamp, balance, allowance>>

ClaimAtRefundTime(h, preimage) ==
  /\ MayCall
  /\ locks[h].status = "locked"
  /\ NowMs <= locks[h].refundAfterMs
  /\ Sha256[preimage] = h
  /\ locks' = [locks EXCEPT ![h].status = "claimed"]
  /\ Enter(locks[h].token, Rail, locks[h].payee, locks[h].amount)
  /\ UNCHANGED <<timestamp, balance, allowance>>

TokenMovesOverdrawn ==
  /\ calls # <<>>
  /\ LET c == calls[Len(calls)] IN
     /\ ~c.moved
     /\ balance' = [balance EXCEPT ![c.token][c.from] = @ - c.amount]
     /\ calls' = [calls EXCEPT ![Len(calls)].moved = TRUE]
  /\ UNCHANGED <<locks, timestamp, allowance>>

LockFunds(sender, h, payee, amount, token, claimByMs, refundAfterMs) ==
  /\ MayCall
  /\ locks[h].status = "none"
  /\ payee # ZeroAddress
  /\ amount > 0
  /\ claimByMs < refundAfterMs
  /\ NowMs < refundAfterMs
  /\ locks' = [locks EXCEPT ![h] =
       [payer |-> sender, payee |-> payee, token |-> token, amount |-> amount,
        claimByMs |-> claimByMs, refundAfterMs |-> refundAfterMs,
        status |-> "locked"]]
  /\ Enter(token, sender, Rail, amount)
  /\ UNCHANGED <<timestamp, balance, allowance>>

\* Anyone may relay the preimage, so the sender is not a parameter.
Claim(h, preimage) ==
  /\ MayCall
  /\ locks[h].status = "locked"
  /\ NowMs < locks[h].refundAfterMs
  /\ Sha256[preimage] = h
  /\ locks' = [locks EXCEPT ![h].status = "claimed"]
  /\ Enter(locks[h].token, Rail, locks[h].payee, locks[h].amount)
  /\ UNCHANGED <<timestamp, balance, allowance>>

Refund(sender, h) ==
  /\ MayCall
  /\ locks[h].status = "locked"
  /\ sender = locks[h].payer
  /\ NowMs >= locks[h].refundAfterMs
  /\ locks' = [locks EXCEPT ![h].status = "refunded"]
  /\ Enter(locks[h].token, Rail, locks[h].payer, locks[h].amount)
  /\ UNCHANGED <<timestamp, balance, allowance>>

\* IERC20.approve, called by an account between transactions.
Approve(sender, token, amount) ==
  /\ calls = <<>>
  /\ allowance' = [allowance EXCEPT ![token][sender] = amount]
  /\ UNCHANGED <<locks, timestamp, balance, calls>>

\* IERC20.transfer / transferFrom: the called token moves the money.
TokenMoves ==
  /\ calls # <<>>
  /\ LET c == calls[Len(calls)] IN
     /\ ~c.moved
     /\ c.amount <= balance[c.token][c.from]
     /\ IF c.from \in Accounts
        THEN /\ c.amount <= allowance[c.token][c.from]
             /\ allowance' = [allowance EXCEPT ![c.token][c.from] = @ - c.amount]
        ELSE UNCHANGED allowance
     /\ balance' = [balance EXCEPT ![c.token] =
          [a \in Addresses |->
             LET out == IF a = c.from THEN c.amount ELSE 0
                 in  == IF a = c.to THEN c.amount ELSE 0
             IN  @[a] - out + in]]
     /\ calls' = [calls EXCEPT ![Len(calls)].moved = TRUE]
  /\ UNCHANGED <<locks, timestamp>>

\* The token returns true, having moved the money.
TokenReturns ==
  /\ calls # <<>>
  /\ calls[Len(calls)].moved
  /\ calls' = SubSeq(calls, 1, Len(calls) - 1)
  /\ UNCHANGED <<locks, timestamp, balance, allowance>>

\* The token returns false or reverts: require() undoes the call.
TokenFails ==
  /\ calls # <<>>
  /\ LET c == calls[Len(calls)] IN
     /\ locks' = c.locks
     /\ balance' = c.balance
     /\ allowance' = c.allowance
     /\ calls' = SubSeq(calls, 1, Len(calls) - 1)
  /\ UNCHANGED timestamp

\* A new block; never in the middle of a transaction.
NewBlock ==
  /\ calls = <<>>
  /\ timestamp < MaxTimestamp
  /\ timestamp' = timestamp + 1
  /\ UNCHANGED <<locks, balance, allowance, calls>>

Next ==
  \/ \E sender \in Accounts, h \in HashLocks, payee \in Addresses,
        amount \in 0..MaxAmount, token \in Tokens,
        claimByMs, refundAfterMs \in Deadlines :
       LockFunds(sender, h, payee, amount, token, claimByMs, refundAfterMs)
  \/ \E h \in HashLocks, preimage \in Preimages : Claim(h, preimage)
  \/ \E sender \in Accounts, h \in HashLocks : Refund(sender, h)
  \/ \E sender \in Accounts, token \in Tokens, amount \in 0..MaxAmount :
       Approve(sender, token, amount)
  \/ TokenMoves
  \/ TokenReturns
  \/ TokenFails
  \/ NewBlock

Spec == Init /\ [][Next]_vars

-----------------------------------------------------------------------------
(* Properties *)

TypeOK ==
  /\ locks \in [HashLocks -> Lock]
  /\ timestamp \in 0..MaxTimestamp
  /\ balance \in [Tokens -> [Addresses -> Nat]]
  /\ allowance \in [Tokens -> [Accounts -> Nat]]
  /\ calls \in Seq(Call)

\* What the contract owes in a token: the amounts of its open locks.
Due(lock, token) == IF lock.status = "locked" /\ lock.token = token THEN lock.amount ELSE 0
Owed(lks, token) == SumFunctionOnSet([h \in HashLocks |-> Due(lks[h], token)], HashLocks)

\* Between transactions the contract holds what its open locks
\* owe, whatever the tokens' code did while it was called: no reentrant
\* claim or refund pays a lock twice out of another lock's money
\* (effects before the transfer in lock, claim and refund).
Solvent == calls = <<>> => \A t \in Tokens : balance[t][Rail] >= Owed(locks, t)

\* The state as the last completed transaction left it.
Committed == IF calls = <<>> THEN locks ELSE calls[1].locks

RefundOpen(h) ==
  Committed[h].status # "none" /\ NowMs >= Committed[h].refundAfterMs

\* The escrow of one hash lock implements the abstract promise.
Escrow(h) == INSTANCE Htlc WITH status <- Committed[h].status, refundOpen <- RefundOpen(h)

\* Every hash lock of the contract, seen at transaction boundaries, goes in
\* once before its refund time and is paid out at most once, to the payee
\* strictly before refundAfterMs or to the payer from refundAfterMs on
\* (lock, claim and refund of EvmHashRail.sol, token reentrancy included).
ImplementsHtlc ==
  /\ \A h \in HashLocks : Escrow(h)!Init
  /\ [][\A h \in HashLocks : [Escrow(h)!Next]_(Escrow(h)!vars)]_vars

\* The terms a lock was opened with never change while it exists: a hash
\* lock is used for one payer, payee, token, amount and deadline for good
\* (the "lock exists" check of EvmHashRail.lock).
TermsFrozen ==
  [][\A h \in HashLocks :
       Committed[h].status # "none" =>
         [Committed'[h] EXCEPT !.status = "none"] = [Committed[h] EXCEPT !.status = "none"]]_vars

=============================================================================
