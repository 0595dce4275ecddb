---------------------------- MODULE EscrowProofs ----------------------------
(***************************************************************************)
(* The three escrow contracts keep the promise of Htlc, over calls that    *)
(* re-enter (contracts/EvmHashRail.sol), payouts that are late and fail    *)
(* (contracts-near/htlc/src/lib.rs) and a clock in whole seconds           *)
(* (contracts-sol/htlc/src/lib.rs), and what they hold covers what they    *)
(* owe: for every set of accounts, tokens, hash locks, messages and orders. *)
(***************************************************************************)
EXTENDS MCEscrows, SumTheorems, SequenceTheorems, TLAPS

-----------------------------------------------------------------------------
(* The EVM contract *)

(* The inductive invariant *)

\* Two locks have the same terms.
SameTerms(a, b) == [b EXCEPT !.status = "none"] = [a EXCEPT !.status = "none"]

\* What the calls of one transaction, and so of one block time, may make of a
\* lock: never a lock and its refund together, for the times exclude it.
Reach(now, a, b) ==
  \/ b = a
  \/ a.status = "none" /\ b.status \in {"locked", "claimed"} /\ now < b.refundAfterMs
  \/ /\ a.status = "locked" /\ SameTerms(a, b)
     /\ \/ b.status = "claimed" /\ now < b.refundAfterMs
        \/ b.status = "refunded" /\ now >= b.refundAfterMs

\* The locks as they are, and as any call in progress would restore them, are
\* reached from those the last completed transaction left.
Chained ==
  \A h \in HashLocks :
    /\ Reach(NowMs, Committed[h], locks[h])
    /\ \A i \in 1..Len(calls) : Reach(NowMs, Committed[h], calls[i].locks[h])

\* The inductive invariant of the EVM contract.
EvmInv == TypeOK /\ Chained

-----------------------------------------------------------------------------
(* Types *)

\* All zero bytes are a lock.
LEMMA NoLockIsLock == NoLock \in Lock
BY EvmAssumption DEF NoLock, Lock, Addresses, Status

\* Locks of the same terms have the same refund time.
LEMMA TermsGiveTime ==
  ASSUME NEW a \in Lock, NEW b \in Lock, SameTerms(a, b)
  PROVE  a.refundAfterMs = b.refundAfterMs
<1>1. /\ [a EXCEPT !.status = "none"].refundAfterMs = a.refundAfterMs
      /\ [b EXCEPT !.status = "none"].refundAfterMs = b.refundAfterMs
  BY DEF Lock
<1>2. QED
  BY <1>1 DEF SameTerms

\* Entering the token keeps the stack's type.
LEMMA EnterType ==
  ASSUME TypeOK, NEW token \in Tokens, NEW from \in Holders, NEW to \in Addresses,
         NEW amount \in Nat, Enter(token, from, to, amount)
  PROVE  /\ calls' \in Seq(Call) /\ Len(calls') = Len(calls) + 1
         /\ calls'[Len(calls')].locks = locks
         /\ \A i \in 1..Len(calls) : calls'[i] = calls[i]
<1> DEFINE c == [token |-> token, from |-> from, to |-> to, amount |-> amount,
                 moved |-> FALSE, locks |-> locks, balance |-> balance,
                 allowance |-> allowance]
<1>1. c \in Call /\ c.locks = locks
  BY DEF TypeOK, Call
<1>2. calls' = Append(calls, c) /\ calls \in Seq(Call)
  BY DEF Enter, TypeOK
<1> HIDE DEF c
<1>3. QED
  BY <1>1, <1>2

\* The last call of the stack, and the first.
LEMMA TopType ==
  ASSUME TypeOK, calls # <<>>
  PROVE  Len(calls) \in Nat \ {0} /\ calls[Len(calls)] \in Call /\ calls[1] \in Call
BY DEF TypeOK

\* A call that ends leaves the outer calls as they are.
LEMMA PopType ==
  ASSUME TypeOK, calls # <<>>, calls' = SubSeq(calls, 1, Len(calls) - 1)
  PROVE  /\ calls' \in Seq(Call) /\ Len(calls') = Len(calls) - 1
         /\ \A i \in 1..Len(calls') : calls'[i] = calls[i]
<1>1. Len(calls) \in Nat \ {0}
  BY TopType
<1> DEFINE n == Len(calls) - 1
<1>2. n \in Nat /\ \A i \in 1..n : calls[i] \in Call
  BY <1>1 DEF TypeOK
<1> HIDE DEF n
<1>3. /\ SubSeq(calls, 1, n) \in Seq(Call)
      /\ Len(SubSeq(calls, 1, n)) = IF 1 <= n THEN n - 1 + 1 ELSE 0
      /\ \A i \in 1..(n - 1 + 1) : SubSeq(calls, 1, n)[i] = calls[1 + i - 1]
  BY <1>2, SubSeqProperties
<1>4. Len(SubSeq(calls, 1, n)) = n
  BY <1>2, <1>3
<1>5. \A i \in 1..n : SubSeq(calls, 1, n)[i] = calls[i]
  BY <1>2, <1>3
<1>6. QED
  BY <1>3, <1>4, <1>5 DEF n

\* Only the token's own steps move money, and never money that is not there.
LEMMA MovesType ==
  ASSUME TypeOK, TokenMoves
  PROVE  /\ balance' \in [Tokens -> [Addresses -> Nat]]
         /\ allowance' \in [Tokens -> [Accounts -> Nat]]
         /\ calls' \in Seq(Call) /\ Len(calls') = Len(calls)
         /\ \A i \in 1..Len(calls) : calls'[i].locks = calls[i].locks
<1> DEFINE c == calls[Len(calls)]
<1>1. c \in Call /\ Len(calls) \in Nat \ {0}
  BY TopType DEF TokenMoves
<1>2. /\ c.token \in Tokens /\ c.from \in Holders /\ c.to \in Addresses /\ c.amount \in Nat
      /\ c.amount <= balance[c.token][c.from]
  BY <1>1 DEF TokenMoves, Call
<1>3. balance' \in [Tokens -> [Addresses -> Nat]]
  <2>1. \A a \in Addresses : balance[c.token][a] \in Nat
    BY <1>2 DEF TypeOK
  <2> DEFINE bal == [a \in Addresses |->
               LET out == IF a = c.from THEN c.amount ELSE 0
                   in  == IF a = c.to THEN c.amount ELSE 0
               IN  balance[c.token][a] - out + in]
  <2>2. bal \in [Addresses -> Nat]
    BY <1>2, <2>1
  <2>3. balance' = [balance EXCEPT ![c.token] = bal]
    BY DEF TokenMoves
  <2> HIDE DEF bal
  <2>4. QED
    BY <1>2, <2>2, <2>3 DEF TypeOK
<1>4. allowance' \in [Tokens -> [Accounts -> Nat]]
  <2>1. CASE c.from \in Accounts
    <3>1. /\ c.amount <= allowance[c.token][c.from]
          /\ allowance' = [allowance EXCEPT ![c.token][c.from] = @ - c.amount]
      BY <2>1 DEF TokenMoves
    <3>2. allowance[c.token] \in [Accounts -> Nat] /\ allowance[c.token][c.from] - c.amount \in Nat
      BY <1>2, <2>1, <3>1 DEF TypeOK
    <3>3. QED
      BY <1>2, <2>1, <3>1, <3>2 DEF TypeOK
  <2>2. CASE c.from \notin Accounts
    BY <2>2 DEF TokenMoves, TypeOK
  <2>3. QED
    BY <2>1, <2>2
<1>5. calls' = [calls EXCEPT ![Len(calls)] = [c EXCEPT !.moved = TRUE]]
  BY <1>1 DEF TokenMoves, TypeOK
<1>6. [c EXCEPT !.moved = TRUE] \in Call /\ [c EXCEPT !.moved = TRUE].locks = c.locks
  BY <1>1 DEF Call
<1> HIDE DEF c
<1>7. /\ calls' \in Seq(Call) /\ Len(calls') = Len(calls)
      /\ \A i \in 1..Len(calls) : calls'[i].locks = calls[i].locks
  BY <1>1, <1>5, <1>6 DEF TypeOK, c
<1>8. QED
  BY <1>3, <1>4, <1>7

\* A block time is a number; only NewBlock moves it, forwards.
LEMMA ClockAdvances ==
  ASSUME TypeOK, NewBlock
  PROVE  NowMs \in Nat /\ NowMs' \in Nat /\ NowMs' >= NowMs /\ timestamp' \in 0..MaxTimestamp
<1>1. timestamp \in Nat /\ MsPerSecond \in Nat /\ MaxTimestamp \in Nat
      /\ timestamp' = timestamp + 1 /\ timestamp < MaxTimestamp
  BY NumbersAssumption DEF TypeOK, NewBlock
<1>2. \A s, m \in Nat : s * m \in Nat /\ (s + 1) * m = s * m + m
  BY SMT
<1>3. QED
  BY <1>1, <1>2 DEF NowMs

-----------------------------------------------------------------------------
(* What the steps do *)

\* Within a transaction nothing is committed; a transaction that ends commits
\* what can be reached at its block time; blocks only move the time.
Commits ==
  \/ /\ \A h \in HashLocks : Reach(NowMs, Committed[h], Committed'[h])
     /\ NowMs' = NowMs
  \/ /\ Committed' = Committed
     /\ NowMs' >= NowMs

\* What every step achieves.
Result == EvmInv' /\ Commits

\* lock, claim and refund change one lock and enter the token.
LEMMA EnterStep ==
  ASSUME EvmInv, NEW h \in HashLocks, NEW lock \in Lock,
         NEW token \in Tokens, NEW from \in Holders, NEW to \in Addresses, NEW amount \in Nat,
         locks' = [locks EXCEPT ![h] = lock],
         Enter(token, from, to, amount),
         UNCHANGED <<timestamp, balance, allowance>>,
         \/ locks[h].status = "none" /\ lock.status = "locked" /\ NowMs < lock.refundAfterMs
         \/ /\ locks[h].status = "locked" /\ SameTerms(locks[h], lock)
            /\ lock.refundAfterMs = locks[h].refundAfterMs
            /\ \/ lock.status = "claimed" /\ NowMs < lock.refundAfterMs
               \/ lock.status = "refunded" /\ NowMs >= lock.refundAfterMs
  PROVE  Result
<1>1. /\ calls' \in Seq(Call) /\ Len(calls') = Len(calls) + 1
      /\ calls'[Len(calls')].locks = locks
      /\ \A i \in 1..Len(calls) : calls'[i] = calls[i]
  BY EnterType DEF EvmInv
<1>2. Len(calls) \in Nat /\ (calls = <<>> <=> Len(calls) = 0) /\ calls' # <<>>
  BY <1>1 DEF EvmInv, TypeOK
<1>3. TypeOK'
  BY <1>1 DEF EvmInv, TypeOK
<1>4. Committed' = Committed /\ NowMs' = NowMs
  BY <1>1, <1>2 DEF Committed, NowMs
<1>5. locks'[h] = lock /\ \A g \in HashLocks : g # h => locks'[g] = locks[g]
  BY DEF EvmInv, TypeOK
<1>6. \A g \in HashLocks : Reach(NowMs, Committed[g], locks[g])
        /\ \A i \in 1..Len(calls) : Reach(NowMs, Committed[g], calls[i].locks[g])
  BY DEF EvmInv, Chained
<1>7. Reach(NowMs, Committed[h], lock)
  <2>1. lock.status \in {"locked", "claimed"} => NowMs < lock.refundAfterMs
    OBVIOUS
  <2>2. Reach(NowMs, Committed[h], locks[h])
    BY <1>6
  <2>3. timestamp \in Nat /\ NowMs \in Nat /\ lock.refundAfterMs \in Nat
    <3>1. \A s, m \in Nat : s * m \in Nat
      BY SMT
    <3>2. QED
      BY <3>1, NumbersAssumption DEF EvmInv, TypeOK, NowMs, Lock
  <2>4. QED
    BY <2>1, <2>2, <2>3 DEF Reach
<1>8. Chained'
  <2>1. ASSUME NEW g \in HashLocks PROVE Reach(NowMs, Committed'[g], locks'[g])
    BY <1>4, <1>5, <1>6, <1>7 DEF Reach
  <2>2. ASSUME NEW g \in HashLocks, NEW i \in 1..Len(calls') 
        PROVE  Reach(NowMs, Committed'[g], calls'[i].locks[g])
    <3>1. CASE i = Len(calls')
      BY <1>1, <1>4, <1>6, <3>1
    <3>2. CASE i # Len(calls')
      BY <1>1, <1>2, <1>4, <1>6, <3>2
    <3>3. QED
      BY <3>1, <3>2
  <2>3. QED
    BY <1>4, <2>1, <2>2 DEF Chained
<1>9. QED
  BY <1>3, <1>4, <1>8 DEF Result, EvmInv, Commits, Reach

\* lock.
LEMMA LockStep ==
  ASSUME EvmInv, NEW sender \in Accounts, NEW h \in HashLocks, NEW payee \in Addresses,
         NEW amount \in 0..MaxAmount, NEW token \in Tokens,
         NEW claimByMs \in Deadlines, NEW refundAfterMs \in Deadlines,
         LockFunds(sender, h, payee, amount, token, claimByMs, refundAfterMs)
  PROVE  Result
<1> DEFINE lock == [payer |-> sender, payee |-> payee, token |-> token, amount |-> amount,
                    claimByMs |-> claimByMs, refundAfterMs |-> refundAfterMs,
                    status |-> "locked"]
<1>1. lock \in Lock /\ lock.status = "locked" /\ lock.refundAfterMs = refundAfterMs
  BY NumbersAssumption DEF Lock, Addresses, Status
<1>2. amount \in Nat /\ sender \in Holders /\ Rail \in Addresses
  BY NumbersAssumption DEF Holders, Addresses
<1>3. /\ locks' = [locks EXCEPT ![h] = lock] /\ locks[h].status = "none"
      /\ Enter(token, sender, Rail, amount) /\ NowMs < refundAfterMs
      /\ UNCHANGED <<timestamp, balance, allowance>>
  BY DEF LockFunds
<1> HIDE DEF lock
<1>4. QED
  BY <1>1, <1>2, <1>3, EnterStep

\* claim and refund: only the status of an open lock changes.
LEMMA SettleStep ==
  ASSUME EvmInv, NEW h \in HashLocks, NEW status \in {"claimed", "refunded"},
         locks[h].status = "locked",
         locks' = [locks EXCEPT ![h].status = status],
         \/ status = "claimed" /\ NowMs < locks[h].refundAfterMs
         \/ status = "refunded" /\ NowMs >= locks[h].refundAfterMs,
         NEW to \in {locks[h].payee, locks[h].payer},
         Enter(locks[h].token, Rail, to, locks[h].amount),
         UNCHANGED <<timestamp, balance, allowance>>
  PROVE  Result
<1> DEFINE lock == [locks[h] EXCEPT !.status = status]
<1>1. locks[h] \in Lock
  BY DEF EvmInv, TypeOK
<1>2. /\ locks[h].token \in Tokens /\ locks[h].amount \in Nat /\ to \in Addresses
      /\ Rail \in Holders
  BY <1>1 DEF Lock, Holders
<1>3. /\ lock \in Lock /\ lock.status = status /\ SameTerms(locks[h], lock)
      /\ lock.refundAfterMs = locks[h].refundAfterMs
  BY <1>1 DEF Lock, Status, SameTerms
<1>4. locks' = [locks EXCEPT ![h] = lock]
  BY DEF EvmInv, TypeOK
<1> HIDE DEF lock
<1>5. QED
  BY <1>2, <1>3, <1>4, EnterStep

\* claim: before the refund time, to the payee.
LEMMA ClaimStep ==
  ASSUME EvmInv, NEW h \in HashLocks, NEW preimage \in Preimages, Claim(h, preimage)
  PROVE  Result
BY SettleStep DEF Claim

\* refund: from the refund time on, to the payer.
LEMMA RefundStep ==
  ASSUME EvmInv, NEW sender \in Accounts, NEW h \in HashLocks, Refund(sender, h)
  PROVE  Result
BY SettleStep DEF Refund

\* The token moves the money: no lock changes.
LEMMA MovesStep ==
  ASSUME EvmInv, TokenMoves
  PROVE  Result
<1>1. /\ balance' \in [Tokens -> [Addresses -> Nat]]
      /\ allowance' \in [Tokens -> [Accounts -> Nat]]
      /\ calls' \in Seq(Call) /\ Len(calls') = Len(calls)
      /\ \A i \in 1..Len(calls) : calls'[i].locks = calls[i].locks
  BY MovesType DEF EvmInv
<1>2. locks' = locks /\ NowMs' = NowMs /\ timestamp' = timestamp
  BY DEF TokenMoves, NowMs
<1>3. Len(calls) \in Nat \ {0} /\ calls # <<>> /\ calls' # <<>>
  BY <1>1, TopType DEF EvmInv, TokenMoves
<1>4. Committed' = Committed
  BY <1>1, <1>3 DEF Committed
<1>5. TypeOK'
  BY <1>1, <1>2 DEF EvmInv, TypeOK
<1>6. Chained'
  BY <1>1, <1>2, <1>4 DEF EvmInv, Chained
<1>7. QED
  BY <1>2, <1>4, <1>5, <1>6 DEF Result, Commits, EvmInv, Reach

\* The token returns: the outermost return commits the transaction.
LEMMA ReturnsStep ==
  ASSUME EvmInv, TokenReturns
  PROVE  Result
<1>1. /\ calls' \in Seq(Call) /\ Len(calls') = Len(calls) - 1
      /\ \A i \in 1..Len(calls') : calls'[i] = calls[i]
      /\ Len(calls) \in Nat \ {0}
  BY PopType, TopType DEF EvmInv, TokenReturns
<1>2. locks' = locks /\ NowMs' = NowMs /\ UNCHANGED <<timestamp, balance, allowance>>
  BY DEF TokenReturns, NowMs
<1>3. TypeOK'
  BY <1>1, <1>2 DEF EvmInv, TypeOK
<1>4. CASE calls' = <<>>
  <2>1. Committed' = locks /\ Len(calls') = 0
    BY <1>2, <1>4 DEF Committed
  <2>2. \A h \in HashLocks : Reach(NowMs, Committed[h], Committed'[h])
    BY <2>1 DEF EvmInv, Chained
  <2>3. Chained'
    BY <1>2, <2>1 DEF Chained, Reach
  <2>4. QED
    BY <1>2, <1>3, <2>2, <2>3 DEF Result, Commits, EvmInv
<1>5. CASE calls' # <<>>
  <2>1. Len(calls') \in Nat \ {0} /\ calls # <<>>
    BY <1>1, <1>5 DEF TokenReturns
  <2>2. Committed' = Committed
    BY <1>1, <1>5, <2>1 DEF Committed
  <2>3. \A i \in 1..Len(calls') : i \in 1..Len(calls)
    BY <1>1
  <2>4. Chained'
    BY <1>1, <1>2, <2>2, <2>3 DEF EvmInv, Chained
  <2>5. QED
    BY <1>2, <1>3, <2>2, <2>4 DEF Result, Commits, EvmInv, Reach
<1>6. QED
  BY <1>4, <1>5

\* The token fails: the call is undone, the outermost to what was committed.
LEMMA FailsStep ==
  ASSUME EvmInv, TokenFails
  PROVE  Result
<1>1. /\ calls' \in Seq(Call) /\ Len(calls') = Len(calls) - 1
      /\ \A i \in 1..Len(calls') : calls'[i] = calls[i]
      /\ Len(calls) \in Nat \ {0} /\ calls # <<>>
  BY PopType, TopType DEF EvmInv, TokenFails
<1>2. /\ locks' = calls[Len(calls)].locks /\ NowMs' = NowMs /\ timestamp' = timestamp
      /\ balance' = calls[Len(calls)].balance /\ allowance' = calls[Len(calls)].allowance
  BY DEF TokenFails, NowMs
<1>3. TypeOK'
  <2>1. calls[Len(calls)] \in Call
    BY <1>1, TopType DEF EvmInv
  <2>2. QED
    BY <1>1, <1>2, <2>1 DEF EvmInv, TypeOK, Call
<1>4. Committed' = Committed
  <2>1. CASE calls' = <<>>
    <3>1. Len(calls) = 1
      BY <1>1, <2>1
    <3>2. QED
      BY <1>1, <1>2, <2>1, <3>1 DEF Committed
  <2>2. CASE calls' # <<>>
    <3>1. Len(calls') \in Nat \ {0}
      BY <1>1, <2>2
    <3>2. QED
      BY <1>1, <2>2, <3>1 DEF Committed
  <2>3. QED
    BY <2>1, <2>2
<1>5. \A i \in 1..Len(calls') : i \in 1..Len(calls)
  BY <1>1
<1>6. Chained'
  BY <1>1, <1>2, <1>4, <1>5 DEF EvmInv, Chained
<1>7. QED
  BY <1>2, <1>3, <1>4, <1>6 DEF Result, Commits, EvmInv, Reach

\* Between transactions, a block.
LEMMA BlockStep ==
  ASSUME EvmInv, NewBlock
  PROVE  Result
<1>1. calls = <<>> /\ calls' = calls /\ locks' = locks
  BY DEF NewBlock
<1>2. Committed' = Committed /\ Committed' = locks /\ Len(calls') = 0
  BY <1>1 DEF Committed
<1>3. Chained'
  BY <1>1, <1>2 DEF Chained, Reach
<1>4. TypeOK' /\ NowMs' >= NowMs
  BY ClockAdvances DEF EvmInv, TypeOK, NewBlock
<1>5. QED
  BY <1>2, <1>3, <1>4 DEF Result, Commits, EvmInv

\* Between transactions, an approval.
LEMMA ApproveStep ==
  ASSUME EvmInv, NEW sender \in Accounts, NEW token \in Tokens, NEW amount \in 0..MaxAmount,
         Approve(sender, token, amount)
  PROVE  Result
<1>1. /\ calls = <<>> /\ calls' = calls /\ locks' = locks /\ NowMs' = NowMs
      /\ UNCHANGED <<timestamp, balance>>
  BY DEF Approve, NowMs
<1>2. Committed' = Committed /\ Committed' = locks /\ Len(calls') = 0
  BY <1>1 DEF Committed
<1>3. Chained'
  BY <1>1, <1>2 DEF Chained, Reach
<1>4. amount \in Nat
  BY NumbersAssumption
<1>5. TypeOK'
  BY <1>1, <1>4 DEF EvmInv, TypeOK, Approve
<1>6. QED
  BY <1>1, <1>2, <1>3, <1>5 DEF Result, Commits, EvmInv, Reach

\* EvmInv is inductive, and every step commits what its block time allows.
LEMMA EvmInductive ==
  /\ Init => EvmInv
  /\ EvmInv /\ [Next]_vars => Result
<1>1. Init => EvmInv
  <2>1. ASSUME Init PROVE TypeOK
    BY <2>1, NoLockIsLock, NumbersAssumption DEF Init, TypeOK
  <2>2. ASSUME Init PROVE Chained
    BY <2>2 DEF Init, Chained, Committed, Reach
  <2>3. QED
    BY <2>1, <2>2 DEF EvmInv
<1>2. EvmInv /\ Next => Result
  BY LockStep, ClaimStep, RefundStep, ApproveStep, MovesStep, ReturnsStep, FailsStep,
     BlockStep DEF Next
<1>3. ASSUME EvmInv, UNCHANGED vars PROVE Result
  <2>1. Committed' = Committed /\ NowMs' = NowMs
    BY <1>3 DEF vars, Committed, NowMs
  <2>2. EvmInv'
    BY <1>3, <2>1 DEF vars, EvmInv, TypeOK, Chained
  <2>3. QED
    BY <2>1, <2>2 DEF Result, Commits, Reach
<1>4. QED
  BY <1>1, <1>2, <1>3

-----------------------------------------------------------------------------
(* Refinement *)

\* What the last completed transaction left are locks, and the time a number.
LEMMA CommittedType ==
  ASSUME EvmInv
  PROVE  Committed \in [HashLocks -> Lock] /\ NowMs \in Nat
<1>1. Committed \in [HashLocks -> Lock]
  <2>1. calls # <<>> => calls[1].locks \in [HashLocks -> Lock]
    BY TopType DEF EvmInv, Call
  <2>2. QED
    BY <2>1 DEF EvmInv, TypeOK, Committed
<1>2. \A s, m \in Nat : s * m \in Nat
  BY SMT
<1>3. QED
  BY <1>1, <1>2, NumbersAssumption DEF EvmInv, TypeOK, NowMs

\* The same after a step.
LEMMA CommittedTypeNext ==
  ASSUME EvmInv'
  PROVE  Committed' \in [HashLocks -> Lock] /\ NowMs' \in Nat
<1>1. Committed' \in [HashLocks -> Lock]
  <2>1. CASE calls' = <<>>
    BY <2>1 DEF EvmInv, TypeOK, Committed
  <2>2. CASE calls' # <<>>
    <3>1. calls'[1] \in Call
      BY <2>2 DEF EvmInv, TypeOK
    <3>2. QED
      BY <2>2, <3>1 DEF Committed, Call
  <2>3. QED
    BY <2>1, <2>2
<1>2. \A s, m \in Nat : s * m \in Nat
  BY SMT
<1>3. timestamp' \in Nat /\ MsPerSecond \in Nat
  BY NumbersAssumption DEF EvmInv, TypeOK
<1>4. NowMs' \in Nat
  BY <1>2, <1>3 DEF NowMs
<1>5. QED
  BY <1>1, <1>4

\* A step of the contract is a step of Htlc for every hash lock, or none.
LEMMA EveryStepIsOfHtlc ==
  ASSUME EvmInv, EvmInv', Commits, NEW h \in HashLocks
  PROVE  [Escrow(h)!Next]_(Escrow(h)!vars)
<1> DEFINE a == Committed[h]
           b == Committed'[h]
<1>1. /\ a \in Lock /\ b \in Lock /\ NowMs \in Nat /\ NowMs' \in Nat
      /\ a.refundAfterMs \in Nat /\ b.refundAfterMs \in Nat
  <2>1. a \in Lock /\ b \in Lock /\ NowMs \in Nat /\ NowMs' \in Nat
    BY CommittedType, CommittedTypeNext
  <2>2. QED
    BY <2>1 DEF Lock
<1>2. /\ RefundOpen(h) = (a.status # "none" /\ NowMs >= a.refundAfterMs)
      /\ RefundOpen(h)' = (b.status # "none" /\ NowMs' >= b.refundAfterMs)
  BY DEF RefundOpen
<1>3. CASE b = a /\ NowMs' >= NowMs
  <2>1. RefundOpen(h) => RefundOpen(h)'
    <3>1. NowMs >= a.refundAfterMs => NowMs' >= b.refundAfterMs
      BY <1>1, <1>3
    <3>2. QED
      BY <1>2, <1>3, <3>1
  <2>2. CASE RefundOpen(h)' = RefundOpen(h)
    BY <1>3, <2>2 DEF Escrow!vars
  <2>3. CASE RefundOpen(h)' # RefundOpen(h)
    <3>1. RefundOpen(h)' = TRUE /\ a.status # "none"
      BY <1>2, <1>3, <2>1, <2>3
    <3>2. Escrow(h)!RefundTimeComes
      BY <1>3, <3>1 DEF Escrow!RefundTimeComes
    <3>3. QED
      BY <3>2 DEF Escrow!Next
  <2>4. QED
    BY <2>2, <2>3
<1>4. CASE a.status = "none" /\ b.status \in {"locked", "claimed"}
           /\ NowMs < b.refundAfterMs /\ NowMs' = NowMs
  <2>1. RefundOpen(h)' = FALSE
    <3>1. ~ (NowMs' >= b.refundAfterMs)
      BY <1>1, <1>4
    <3>2. QED
      BY <1>2, <3>1
  <2>2. Escrow(h)!Lock \/ Escrow(h)!LockAndClaim
    BY <1>4, <2>1 DEF Escrow!Lock, Escrow!LockAndClaim
  <2>3. QED
    BY <2>2 DEF Escrow!Next
<1>5. CASE a.status = "locked" /\ SameTerms(a, b) /\ NowMs' = NowMs
           /\ b.status = "claimed" /\ NowMs < b.refundAfterMs
  <2>1. a.refundAfterMs = b.refundAfterMs
    BY <1>1, <1>5, TermsGiveTime
  <2>2. RefundOpen(h) = FALSE /\ RefundOpen(h)' = FALSE
    <3>1. ~ (NowMs >= a.refundAfterMs) /\ ~ (NowMs' >= b.refundAfterMs)
      BY <1>1, <1>5, <2>1
    <3>2. QED
      BY <1>2, <3>1
  <2>3. Escrow(h)!Claim
    BY <1>5, <2>2 DEF Escrow!Claim
  <2>4. QED
    BY <2>3 DEF Escrow!Next
<1>6. CASE a.status = "locked" /\ SameTerms(a, b) /\ NowMs' = NowMs
           /\ b.status = "refunded" /\ NowMs >= b.refundAfterMs
  <2>1. a.refundAfterMs = b.refundAfterMs
    BY <1>1, <1>6, TermsGiveTime
  <2>2. RefundOpen(h) = TRUE /\ RefundOpen(h)' = TRUE
    BY <1>1, <1>2, <1>6, <2>1
  <2>3. Escrow(h)!Refund
    BY <1>6, <2>2 DEF Escrow!Refund
  <2>4. QED
    BY <2>3 DEF Escrow!Next
<1>7. \/ Reach(NowMs, a, b) /\ NowMs' = NowMs
      \/ b = a /\ NowMs' >= NowMs
  BY DEF Commits
<1>8. QED
  BY <1>1, <1>3, <1>4, <1>5, <1>6, <1>7 DEF Reach

\* The contract's state keeps its types: no token call overdraws an account,
\* and what a failed call restores are locks and balances (EvmHashRail.sol).
THEOREM EvmTypeCorrect == Spec => []TypeOK
<1>1. EvmInv => TypeOK
  BY DEF EvmInv
<1>2. EvmInv /\ [Next]_vars => EvmInv'
  BY EvmInductive DEF Result
<1>3. QED
  BY <1>1, <1>2, EvmInductive, PTL DEF Spec

\* Every hash lock, seen at transaction boundaries, keeps the promise of Htlc
\* whatever the tokens' code does while it is called: it calls back in, moves
\* the money or fails (lock, claim and refund of EvmHashRail.sol).
THEOREM EvmContractIsHtlc == Spec => ImplementsHtlc
<1>1. ASSUME Init, NEW h \in HashLocks PROVE Escrow(h)!Init
  <2>1. Committed[h].status = "none"
    BY <1>1 DEF Init, Committed, NoLock
  <2>2. RefundOpen(h) = FALSE
    BY <2>1 DEF RefundOpen
  <2>3. QED
    BY <2>1, <2>2 DEF Escrow!Init
<1>2. Init => \A h \in HashLocks : Escrow(h)!Init
  BY <1>1
<1>3. EvmInv /\ [Next]_vars => EvmInv' /\ Commits
  BY EvmInductive DEF Result
<1>4. ASSUME EvmInv, EvmInv', [Next]_vars
      PROVE  \A h \in HashLocks : [Escrow(h)!Next]_(Escrow(h)!vars)
  BY <1>3, <1>4, EveryStepIsOfHtlc
<1>5. QED
  BY <1>2, <1>3, <1>4, EvmInductive, PTL DEF Spec, ImplementsHtlc

\* A hash lock that has been used keeps its payer, payee, token, amount and
\* deadlines for good (the "lock exists" check of EvmHashRail.lock).
THEOREM EvmTermsFrozen == Spec => TermsFrozen
<1>1. EvmInv /\ [Next]_vars => EvmInv' /\ Commits
  BY EvmInductive DEF Result
<1>2. ASSUME EvmInv, [Next]_vars, NEW h \in HashLocks, Committed[h].status # "none"
      PROVE  [Committed'[h] EXCEPT !.status = "none"] = [Committed[h] EXCEPT !.status = "none"]
  BY <1>1, <1>2 DEF Commits, Reach, SameTerms
<1>3. EvmInv /\ [Next]_vars =>
        \A h \in HashLocks :
          Committed[h].status # "none" =>
            [Committed'[h] EXCEPT !.status = "none"] = [Committed[h] EXCEPT !.status = "none"]
  BY <1>2
<1>4. QED
  BY <1>1, <1>3, EvmInductive, PTL DEF Spec, TermsFrozen

-----------------------------------------------------------------------------
(* Solvency: what the contract holds beyond what it owes *)

\* What locks and balances leave the contract in a token.
Surplus(lks, bal, t) == bal[t][Rail] - Owed(lks, t)

\* The surplus a call on the stack would return to, outermost first, and then
\* the surplus now.
Book(i, t) ==
  IF i <= Len(calls) THEN Surplus(calls[i].locks, calls[i].balance, t)
  ELSE Surplus(locks, balance, t)

\* What a call has still to take out of the contract, or (negative) to bring.
Pending(c, t) ==
  IF c.moved \/ c.token # t THEN 0
  ELSE (IF c.from = Rail THEN c.amount ELSE 0) - (IF c.to = Rail THEN c.amount ELSE 0)

\* The committed books are solvent, and each call on the stack started from
\* books that lack no more than the call outside it has still to bring.
Balanced ==
  \A t \in Tokens :
    /\ Book(1, t) >= 0
    /\ \A i \in 1..Len(calls) : Book(i + 1, t) >= Book(i, t) + Pending(calls[i], t)

\* The sum owed is a number.
LEMMA OwedType ==
  ASSUME NEW lks \in [HashLocks -> Lock], NEW t \in Tokens
  PROVE  /\ Owed(lks, t) \in Int
         /\ \A h \in HashLocks : Due(lks[h], t) \in Int
<1> DEFINE f == [h \in HashLocks |-> Due(lks[h], t)]
<1>1. \A h \in HashLocks : Due(lks[h], t) \in Int
  BY DEF Due, Lock
<1>2. \A h \in HashLocks : f[h] \in Int
  BY <1>1
<1>3. SumFunctionOnSet(f, HashLocks) \in Int
  <2> HIDE DEF f
  <2> QED
    BY <1>2, SumType, HashAssumption
<1> QED
  BY <1>1, <1>3 DEF Owed

\* One lock changed: the sum changes by what it is due.
LEMMA OwedChanges ==
  ASSUME NEW lks \in [HashLocks -> Lock], NEW t \in Tokens,
         NEW h \in HashLocks, NEW lock \in Lock
  PROVE  Owed([lks EXCEPT ![h] = lock], t) = Owed(lks, t) - Due(lks[h], t) + Due(lock, t)
<1> DEFINE f == [k \in HashLocks |-> Due(lks[k], t)]
           g == [k \in HashLocks |-> Due([lks EXCEPT ![h] = lock][k], t)]
<1>1. [lks EXCEPT ![h] = lock] \in [HashLocks -> Lock]
  OBVIOUS
<1>2. \A k \in HashLocks : f[k] \in Int /\ g[k] \in Int
  BY <1>1, OwedType
<1>3. \A k \in HashLocks \ {h} : g[k] = f[k]
  OBVIOUS
<1>4. f[h] = Due(lks[h], t) /\ g[h] = Due(lock, t)
  OBVIOUS
<1>5. SumFunctionOnSet(g, HashLocks) = SumFunctionOnSet(f, HashLocks) - f[h] + g[h]
  <2> HIDE DEF f, g
  <2> QED
    BY <1>2, <1>3, SumChange, HashAssumption
<1> QED
  BY <1>4, <1>5 DEF Owed

\* The same of the contract's own books.
LEMMA NowType ==
  ASSUME EvmInv, NEW t \in Tokens
  PROVE  /\ locks \in [HashLocks -> Lock] /\ balance \in [Tokens -> [Addresses -> Nat]]
         /\ Owed(locks, t) \in Int /\ balance[t][Rail] \in Int
<1>1. locks \in [HashLocks -> Lock] /\ balance \in [Tokens -> [Addresses -> Nat]]
  BY DEF EvmInv, TypeOK
<1>2. balance[t][Rail] \in Int
  BY <1>1 DEF Addresses
<1>3. Owed(locks, t) \in Int
  BY <1>1, OwedType
<1> QED
  BY <1>1, <1>2, <1>3

\* The surplus is a number, now and in every call's books.
LEMMA SurplusType ==
  ASSUME NEW lks \in [HashLocks -> Lock], NEW bal \in [Tokens -> [Addresses -> Nat]],
         NEW t \in Tokens
  PROVE  Surplus(lks, bal, t) \in Int
<1>1. bal[t][Rail] \in Nat
  BY DEF Addresses
<1> QED
  BY <1>1, OwedType DEF Surplus

\* What a call has pending is a number.
LEMMA PendingType ==
  ASSUME NEW c \in Call, NEW t \in Tokens
  PROVE  Pending(c, t) \in Int
BY DEF Call, Pending

\* Entering the token: the books so far are remembered, and what the new call
\* owes or is owed covers the change of the locks.
LEMMA EnterBooks ==
  ASSUME EvmInv, EvmInv', Balanced,
         NEW c, calls' = Append(calls, c), c.locks = locks, c.balance = balance,
         balance' = balance,
         \A t \in Tokens : Surplus(locks', balance, t) >= Surplus(locks, balance, t) + Pending(c, t)
  PROVE  Balanced'
<1> SUFFICES ASSUME NEW t \in Tokens
             PROVE  /\ Book(1, t)' >= 0
                    /\ \A i \in 1..Len(calls') : Book(i + 1, t)' >= Book(i, t)' + Pending(calls'[i], t)
  BY DEF Balanced
<1>0. PICK n \in Nat : n = Len(calls)
  BY DEF EvmInv, TypeOK
<1>1. /\ Len(calls') = n + 1 /\ calls'[n + 1] = c
      /\ \A i \in 1..n : calls'[i] = calls[i]
  BY <1>0 DEF EvmInv, TypeOK
<1>2. Surplus(locks, balance, t) = Book(n + 1, t)
  BY <1>0, <1>1 DEF Book
<1>3. \A i \in 1..n + 1 : Book(i, t)' = Book(i, t)
  <2> TAKE i \in 1..n + 1
  <2>1. CASE i = n + 1
    BY <1>0, <1>1, <1>2, <2>1 DEF Book, Surplus, Owed
  <2>2. CASE i # n + 1
    <3>1. i <= n /\ i <= n + 1 /\ calls'[i] = calls[i]
      BY <1>0, <1>1, <2>2
    <3> QED
      BY <1>0, <3>1 DEF Book, Surplus, Owed
  <2> QED
    BY <2>1, <2>2
<1>4. Book(n + 2, t)' = Surplus(locks', balance, t)
  <2>1. ~(n + 2 <= Len(calls'))
    BY <1>0, <1>1
  <2> QED
    BY <2>1 DEF Book, Surplus, Owed
<1>5. Book(1, t)' >= 0
  BY <1>0, <1>1, <1>3 DEF Balanced
<1>6. ASSUME NEW i \in 1..n + 1
      PROVE  Book(i + 1, t)' >= Book(i, t)' + Pending(calls'[i], t)
  <2>1. CASE i = n + 1
    <3>1. /\ i = n + 1 /\ i + 1 = n + 2 /\ calls'[i] = c
          /\ i \in 1..n + 1
      BY <1>0, <1>1, <2>1
    <3> QED
      BY <1>2, <1>3, <1>4, <3>1
  <2>2. CASE i # n + 1
    <3>1. i \in 1..n /\ i + 1 \in 1..n + 1 /\ calls'[i] = calls[i]
      BY <1>0, <1>1, <2>2
    <3> QED
      BY <1>0, <1>3, <3>1 DEF Balanced
  <2> QED
    BY <2>1, <2>2
<1> QED
  BY <1>1, <1>5, <1>6

\* lock: what is newly owed is what the payer's transfer has still to bring.
LEMMA LockBooks ==
  ASSUME EvmInv, EvmInv', Balanced,
         NEW sender \in Accounts, NEW h \in HashLocks, NEW payee \in Addresses,
         NEW amount \in 0..MaxAmount, NEW token \in Tokens,
         NEW claimByMs \in Deadlines, NEW refundAfterMs \in Deadlines,
         LockFunds(sender, h, payee, amount, token, claimByMs, refundAfterMs)
  PROVE  Balanced'
<1> DEFINE lock == [payer |-> sender, payee |-> payee, token |-> token, amount |-> amount,
                    claimByMs |-> claimByMs, refundAfterMs |-> refundAfterMs,
                    status |-> "locked"]
           c == [token |-> token, from |-> sender, to |-> Rail, amount |-> amount,
                 moved |-> FALSE, locks |-> locks, balance |-> balance,
                 allowance |-> allowance]
<1>1. lock \in Lock /\ amount \in Nat
  BY NumbersAssumption DEF Lock, Addresses, Status
<1>2. /\ locks' = [locks EXCEPT ![h] = lock] /\ locks[h].status = "none"
      /\ calls' = Append(calls, c) /\ balance' = balance
  BY DEF LockFunds, Enter
<1>3. ASSUME NEW t \in Tokens
      PROVE  Surplus(locks', balance, t) >= Surplus(locks, balance, t) + Pending(c, t)
  <2>1. Due(locks[h], t) = 0 /\ Due(lock, t) = (IF token = t THEN amount ELSE 0)
    BY <1>2 DEF Due
  <2>2. Pending(c, t) = IF token = t THEN 0 - amount ELSE 0
    BY <1>1, AccountsAssumption DEF Pending
  <2>3. Owed(locks', t) = Owed(locks, t) - Due(locks[h], t) + Due(lock, t)
    <3> HIDE DEF lock
    <3>1. Owed([locks EXCEPT ![h] = lock], t) = Owed(locks, t) - Due(locks[h], t) + Due(lock, t)
      BY <1>1, NowType, OwedChanges
    <3> QED
      BY <1>2, <3>1
  <2>4. Owed(locks, t) \in Int /\ balance[t][Rail] \in Int
    BY NowType
  <2> HIDE DEF lock, c
  <2> QED
    BY <1>1, <2>1, <2>2, <2>3, <2>4 DEF Surplus
<1>4. c.locks = locks /\ c.balance = balance
  OBVIOUS
<1> HIDE DEF c
<1> QED
  BY <1>2, <1>3, <1>4, EnterBooks

\* claim and refund: what is no longer owed is what the transfer will take.
LEMMA SettleBooks ==
  ASSUME EvmInv, EvmInv', Balanced, NEW h \in HashLocks, NEW status \in {"claimed", "refunded"},
         locks[h].status = "locked",
         locks' = [locks EXCEPT ![h].status = status],
         NEW to \in {locks[h].payee, locks[h].payer},
         Enter(locks[h].token, Rail, to, locks[h].amount),
         balance' = balance
  PROVE  Balanced'
<1> DEFINE lock == [locks[h] EXCEPT !.status = status]
           c == [token |-> locks[h].token, from |-> Rail, to |-> to,
                 amount |-> locks[h].amount, moved |-> FALSE, locks |-> locks,
                 balance |-> balance, allowance |-> allowance]
<1>1. locks[h] \in Lock /\ locks[h].amount \in Nat /\ lock \in Lock /\ lock.status = status
  BY DEF EvmInv, TypeOK, Lock, Status
<1>2. locks' = [locks EXCEPT ![h] = lock] /\ calls' = Append(calls, c)
  BY DEF EvmInv, TypeOK, Enter
<1>3. ASSUME NEW t \in Tokens
      PROVE  Surplus(locks', balance, t) >= Surplus(locks, balance, t) + Pending(c, t)
  <2>1. /\ Due(locks[h], t) = (IF locks[h].token = t THEN locks[h].amount ELSE 0)
        /\ Due(lock, t) = 0
    BY <1>1 DEF Due
  <2>2. Pending(c, t) \in Int /\ Pending(c, t) <= (IF locks[h].token = t THEN locks[h].amount ELSE 0)
    BY <1>1 DEF Pending
  <2>3. Owed(locks', t) = Owed(locks, t) - Due(locks[h], t) + Due(lock, t)
    <3> HIDE DEF lock
    <3>1. Owed([locks EXCEPT ![h] = lock], t) = Owed(locks, t) - Due(locks[h], t) + Due(lock, t)
      BY <1>1, NowType, OwedChanges
    <3> QED
      BY <1>2, <3>1
  <2>4. Owed(locks, t) \in Int /\ balance[t][Rail] \in Int
    BY NowType
  <2> HIDE DEF lock, c
  <2> QED
    BY <1>1, <2>1, <2>2, <2>3, <2>4 DEF Surplus
<1>4. c.locks = locks /\ c.balance = balance
  OBVIOUS
<1> HIDE DEF c
<1> QED
  BY <1>2, <1>3, <1>4, EnterBooks

\* The token moves the money: the surplus changes by what was pending.
LEMMA MovesBooks ==
  ASSUME EvmInv, EvmInv', Balanced, TokenMoves
  PROVE  Balanced'
<1>0. PICK n \in Nat \ {0} : n = Len(calls)
  BY TopType DEF EvmInv, TokenMoves
<1>b. PICK c \in Call : c = calls[n]
  BY <1>0, TopType DEF EvmInv, TokenMoves
<1>1. n = Len(calls) /\ n \in Nat \ {0} /\ c \in Call /\ c = calls[n]
  BY <1>0, <1>b
<1>2. /\ c.token \in Tokens /\ c.from \in Holders /\ c.to \in Addresses /\ c.amount \in Nat
      /\ c.moved = FALSE
  BY <1>1 DEF TokenMoves, Call
<1>3. calls' = [calls EXCEPT ![n] = [c EXCEPT !.moved = TRUE]]
  BY <1>1 DEF TokenMoves, EvmInv, TypeOK
<1>4. /\ Len(calls') = n
      /\ \A i \in 1..n : calls'[i] = IF i = n THEN [c EXCEPT !.moved = TRUE] ELSE calls[i]
  BY <1>1, <1>3 DEF EvmInv, TypeOK
<1>5. \A i \in 1..n : calls'[i].locks = calls[i].locks /\ calls'[i].balance = calls[i].balance
  <2>1. [c EXCEPT !.moved = TRUE].locks = c.locks /\ [c EXCEPT !.moved = TRUE].balance = c.balance
    BY <1>1 DEF Call
  <2> QED
    BY <1>1, <1>4, <2>1
<1> SUFFICES ASSUME NEW t \in Tokens
             PROVE  /\ Book(1, t)' >= 0
                    /\ \A i \in 1..Len(calls') : Book(i + 1, t)' >= Book(i, t)' + Pending(calls'[i], t)
  BY DEF Balanced
<1>6. Pending(c, t) \in Int /\ Pending(calls'[n], t) = 0
  <2>1. calls'[n].moved = TRUE
    BY <1>1, <1>4 DEF Call
  <2> QED
    BY <1>1, <2>1, PendingType DEF Pending
<1>7. balance'[t][Rail] = balance[t][Rail] - Pending(c, t)
  <2>1. balance[t] \in [Addresses -> Nat] /\ Rail \in Addresses /\ balance[t][Rail] \in Nat
    BY DEF EvmInv, TypeOK, Addresses
  <2>2. balance' = [balance EXCEPT ![c.token] =
          [a \in Addresses |->
             LET out == IF a = c.from THEN c.amount ELSE 0
                 in  == IF a = c.to THEN c.amount ELSE 0
             IN  @[a] - out + in]]
    BY <1>1 DEF TokenMoves
  <2>3. CASE t # c.token
    BY <1>2, <2>1, <2>2, <2>3 DEF Pending, EvmInv, TypeOK
  <2>4. CASE t = c.token
    <3>1. balance'[t][Rail] = balance[t][Rail] - (IF Rail = c.from THEN c.amount ELSE 0)
                                + (IF Rail = c.to THEN c.amount ELSE 0)
      BY <2>1, <2>2, <2>4 DEF EvmInv, TypeOK
    <3> QED
      BY <1>2, <2>1, <2>4, <3>1 DEF Pending
  <2> QED
    BY <2>3, <2>4
<1>8. Surplus(locks, balance, t)' = Surplus(locks, balance, t) - Pending(c, t)
  <2>1. locks' = locks /\ Owed(locks, t) \in Int /\ balance[t][Rail] \in Int
    BY NowType DEF TokenMoves
  <2>2. Owed(locks', t) = Owed(locks, t)
    BY <2>1
  <2> QED
    BY <1>6, <1>7, <2>1, <2>2 DEF Surplus
<1>9. \A i \in 1..n : Book(i, t)' = Book(i, t)
  BY <1>1, <1>4, <1>5 DEF Book, Surplus, Owed
<1>10. /\ Book(n + 1, t)' = Surplus(locks, balance, t)'
       /\ Book(n + 1, t) = Surplus(locks, balance, t)
  BY <1>1, <1>4 DEF Book
<1>11. Surplus(locks, balance, t) \in Int /\ Book(n, t) \in Int
  <2>1. c.locks \in [HashLocks -> Lock] /\ c.balance \in [Tokens -> [Addresses -> Nat]]
    BY <1>1 DEF Call
  <2> QED
    BY <1>1, <2>1, SurplusType DEF EvmInv, TypeOK, Book
<1>12. \A i \in 1..n : Book(i + 1, t) >= Book(i, t) + Pending(calls[i], t)
  BY <1>1 DEF Balanced
<1>13. Book(1, t)' >= 0
  BY <1>1, <1>9 DEF Balanced
<1>14. ASSUME NEW i \in 1..n
       PROVE  Book(i + 1, t)' >= Book(i, t)' + Pending(calls'[i], t)
  <2>1. CASE i = n
    <3>1. Book(n + 1, t) >= Book(n, t) + Pending(c, t)
      BY <1>1, <1>12
    <3>2. Book(n, t)' = Book(n, t)
      BY <1>1, <1>9
    <3>3. Book(n + 1, t)' = Book(n + 1, t) - Pending(c, t)
      BY <1>8, <1>10
    <3>4. Book(n + 1, t)' >= Book(n, t)' + Pending(calls'[n], t)
      BY <1>6, <1>10, <1>11, <3>1, <3>2, <3>3
    <3> QED
      BY <2>1, <3>4
  <2>2. CASE i # n
    <3>1. i + 1 \in 1..n /\ calls'[i] = calls[i]
      BY <1>1, <1>4, <2>2
    <3> QED
      BY <1>9, <1>12, <3>1
  <2> QED
    BY <2>1, <2>2
<1> QED
  BY <1>4, <1>13, <1>14

\* A call that ends, either way, leaves books the call outside it allows.
LEMMA PopBooks ==
  ASSUME EvmInv, EvmInv', Balanced, calls # <<>>,
         calls' = SubSeq(calls, 1, Len(calls) - 1),
         \/ calls[Len(calls)].moved /\ UNCHANGED <<locks, balance>>
         \/ locks' = calls[Len(calls)].locks /\ balance' = calls[Len(calls)].balance
  PROVE  Balanced'
<1>0. PICK n \in Nat \ {0} : n = Len(calls)
  BY TopType DEF EvmInv
<1>1. /\ n = Len(calls) /\ n \in Nat \ {0} /\ calls[n] \in Call /\ Len(calls') = n - 1
      /\ \A i \in 1..n-1 : calls'[i] = calls[i]
  BY <1>0, TopType, PopType DEF EvmInv
<1> SUFFICES ASSUME NEW t \in Tokens
             PROVE  /\ Book(1, t)' >= 0
                    /\ \A i \in 1..Len(calls') : Book(i + 1, t)' >= Book(i, t)' + Pending(calls'[i], t)
  BY DEF Balanced
<1>2. \A i \in 1..n-1 : Book(i, t)' = Book(i, t)
  BY <1>1 DEF Book, Surplus, Owed
<1>3. Book(n, t)' = Surplus(locks', balance', t)
  <2>1. ~(n <= Len(calls'))
    BY <1>1
  <2> QED
    BY <2>1 DEF Book, Surplus, Owed
<1>4. /\ Book(n, t) = Surplus(calls[n].locks, calls[n].balance, t)
      /\ Book(n + 1, t) = Surplus(locks, balance, t)
  BY <1>1 DEF Book
<1>5. \A i \in 1..n : Book(i + 1, t) >= Book(i, t) + Pending(calls[i], t)
  BY <1>1 DEF Balanced
<1>6. Book(n, t) \in Int
  <2>1. calls[n].locks \in [HashLocks -> Lock]
        /\ calls[n].balance \in [Tokens -> [Addresses -> Nat]]
    BY <1>1 DEF Call
  <2> QED
    BY <1>4, <2>1, SurplusType
<1>7. Surplus(locks', balance', t) \in Int /\ Surplus(locks', balance', t) >= Book(n, t)
  <2>1. CASE calls[n].moved /\ UNCHANGED <<locks, balance>>
    <3>1. Pending(calls[n], t) = 0 /\ Book(n + 1, t) >= Book(n, t) + Pending(calls[n], t)
      BY <1>1, <1>5, <2>1 DEF Pending
    <3>2. Surplus(locks, balance, t) \in Int
      BY SurplusType DEF EvmInv, TypeOK
    <3> QED
      BY <1>4, <1>6, <2>1, <3>1, <3>2 DEF Surplus, Owed
  <2>2. CASE locks' = calls[n].locks /\ balance' = calls[n].balance
    BY <1>4, <1>6, <2>2
  <2> QED
    BY <1>1, <2>1, <2>2
<1>8. Book(1, t) >= 0
  BY DEF Balanced
<1>9. Book(1, t)' >= 0
  <2>1. CASE n = 1
    <3>1. Book(1, t)' = Surplus(locks', balance', t) /\ Book(1, t) \in Int
      BY <1>3, <1>6, <2>1
    <3> QED
      BY <1>7, <1>8, <2>1, <3>1
  <2>2. CASE n # 1
    BY <1>1, <1>2, <1>8, <2>2
  <2> QED
    BY <2>1, <2>2
<1>10. ASSUME NEW i \in 1..n-1
       PROVE  Book(i + 1, t)' >= Book(i, t)' + Pending(calls'[i], t)
  <2>1. i \in 1..n /\ calls'[i] = calls[i] /\ calls[i] \in Call
    BY <1>1 DEF EvmInv, TypeOK
  <2>2. Book(i + 1, t) >= Book(i, t) + Pending(calls[i], t)
    BY <1>5, <2>1
  <2>3. CASE i + 1 # n
    <3>1. i + 1 \in 1..n-1
      BY <1>1, <2>3
    <3> QED
      BY <1>2, <2>1, <2>2, <3>1
  <2>4. CASE i + 1 = n
    <3>1. Book(i, t) \in Int /\ Pending(calls[i], t) \in Int
      <4>1. Book(i, t) = Surplus(calls[i].locks, calls[i].balance, t)
        BY <1>1, <2>1 DEF Book
      <4>2. calls[i].locks \in [HashLocks -> Lock]
            /\ calls[i].balance \in [Tokens -> [Addresses -> Nat]]
        BY <2>1 DEF Call
      <4> QED
        BY <2>1, <4>1, <4>2, SurplusType, PendingType
    <3>2. Book(i + 1, t)' = Surplus(locks', balance', t) /\ Book(i + 1, t) = Book(n, t)
      BY <1>3, <2>4
    <3>3. Book(i, t)' = Book(i, t)
      BY <1>2
    <3> QED
      <4>1. Book(i + 1, t)' >= Book(i, t) + Pending(calls[i], t)
        BY <1>6, <1>7, <2>2, <3>1, <3>2
      <4>2. Pending(calls'[i], t) = Pending(calls[i], t)
        BY <2>1
      <4> QED
        BY <3>3, <4>1, <4>2
  <2> QED
    BY <2>3, <2>4
<1> QED
  BY <1>1, <1>9, <1>10

\* Balanced is inductive, on top of EvmInv.
LEMMA BooksInductive ==
  /\ Init => Balanced
  /\ EvmInv /\ EvmInv' /\ Balanced /\ [Next]_vars => Balanced'
<1>1. ASSUME Init PROVE Balanced
  <2> SUFFICES ASSUME NEW t \in Tokens
               PROVE  Book(1, t) >= 0 /\ Len(calls) = 0
    BY <1>1 DEF Balanced
  <2>1. Len(calls) = 0 /\ Book(1, t) = Surplus(locks, balance, t)
    BY <1>1 DEF Init, Book
  <2>2. balance[t][Rail] = 0
    BY <1>1, AccountsAssumption DEF Init, Addresses
  <2> DEFINE f == [h \in HashLocks |-> Due(locks[h], t)]
             z == [h \in {} |-> 0]
  <2>3. \A h \in HashLocks : f[h] = 0
    BY <1>1 DEF Init, NoLock, Due
  <2>4. SumFunctionOnSet(f, HashLocks) = 0
    <3> HIDE DEF f
    <3> QED
      BY <2>3, SumZero, HashAssumption
  <2> QED
    BY <2>1, <2>2, <2>4 DEF Surplus, Owed
<1>2. ASSUME EvmInv, EvmInv', Balanced, UNCHANGED <<locks, balance, calls>> PROVE Balanced'
  BY <1>2 DEF Balanced, Book, Surplus, Owed
<1>3. ASSUME EvmInv, EvmInv', Balanced, Next PROVE Balanced'
  <2>1. CASE TokenMoves
    BY <1>3, <2>1, MovesBooks
  <2>2. CASE TokenReturns
    BY <1>3, <2>2, PopBooks DEF TokenReturns
  <2>3. CASE TokenFails
    BY <1>3, <2>3, PopBooks DEF TokenFails
  <2>4. CASE NewBlock
    BY <1>2, <1>3, <2>4 DEF NewBlock
  <2>5. ASSUME NEW sender \in Accounts, NEW token \in Tokens, NEW amount \in 0..MaxAmount,
               Approve(sender, token, amount)
        PROVE  Balanced'
    BY <1>2, <1>3, <2>5 DEF Approve
  <2>6. ASSUME NEW h \in HashLocks, NEW preimage \in Preimages, Claim(h, preimage)
        PROVE  Balanced'
    BY <1>3, <2>6, SettleBooks DEF Claim
  <2>7. ASSUME NEW sender \in Accounts, NEW h \in HashLocks, Refund(sender, h)
        PROVE  Balanced'
    BY <1>3, <2>7, SettleBooks DEF Refund
  <2> QED
    BY <1>3, <2>1, <2>2, <2>3, <2>4, <2>5, <2>6, <2>7, LockBooks DEF Next
<1> QED
  BY <1>1, <1>2, <1>3 DEF vars

\* Between transactions the contract holds at least what its open locks owe
\* in every token, whatever the tokens' code did while it was called: it called
\* back in, moved the money or failed (lock, claim and refund of
\* EvmHashRail.sol, whose effects come before the transfer).
THEOREM EvmSolvent == Spec => []Solvent
<1>1. ASSUME Balanced, calls = <<>>, EvmInv, NEW t \in Tokens
      PROVE  balance[t][Rail] >= Owed(locks, t)
  <2>1. Surplus(locks, balance, t) >= 0
    BY <1>1 DEF Balanced, Book
  <2>2. Owed(locks, t) \in Int /\ balance[t][Rail] \in Int
    BY <1>1, NowType
  <2> QED
    BY <2>1, <2>2 DEF Surplus
<1>2. EvmInv /\ Balanced => Solvent
  BY <1>1 DEF Solvent
<1>3. EvmInv /\ [Next]_vars => EvmInv'
  BY EvmInductive DEF Result
<1> QED
  BY <1>2, <1>3, EvmInductive, BooksInductive, PTL DEF Spec

-----------------------------------------------------------------------------
(* The NEAR contract *)

(* The inductive invariant *)

\* The locks and the clock have their types, and a transfer waiting for
\* ft_on_transfer carries one of the messages.
LocksTyped ==
  /\ nLocks \in [Keys -> NearLock \cup {NoNearLock}]
  /\ nNow \in Nat

OnTransferTyped(r) ==
  r.kind = "onTransfer" => r.sender \in Accounts /\ r.amount \in Nat /\ r.msg \in Messages

Payout(r) == r.kind \in {"transfer", "callback"}

\* A payout under way, called or coming back: its lock waits for it, and the
\* secret is out exactly when it pays the payee.
PayoutMatches(r) ==
  Payout(r) =>
    /\ r.key \in Keys /\ Exists(r.key)
    /\ \/ r.exit = "Claim" /\ nLocks[r.key].status = "Claiming"
       \/ r.exit = "Refund" /\ nLocks[r.key].status = "Refunding"

\* A lock has one payout under way at most.
OnePayout ==
  \A r, s \in receipts : Payout(r) /\ Payout(s) /\ r.key = s.key => r = s

\* What a lock's status says of its secret and its refund time.
StatusMatches(k) ==
  Exists(k) =>
    /\ nLocks[k].status \in {"Claiming", "Claimed"} => nLocks[k].revealed
    /\ nLocks[k].status \in {"Refunding", "Refunded"} => ~nLocks[k].revealed
    /\ nLocks[k].status = "Refunding" => nNow >= nLocks[k].refundAfterMs

\* The inductive invariant of the NEAR contract.
NearInv ==
  /\ LocksTyped
  /\ \A r \in receipts : OnTransferTyped(r) /\ PayoutMatches(r)
  /\ OnePayout
  /\ \A k \in Keys : StatusMatches(k)

-----------------------------------------------------------------------------
(* Lemmas *)

\* A key that is taken holds a lock with all its fields.
LEMMA ExistsIsLock ==
  ASSUME LocksTyped, NEW k \in Keys
  PROVE  Exists(k) <=> nLocks[k] \in NearLock
BY DEF LocksTyped, Exists, NearLock, NoNearLock, LockStatus

\* Storing a lock keeps the invariant if the lock agrees with its own status
\* and with the payouts that wait after the step, when those of other locks
\* are the ones that waited before.
LEMMA StoreKeepsInv ==
  ASSUME NearInv, NEW k \in Keys, NEW lock \in NearLock,
         nLocks' = [nLocks EXCEPT ![k] = lock], nNow' = nNow,
         lock.status \in {"Claiming", "Claimed"} => lock.revealed,
         lock.status \in {"Refunding", "Refunded"} => ~lock.revealed,
         lock.status = "Refunding" => nNow >= lock.refundAfterMs,
         \A r \in receipts' :
           /\ OnTransferTyped(r)
           /\ Payout(r) => \/ r \in receipts /\ r.key # k
                           \/ /\ r.key = k
                              /\ \/ r.exit = "Claim" /\ lock.status = "Claiming"
                                 \/ r.exit = "Refund" /\ lock.status = "Refunding",
         \A r, s \in receipts' : Payout(r) /\ Payout(s) /\ r.key = k /\ s.key = k => r = s
  PROVE  NearInv'
<1>1. LocksTyped'
  BY DEF NearInv, LocksTyped
<1>2. nLocks'[k] = lock /\ \A j \in Keys : j # k => nLocks'[j] = nLocks[j]
  BY DEF NearInv, LocksTyped
<1>3. lock # NoNearLock
  BY DEF NearLock, NoNearLock, LockStatus
<1>4. ASSUME NEW r \in receipts' PROVE (OnTransferTyped(r) /\ PayoutMatches(r))'
  <2>1. OnTransferTyped(r)'
    BY DEF OnTransferTyped
  <2>2. PayoutMatches(r)'
    BY <1>2, <1>3 DEF NearInv, PayoutMatches, Payout, Exists
  <2>3. QED
    BY <2>1, <2>2
<1>5. OnePayout'
  BY DEF NearInv, OnePayout, Payout
<1>6. ASSUME NEW j \in Keys PROVE StatusMatches(j)'
  <2>1. CASE j = k
    BY <1>2, <2>1 DEF StatusMatches
  <2>2. CASE j # k
    BY <1>2, <2>2 DEF NearInv, StatusMatches, Exists
  <2>3. QED
    BY <2>1, <2>2
<1>7. QED
  BY <1>1, <1>4, <1>5, <1>6 DEF NearInv

\* A step that stores nothing keeps the invariant if every payout that waits
\* after it stands for one that waited before: the same lock, the same way.
LEMMA WaitKeepsInv ==
  ASSUME NearInv, nLocks' = nLocks, nNow' \in Nat, nNow' >= nNow,
         \A r \in receipts' : OnTransferTyped(r),
         \A r \in receipts' : Payout(r) =>
           \E s \in receipts : Payout(s) /\ s.key = r.key /\ s.exit = r.exit,
         \A r, s \in receipts' : Payout(r) /\ Payout(s) /\ r.key = s.key => r = s
  PROVE  NearInv'
<1>1. LocksTyped'
  BY DEF NearInv, LocksTyped
<1>2. ASSUME NEW r \in receipts' PROVE (OnTransferTyped(r) /\ PayoutMatches(r))'
  <2>1. OnTransferTyped(r)'
    BY DEF OnTransferTyped
  <2>2. PayoutMatches(r)'
    BY DEF NearInv, PayoutMatches, Payout, Exists
  <2>3. QED
    BY <2>1, <2>2
<1>3. OnePayout'
  BY DEF OnePayout, Payout
<1>4. ASSUME NEW k \in Keys PROVE StatusMatches(k)'
  <2>1. Exists(k) => nLocks[k].refundAfterMs \in Nat
    BY ExistsIsLock DEF NearInv, NearLock
  <2>2. QED
    BY <2>1 DEF NearInv, StatusMatches, Exists, LocksTyped
<1>5. QED
  BY <1>1, <1>2, <1>3, <1>4 DEF NearInv

-----------------------------------------------------------------------------
(* What the steps do to one lock *)

\* ft_on_transfer stores a lock, before its refund time.
NearOpens(k) ==
  /\ ~Exists(k)
  /\ Exists(k)' /\ nLocks'[k].status = "Locked" /\ nLocks'[k].revealed = FALSE
  /\ nNow < nLocks'[k].refundAfterMs
  /\ nNow' = nNow

\* claim shows the secret, before the refund time.
Reveals(k) ==
  /\ Exists(k) /\ Exists(k)'
  /\ ~nLocks[k].revealed /\ nLocks'[k].revealed = TRUE
  /\ nLocks[k].status = "Locked" /\ nLocks'[k].status = "Claiming"
  /\ nNow < nLocks[k].refundAfterMs
  /\ nLocks'[k].refundAfterMs = nLocks[k].refundAfterMs
  /\ nNow' = nNow

\* on_transfer_complete reports a refund that has been paid.
Returns(k) ==
  /\ Exists(k) /\ Exists(k)'
  /\ nLocks[k].status = "Refunding" /\ nLocks'[k].status = "Refunded"
  /\ ~nLocks[k].revealed /\ ~nLocks'[k].revealed
  /\ nNow >= nLocks[k].refundAfterMs
  /\ nLocks'[k].refundAfterMs = nLocks[k].refundAfterMs
  /\ nNow' = nNow

\* Everything else leaves what Htlc sees of the lock, but for the time.
Keeps(k) ==
  /\ Exists(k)' <=> Exists(k)
  /\ Exists(k) =>
       /\ nLocks'[k].revealed = nLocks[k].revealed
       /\ nLocks'[k].refundAfterMs = nLocks[k].refundAfterMs
       /\ (nLocks'[k].status = "Refunded") <=> (nLocks[k].status = "Refunded")
  /\ nNow' >= nNow

\* What a step may do to the locks: the invariant again, and for every lock
\* one of the four.
NearResult == NearInv' /\ \A k \in Keys : NearOpens(k) \/ Reveals(k) \/ Returns(k) \/ Keeps(k)

\* A step that changes no lock does nothing Htlc sees, but for the time.
LEMMA UntouchedKeeps ==
  ASSUME nLocks' = nLocks, nNow' >= nNow, NEW k \in Keys
  PROVE  Keeps(k)
BY DEF Keeps, Exists

\* A call of the token or of ft_on_transfer only waits.
LEMMA CallStep ==
  ASSUME NearInv, NEW sender \in Accounts, NEW amount \in 1..MaxAmount, NEW msg \in Messages,
         FtTransferCall(sender, amount, msg) \/ CallOnTransferDirectly(sender, amount, msg)
  PROVE  NearResult
<1>1. nNow \in Nat /\ amount \in Nat
  BY NumbersAssumption DEF NearInv, LocksTyped
<1>2. nLocks' = nLocks /\ nNow' = nNow
  BY DEF FtTransferCall, CallOnTransferDirectly
<1>3. PICK p : receipts' = receipts \cup
        {[kind |-> "onTransfer", predecessor |-> p, sender |-> sender,
          amount |-> amount, msg |-> msg]}
  BY DEF FtTransferCall, CallOnTransferDirectly, Schedule
<1>4. NearInv'
  BY <1>1, <1>2, <1>3, WaitKeepsInv DEF NearInv, OnTransferTyped, OnePayout, Payout
<1>5. QED
  BY <1>1, <1>2, <1>4, UntouchedKeeps DEF NearResult

\* Refused money goes back.
LEMMA ResolveStep ==
  ASSUME NearInv, NEW r \in receipts, FtResolveTransfer(r)
  PROVE  NearResult
<1>1. nNow \in Nat /\ nLocks' = nLocks /\ nNow' = nNow
  BY DEF FtResolveTransfer, NearInv, LocksTyped
<1>2. NearInv'
  BY <1>1, WaitKeepsInv DEF FtResolveTransfer, NearInv, OnePayout
<1>3. QED
  BY <1>1, <1>2, UntouchedKeeps DEF NearResult

\* ft_transfer, paid or failed: the callback waits in the payout's place.
LEMMA PayoutStep ==
  ASSUME NearInv, NEW r \in receipts, FtTransfer(r) \/ FtTransferFails(r)
  PROVE  NearResult
<1>1. nNow \in Nat /\ nLocks' = nLocks /\ nNow' = nNow
  BY DEF FtTransfer, FtTransferFails, NearInv, LocksTyped
<1>2. PICK ok : receipts' = (receipts \ {r}) \cup
        {[kind |-> "callback", key |-> r.key, exit |-> r.exit, ok |-> ok]}
  BY DEF FtTransfer, FtTransferFails, Schedule
<1> DEFINE callback == [kind |-> "callback", key |-> r.key, exit |-> r.exit, ok |-> ok]
<1>3. /\ Payout(r) /\ Payout(callback)
      /\ callback.key = r.key /\ callback.exit = r.exit /\ OnTransferTyped(callback)
  BY DEF FtTransfer, FtTransferFails, Payout, OnTransferTyped
<1> HIDE DEF callback
<1>4. receipts' = (receipts \ {r}) \cup {callback}
  BY <1>2 DEF callback
<1>5. \A s \in receipts' : OnTransferTyped(s)
  BY <1>3, <1>4 DEF NearInv
<1>6. \A s \in receipts' : Payout(s) =>
        \E t \in receipts : Payout(t) /\ t.key = s.key /\ t.exit = s.exit
  BY <1>3, <1>4
<1>7. \A s, t \in receipts' : Payout(s) /\ Payout(t) /\ s.key = t.key => s = t
  BY <1>3, <1>4 DEF NearInv, OnePayout
<1>8. NearInv'
  BY <1>1, <1>5, <1>6, <1>7, WaitKeepsInv
<1>9. QED
  BY <1>1, <1>8, UntouchedKeeps DEF NearResult

\* ft_on_transfer: a lock opens, or the transfer is refused.
LEMMA OnTransferStep ==
  ASSUME NearInv, NEW r \in receipts, NEW covered \in BOOLEAN, FtOnTransfer(r, covered)
  PROVE  NearResult
<1>1. /\ r.kind = "onTransfer" /\ r.sender \in Accounts /\ r.amount \in Nat
      /\ r.msg \in LockMsg /\ nNow \in Nat /\ nNow' = nNow
  BY NearAssumption DEF FtOnTransfer, NearInv, OnTransferTyped, LocksTyped
<1>2. CASE AcceptsTransfer(r) /\ covered
  <2> DEFINE k == <<r.sender, r.msg.hashLock>>
             lock == [payee |-> r.msg.payee, amount |-> r.amount,
                      claimByMs |-> r.msg.claimByMs, refundAfterMs |-> r.msg.refundAfterMs,
                      status |-> "Locked", revealed |-> FALSE]
  <2>1. k \in Keys /\ lock \in NearLock
    BY <1>1 DEF Keys, LockMsg, NearLock, LockStatus
  <2>2. lock.status = "Locked" /\ lock.revealed = FALSE /\ lock # NoNearLock
    BY DEF NoNearLock
  <2>3. /\ ~Exists(k) /\ nNow < lock.refundAfterMs
        /\ nLocks' = [nLocks EXCEPT ![k] = lock] /\ receipts' = receipts \ {r}
    BY <1>2 DEF FtOnTransfer, AcceptsTransfer
  <2> HIDE DEF k, lock
  <2>4. \A s \in receipts' : OnTransferTyped(s) /\ (Payout(s) => s \in receipts /\ s.key # k)
    BY <2>3 DEF NearInv, PayoutMatches
  <2>5. NearInv'
    BY <1>1, <2>1, <2>2, <2>3, <2>4, StoreKeepsInv
  <2>6. NearOpens(k)
    BY <1>1, <2>1, <2>2, <2>3 DEF NearOpens, Exists, NearInv, LocksTyped
  <2>7. ASSUME NEW j \in Keys, j # k PROVE Keeps(j)
    BY <1>1, <2>3, <2>7 DEF Keeps, Exists, NearInv, LocksTyped
  <2>8. QED
    BY <2>1, <2>5, <2>6, <2>7 DEF NearResult
<1>3. CASE ~(AcceptsTransfer(r) /\ covered)
  <2>1. nLocks' = nLocks
    BY <1>3 DEF FtOnTransfer
  <2>2. \A s \in receipts' : s \in receipts \/ s.kind = "resolve"
    BY <1>3 DEF FtOnTransfer, Schedule
  <2>3. NearInv'
    BY <1>1, <2>1, <2>2, WaitKeepsInv DEF NearInv, OnePayout, Payout, OnTransferTyped
  <2>4. QED
    BY <1>1, <2>1, <2>3, UntouchedKeeps DEF NearResult
<1>4. QED
  BY <1>2, <1>3

\* claim and refund: the lock leaves Locked and its payout waits, alone.
LEMMA StartPayout ==
  ASSUME NearInv, NEW k \in Keys, NEW lock \in NearLock, NEW exit \in {"Claim", "Refund"},
         Exists(k), nLocks[k].status = "Locked",
         nLocks' = [nLocks EXCEPT ![k] = lock], nNow' = nNow,
         \/ exit = "Claim" /\ lock.status = "Claiming" /\ lock.revealed
         \/ /\ exit = "Refund" /\ lock.status = "Refunding" /\ ~lock.revealed
            /\ nNow >= lock.refundAfterMs,
         Schedule([kind |-> "transfer", key |-> k, exit |-> exit], {})
  PROVE  NearInv'
<1> DEFINE payout == [kind |-> "transfer", key |-> k, exit |-> exit]
<1>1. payout.key = k /\ payout.exit = exit /\ OnTransferTyped(payout)
  BY DEF OnTransferTyped
<1>2. receipts' = receipts \cup {payout}
  BY DEF Schedule
<1> HIDE DEF payout
<1>3. \A r \in receipts : Payout(r) => r.key # k
  BY DEF NearInv, PayoutMatches
<1>4. \A r \in receipts' :
        /\ OnTransferTyped(r)
        /\ Payout(r) => \/ r \in receipts /\ r.key # k
                        \/ /\ r.key = k
                           /\ \/ r.exit = "Claim" /\ lock.status = "Claiming"
                              \/ r.exit = "Refund" /\ lock.status = "Refunding"
  BY <1>1, <1>2, <1>3 DEF NearInv
<1>5. \A r, s \in receipts' : Payout(r) /\ Payout(s) /\ r.key = k /\ s.key = k => r = s
  BY <1>2, <1>3
<1>6. QED
  BY <1>4, <1>5, StoreKeepsInv

\* claim: the first shows the secret before the refund time; a retry changes
\* nothing Htlc sees.
LEMMA NearClaimStep ==
  ASSUME NearInv, NEW k \in Keys, NEW preimage \in Preimages, NearClaim(k, preimage)
  PROVE  NearResult
<1> DEFINE lock == [[nLocks[k] EXCEPT !.status = "Claiming"] EXCEPT !.revealed = TRUE]
<1>1. /\ Exists(k) /\ nLocks[k] \in NearLock /\ nLocks[k].status = "Locked"
      /\ nNow \in Nat /\ nNow' = nNow
      /\ Schedule([kind |-> "transfer", key |-> k, exit |-> "Claim"], {})
      /\ nNow < nLocks[k].refundAfterMs \/ nLocks[k].revealed
  BY ExistsIsLock DEF NearClaim, NearInv, LocksTyped, Claimable
<1>2. nLocks' = [nLocks EXCEPT ![k] = lock]
  BY DEF NearClaim, NearInv, LocksTyped
<1>3. /\ lock \in NearLock /\ lock.status = "Claiming" /\ lock.revealed = TRUE
      /\ lock.refundAfterMs = nLocks[k].refundAfterMs
  BY <1>1 DEF NearLock, LockStatus
<1>4. nLocks[k].revealed \in BOOLEAN /\ lock # NoNearLock
  BY <1>1, <1>3 DEF NearLock, NoNearLock
<1> HIDE DEF lock
<1>5. NearInv'
  BY <1>1, <1>2, <1>3, StartPayout
<1>6. nLocks'[k] = lock /\ \A j \in Keys : j # k => nLocks'[j] = nLocks[j]
  BY <1>2 DEF NearInv, LocksTyped
<1>7. Reveals(k) \/ Keeps(k)
  <2>1. Exists(k)' /\ nLocks'[k].revealed = TRUE
        /\ nLocks'[k].refundAfterMs = nLocks[k].refundAfterMs
        /\ nLocks'[k].status = "Claiming" /\ nNow' >= nNow
    BY <1>1, <1>3, <1>4, <1>6 DEF Exists
  <2>2. CASE nLocks[k].revealed = TRUE
    BY <1>1, <2>1, <2>2 DEF Keeps
  <2>3. CASE nLocks[k].revealed = FALSE
    <3>1. nNow < nLocks[k].refundAfterMs
      BY <1>1, <2>3
    <3>2. QED
      BY <1>1, <2>1, <2>3, <3>1 DEF Reveals
  <2>4. QED
    BY <1>4, <2>2, <2>3
<1>8. \A j \in Keys : j # k => Keeps(j)
  BY <1>1, <1>6 DEF Keeps, Exists
<1>9. QED
  BY <1>5, <1>7, <1>8 DEF NearResult

\* refund: the payout waits, and the lock still counts as open.
LEMMA NearRefundStep ==
  ASSUME NearInv, NEW k \in Keys, NearRefund(k)
  PROVE  NearResult
<1> DEFINE lock == [nLocks[k] EXCEPT !.status = "Refunding"]
<1>1. /\ Exists(k) /\ nLocks[k] \in NearLock /\ nLocks[k].status = "Locked"
      /\ nNow \in Nat /\ nNow' = nNow /\ nNow >= nLocks[k].refundAfterMs
      /\ Schedule([kind |-> "transfer", key |-> k, exit |-> "Refund"], {})
      /\ ~nLocks[k].revealed
  BY ExistsIsLock DEF NearRefund, NearInv, LocksTyped
<1>2. nLocks' = [nLocks EXCEPT ![k] = lock]
  BY DEF NearRefund, NearInv, LocksTyped
<1>3. /\ lock \in NearLock /\ lock.status = "Refunding" /\ lock.revealed = nLocks[k].revealed
      /\ lock.refundAfterMs = nLocks[k].refundAfterMs
  BY <1>1 DEF NearLock, LockStatus
<1>4. lock # NoNearLock
  BY <1>3 DEF NoNearLock
<1> HIDE DEF lock
<1>5. NearInv'
  BY <1>1, <1>2, <1>3, StartPayout
<1>6. nLocks'[k] = lock /\ \A j \in Keys : j # k => nLocks'[j] = nLocks[j]
  BY <1>2 DEF NearInv, LocksTyped
<1>7. \A j \in Keys : Keeps(j)
  BY <1>1, <1>3, <1>4, <1>6 DEF Keeps, Exists
<1>8. QED
  BY <1>5, <1>7 DEF NearResult

\* on_transfer_complete: paid, the lock settles; failed, it is Locked again
\* and what was revealed stays revealed.
LEMMA CompleteStep ==
  ASSUME NearInv, NEW r \in receipts, OnTransferComplete(r)
  PROVE  NearResult
<1> DEFINE k == r.key
           lock == [nLocks[k] EXCEPT !.status =
                      IF ~r.ok THEN "Locked"
                      ELSE IF r.exit = "Claim" THEN "Claimed" ELSE "Refunded"]
<1>1. /\ Payout(r) /\ k \in Keys /\ Exists(k)
      /\ \/ r.exit = "Claim" /\ nLocks[k].status = "Claiming" /\ nLocks[k].revealed
         \/ /\ r.exit = "Refund" /\ nLocks[k].status = "Refunding"
            /\ ~nLocks[k].revealed /\ nNow >= nLocks[k].refundAfterMs
  BY DEF OnTransferComplete, NearInv, Payout, PayoutMatches, StatusMatches
<1>2. nLocks[k] \in NearLock /\ nNow \in Nat /\ nNow' = nNow
  BY <1>1, ExistsIsLock DEF OnTransferComplete, NearInv, LocksTyped
<1>3. nLocks' = [nLocks EXCEPT ![k] = lock] /\ receipts' = receipts \ {r}
  BY <1>1 DEF OnTransferComplete, NearInv, LocksTyped
<1>4. /\ lock \in NearLock /\ lock.revealed = nLocks[k].revealed
      /\ lock.refundAfterMs = nLocks[k].refundAfterMs
      /\ \/ lock.status = "Locked"
         \/ lock.status = "Claimed" /\ r.exit = "Claim"
         \/ lock.status = "Refunded" /\ r.exit # "Claim"
  BY <1>2 DEF NearLock, LockStatus
<1>5. lock # NoNearLock
  BY <1>4 DEF NoNearLock
<1> HIDE DEF lock
<1>6. nLocks'[k] = lock /\ \A j \in Keys : j # k => nLocks'[j] = nLocks[j]
  BY <1>1, <1>3 DEF NearInv, LocksTyped
<1>7. \A s \in receipts' : OnTransferTyped(s) /\ (Payout(s) => s \in receipts /\ s.key # k)
  BY <1>1, <1>3 DEF NearInv, OnePayout
<1>8. NearInv'
  BY <1>1, <1>2, <1>3, <1>4, <1>7, StoreKeepsInv
<1>9. Returns(k) \/ Keeps(k)
  BY <1>1, <1>2, <1>4, <1>5, <1>6 DEF Returns, Keeps, Exists
<1>10. \A j \in Keys : j # k => Keeps(j)
  BY <1>2, <1>6 DEF Keeps, Exists
<1>11. QED
  BY <1>8, <1>9, <1>10 DEF NearResult

\* NearInv is inductive, and every step is one of the four for every lock.
LEMMA NearInductive ==
  /\ NearInit => NearInv
  /\ NearInv /\ NearNext => NearResult
<1>1. NearInit => NearInv
  BY DEF NearInit, NearInv, LocksTyped, OnePayout, StatusMatches, Exists
<1>2. ASSUME NearInv, NearNext PROVE NearResult
  <2>1. CASE NearBlock
    <3>1. nNow \in Nat /\ nNow' = nNow + 1 /\ nLocks' = nLocks /\ receipts' = receipts
      BY <1>2, <2>1 DEF NearBlock, NearInv, LocksTyped
    <3>2. NearInv'
      BY <1>2, <3>1, WaitKeepsInv DEF NearInv, OnePayout
    <3>3. QED
      BY <3>1, <3>2, UntouchedKeeps DEF NearResult
  <2>2. QED
    BY <1>2, <2>1, CallStep, ResolveStep, PayoutStep, OnTransferStep, CompleteStep,
       NearClaimStep, NearRefundStep DEF NearNext
<1>3. QED
  BY <1>1, <1>2

\* No step, stuttering included, breaks NearInv.
LEMMA NearInvNext == NearInv /\ [NearNext]_nearVars => NearInv'
<1>1. NearInv /\ UNCHANGED nearVars => NearInv'
  BY DEF nearVars, NearInv, LocksTyped, OnTransferTyped, PayoutMatches, Payout,
         OnePayout, StatusMatches, Exists
<1>2. QED
  BY <1>1, NearInductive DEF NearResult

-----------------------------------------------------------------------------
(* Refinement *)

\* A step of the contract is a step of Htlc for every lock, or none.
LEMMA NearEveryStepIsOfHtlc ==
  ASSUME NearInv, NearInv', [NearNext]_nearVars, NEW k \in Keys
  PROVE  [NearEscrow(k)!Next]_(NearEscrow(k)!vars)
<1>1. NearOpens(k) \/ Reveals(k) \/ Returns(k) \/ Keeps(k)
  <2>1. CASE NearNext
    BY <2>1, NearInductive DEF NearResult
  <2>2. CASE UNCHANGED nearVars
    BY <2>2, UntouchedKeeps DEF nearVars, NearInv, LocksTyped
  <2>3. QED
    BY <2>1, <2>2
<1>2. /\ nNow \in Nat /\ nNow' \in Nat
      /\ Exists(k) => nLocks[k].refundAfterMs \in Nat /\ nLocks[k].revealed \in BOOLEAN
      /\ Exists(k)' => nLocks'[k].refundAfterMs \in Nat
      /\ Exists(k) \in BOOLEAN /\ Exists(k)' \in BOOLEAN
  <2>1. Exists(k)' => nLocks'[k] \in NearLock
    BY DEF NearInv, LocksTyped, Exists
  <2>2. QED
    BY <2>1, ExistsIsLock DEF NearInv, LocksTyped, NearLock, Exists
<1>3. CASE NearOpens(k)
  <2>1. NearStatus(k) = "none" /\ NearStatus(k)' = "locked"
    BY <1>3 DEF NearOpens, NearStatus
  <2>2. NearRefundOpen(k)' = FALSE
    BY <1>2, <1>3 DEF NearOpens, NearRefundOpen
  <2>3. NearEscrow(k)!Lock
    BY <2>1, <2>2 DEF NearEscrow!Lock
  <2>4. QED
    BY <2>3 DEF NearEscrow!Next
<1>4. CASE Reveals(k)
  <2>1. NearStatus(k) = "locked" /\ NearStatus(k)' = "claimed"
    BY <1>4 DEF Reveals, NearStatus
  <2>2. NearRefundOpen(k) = FALSE /\ NearRefundOpen(k)' = FALSE
    BY <1>2, <1>4 DEF Reveals, NearRefundOpen
  <2>3. NearEscrow(k)!Claim
    BY <2>1, <2>2 DEF NearEscrow!Claim
  <2>4. QED
    BY <2>3 DEF NearEscrow!Next
<1>5. CASE Returns(k)
  <2>1. NearStatus(k) = "locked" /\ NearStatus(k)' = "refunded"
    BY <1>5 DEF Returns, NearStatus
  <2>2. NearRefundOpen(k) = TRUE /\ NearRefundOpen(k)' = TRUE
    BY <1>2, <1>5 DEF Returns, NearRefundOpen
  <2>3. NearEscrow(k)!Refund
    BY <2>1, <2>2 DEF NearEscrow!Refund
  <2>4. QED
    BY <2>3 DEF NearEscrow!Next
<1>6. CASE Keeps(k)
  <2>1. NearStatus(k)' = NearStatus(k)
    BY <1>6 DEF Keeps, NearStatus
  <2>2. NearRefundOpen(k) => NearRefundOpen(k)'
    BY <1>2, <1>6 DEF Keeps, NearRefundOpen
  <2>3. NearRefundOpen(k) \in BOOLEAN /\ NearRefundOpen(k)' \in BOOLEAN
    BY <1>2 DEF NearRefundOpen
  <2>4. CASE NearRefundOpen(k)' = NearRefundOpen(k)
    BY <2>1, <2>4 DEF NearEscrow!vars
  <2>5. CASE NearRefundOpen(k)' # NearRefundOpen(k)
    <3>1. NearRefundOpen(k)' = TRUE
      BY <2>2, <2>3, <2>5
    <3>2. NearStatus(k) # "none"
      BY <1>6, <3>1 DEF Keeps, NearStatus, NearRefundOpen
    <3>3. NearEscrow(k)!RefundTimeComes
      BY <2>1, <3>1, <3>2 DEF NearEscrow!RefundTimeComes
    <3>4. QED
      BY <3>3 DEF NearEscrow!Next
  <2>6. QED
    BY <2>4, <2>5
<1>7. QED
  BY <1>1, <1>3, <1>4, <1>5, <1>6

\* Every lock of the NEAR contract keeps the promise of Htlc, whatever order
\* its receipts run in and however many payouts fail: a lock whose claim has
\* shown the secret never goes back to the payer, and one whose refund is
\* under way is not claimed (claim, refund and on_transfer_complete).
THEOREM NearContractIsHtlc == NearSpec => NearImplementsHtlc
<1>1. ASSUME NearInit, NEW k \in Keys PROVE NearEscrow(k)!Init
  <2>1. ~Exists(k)
    BY <1>1 DEF NearInit, Exists
  <2>2. NearStatus(k) = "none" /\ NearRefundOpen(k) = FALSE
    BY <2>1 DEF NearStatus, NearRefundOpen
  <2>3. QED
    BY <2>2 DEF NearEscrow!Init
<1>2. NearInit => \A k \in Keys : NearEscrow(k)!Init
  BY <1>1
<1>3. NearInv /\ [NearNext]_nearVars => NearInv'
  BY NearInvNext
<1>4. ASSUME NearInv, NearInv', [NearNext]_nearVars
      PROVE  \A k \in Keys : [NearEscrow(k)!Next]_(NearEscrow(k)!vars)
  BY <1>4, NearEveryStepIsOfHtlc
<1>5. QED
  BY <1>2, <1>3, <1>4, NearInductive, PTL DEF NearSpec, NearImplementsHtlc

-----------------------------------------------------------------------------
(* Solvency: whose money the contract holds *)

\* What all locks together are owed, and what a set of receipts carries.
KeptSum == SumFunctionOnSet([k \in Keys |-> Kept(k)], Keys)
HeldBy(R) == SumFunctionOnSet([r \in R |-> Undecided(r)], R)

\* The books balance to the last unit; payees can be paid, and none of them is
\* the contract itself.
NearBooks ==
  /\ NearTypeOK
  /\ NearSolvent
  /\ IsFiniteSet(receipts)
  /\ \A k \in Keys : Exists(k) => nLocks[k].payee \in Accounts

\* There are finitely many keys, and a lock is owed a natural number.
LEMMA KeysFinite == IsFiniteSet(Keys)
BY FS_Product, AccountsAssumption, HashAssumption DEF Keys

\* What is kept for a lock is a natural number.
LEMMA KeptType ==
  ASSUME LocksTyped, NEW k \in Keys
  PROVE  Kept(k) \in Nat
<1>1. Exists(k) => nLocks[k] \in NearLock
  BY ExistsIsLock
<1>2. ~Exists(k) => ~Owes(k)
  BY DEF Exists, NoNearLock, Owes
<1> QED
  BY <1>1, <1>2 DEF Kept, NearLock

\* The same after a step.
LEMMA KeptTypeNext ==
  ASSUME LocksTyped', NEW k \in Keys
  PROVE  Kept(k)' \in Nat
<1>1. nLocks'[k] \in NearLock \/ nLocks'[k] = NoNearLock
  BY DEF LocksTyped
<1>2. nLocks'[k] = NoNearLock => ~Owes(k)'
  BY DEF NoNearLock, Owes
<1> QED
  BY <1>1, <1>2 DEF Kept, NearLock

\* What the locks are owed together is a natural number.
LEMMA KeptSumType ==
  ASSUME LocksTyped
  PROVE  KeptSum \in Nat
<1> DEFINE f == [k \in Keys |-> Kept(k)]
<1>1. \A k \in Keys : f[k] \in Nat
  BY KeptType
<1>2. SumFunctionOnSet(f, Keys) \in Nat
  <2> HIDE DEF f
  <2> QED
    BY <1>1, SumNat, KeysFinite
<1> QED
  BY <1>2 DEF KeptSum

\* Only one lock is owed something else: the sum moves by that.
LEMMA KeptSumChanges ==
  ASSUME LocksTyped, LocksTyped', NEW j \in Keys,
         \A k \in Keys \ {j} : Kept(k)' = Kept(k)
  PROVE  KeptSum' = KeptSum - Kept(j) + Kept(j)'
<1> DEFINE f == [k \in Keys |-> Kept(k)]
           g == [k \in Keys |-> Kept(k)']
<1>1. \A k \in Keys : f[k] \in Int /\ g[k] \in Int
  BY KeptType, KeptTypeNext
<1>2. \A k \in Keys \ {j} : g[k] = f[k]
  OBVIOUS
<1>3. f[j] = Kept(j) /\ g[j] = Kept(j)'
  OBVIOUS
<1>4. SumFunctionOnSet(g, Keys) = SumFunctionOnSet(f, Keys) - f[j] + g[j]
  <2> HIDE DEF f, g
  <2> QED
    BY <1>1, <1>2, SumChange, KeysFinite
<1>5. KeptSum = SumFunctionOnSet(f, Keys) /\ KeptSum' = SumFunctionOnSet(g, Keys)
  BY DEF KeptSum
<1> QED
  BY <1>3, <1>4, <1>5

\* No lock is owed anything else.
LEMMA KeptSumStays ==
  ASSUME \A k \in Keys : Kept(k)' = Kept(k)
  PROVE  KeptSum' = KeptSum
BY DEF KeptSum

\* What a receipt carries is a natural number.
LEMMA UndecidedType ==
  ASSUME NEW r \in Receipts
  PROVE  Undecided(r) \in Nat
BY NumbersAssumption DEF Receipts, Undecided

\* What receipts carry, as one is added or taken out.
LEMMA HeldType ==
  ASSUME NEW R, R \subseteq Receipts, IsFiniteSet(R)
  PROVE  HeldBy(R) \in Nat
<1> DEFINE f == [r \in R |-> Undecided(r)]
<1>1. \A r \in R : f[r] \in Nat
  BY UndecidedType
<1>2. SumFunctionOnSet(f, R) \in Nat
  <2> HIDE DEF f
  <2> QED
    BY <1>1, SumNat
<1> QED
  BY <1>2 DEF HeldBy

\* One receipt fewer.
LEMMA HeldWithout ==
  ASSUME NEW R, R \subseteq Receipts, IsFiniteSet(R), NEW r \in R
  PROVE  /\ IsFiniteSet(R \ {r})
         /\ HeldBy(R) = HeldBy(R \ {r}) + Undecided(r)
         /\ HeldBy(R \ {r}) \in Nat
<1> DEFINE f == [s \in R |-> Undecided(s)]
           g == [s \in R \ {r} |-> Undecided(s)]
<1>1. IsFiniteSet(R \ {r}) /\ R \ {r} \subseteq Receipts
  BY FS_RemoveElement
<1>2. \A s \in R : f[s] \in Int
  BY UndecidedType
<1>3. \A s \in R \ {r} : f[s] \in Int /\ g[s] = f[s]
  BY <1>2
<1>4. f[r] = Undecided(r)
  OBVIOUS
<1>5. /\ SumFunctionOnSet(f, R) = f[r] + SumFunctionOnSet(f, R \ {r})
      /\ SumFunctionOnSet(g, R \ {r}) = SumFunctionOnSet(f, R \ {r})
  <2> HIDE DEF f, g
  <2>1. SumFunctionOnSet(f, R) = f[r] + SumFunctionOnSet(f, R \ {r})
    BY <1>2, SumRemove
  <2>2. SumFunctionOnSet(g, R \ {r}) = SumFunctionOnSet(f, R \ {r})
    BY <1>1, <1>3, SumSame
  <2> QED
    BY <2>1, <2>2
<1>6. HeldBy(R) = SumFunctionOnSet(f, R) /\ HeldBy(R \ {r}) = SumFunctionOnSet(g, R \ {r})
  BY DEF HeldBy
<1>7. HeldBy(R \ {r}) \in Nat /\ Undecided(r) \in Nat
  BY <1>1, HeldType, UndecidedType
<1> HIDE DEF f, g
<1> QED
  BY <1>1, <1>4, <1>5, <1>6, <1>7

\* One receipt more.
LEMMA HeldWith ==
  ASSUME NEW R, R \subseteq Receipts, IsFiniteSet(R), NEW r \in Receipts, r \notin R
  PROVE  /\ IsFiniteSet(R \cup {r})
         /\ HeldBy(R \cup {r}) = HeldBy(R) + Undecided(r)
<1>1. /\ R \cup {r} \subseteq Receipts /\ IsFiniteSet(R \cup {r})
      /\ r \in R \cup {r} /\ (R \cup {r}) \ {r} = R
  BY FS_AddElement
<1>2. HeldBy(R \cup {r}) = HeldBy((R \cup {r}) \ {r}) + Undecided(r)
  BY <1>1, HeldWithout
<1> QED
  BY <1>1, <1>2

\* NearSolvent with the sums named.
LEMMA BooksSay ==
  ASSUME NearBooks
  PROVE  /\ nBalance[Rail] = KeptSum + HeldBy(receipts)
         /\ nBalance \in [NearHolders -> Nat] /\ nBalance[Rail] \in Nat
         /\ receipts \subseteq Receipts /\ IsFiniteSet(receipts)
         /\ LocksTyped /\ KeptSum \in Nat /\ HeldBy(receipts) \in Nat
<1>1. nBalance[Rail] = KeptSum + HeldBy(receipts)
  BY DEF NearBooks, NearSolvent, KeptSum, HeldBy
<1>2. /\ nBalance \in [NearHolders -> Nat] /\ nBalance[Rail] \in Nat
      /\ receipts \subseteq Receipts /\ IsFiniteSet(receipts) /\ LocksTyped
  BY DEF NearBooks, NearTypeOK, LocksTyped, NearHolders
<1> QED
  BY <1>1, <1>2, KeptSumType, HeldType

\* A step keeps the books when it moves as much money as it changes what is
\* owed and what is carried.
LEMMA BooksNext ==
  ASSUME NearInv', nBalance' \in [NearHolders -> Nat], receipts' \subseteq Receipts,
         IsFiniteSet(receipts'), failures' \in 0..MaxFailures,
         nBalance'[Rail] = KeptSum' + HeldBy(receipts'),
         \A k \in Keys : Exists(k)' => nLocks'[k].payee \in Accounts
  PROVE  NearBooks'
<1>1. NearTypeOK'
  BY DEF NearTypeOK, NearInv, LocksTyped
<1>2. NearSolvent'
  BY DEF NearSolvent, KeptSum, HeldBy
<1> QED
  BY <1>1, <1>2 DEF NearBooks

\* Money that moves between an account and the contract.
LEMMA BalanceMoves ==
  ASSUME nBalance \in [NearHolders -> Nat], NEW a \in Accounts, NEW x \in Nat,
         \/ /\ x <= nBalance[a]
            /\ nBalance' = [nBalance EXCEPT ![a] = @ - x, ![Rail] = @ + x]
         \/ /\ x <= nBalance[Rail]
            /\ nBalance' = [nBalance EXCEPT ![Rail] = @ - x, ![a] = @ + x]
  PROVE  /\ nBalance' \in [NearHolders -> Nat]
         /\ \/ x <= nBalance[a] /\ nBalance'[Rail] = nBalance[Rail] + x
            \/ x <= nBalance[Rail] /\ nBalance'[Rail] = nBalance[Rail] - x
<1>1. a \in NearHolders /\ Rail \in NearHolders /\ a # Rail
  BY AccountsAssumption DEF NearHolders
<1>2. nBalance[a] \in Nat /\ nBalance[Rail] \in Nat
  BY <1>1
<1>3. CASE /\ x <= nBalance[a]
           /\ nBalance' = [nBalance EXCEPT ![a] = @ - x, ![Rail] = @ + x]
  <2>1. nBalance[a] - x \in Nat /\ nBalance[Rail] + x \in Nat
    BY <1>2, <1>3
  <2>2. nBalance' = [[nBalance EXCEPT ![a] = nBalance[a] - x] EXCEPT ![Rail] = nBalance[Rail] + x]
    BY <1>1, <1>3
  <2> QED
    BY <1>1, <1>3, <2>1, <2>2
<1>4. CASE /\ x <= nBalance[Rail]
           /\ nBalance' = [nBalance EXCEPT ![Rail] = @ - x, ![a] = @ + x]
  <2>1. nBalance[Rail] - x \in Nat /\ nBalance[a] + x \in Nat
    BY <1>2, <1>4
  <2>2. nBalance' = [[nBalance EXCEPT ![Rail] = nBalance[Rail] - x] EXCEPT ![a] = nBalance[a] + x]
    BY <1>1, <1>4
  <2> QED
    BY <1>1, <1>4, <2>1, <2>2
<1> QED
  BY <1>3, <1>4

\* Steps that store no lock and bring back no payout leave what is owed.
LEMMA OwedStays ==
  ASSUME NEW k \in Keys, nLocks' = nLocks,
         \A r \in receipts : r.kind = "callback" => r \in receipts',
         \A r \in receipts' : r.kind = "callback" /\ r.key = k /\ r.ok => r \in receipts
  PROVE  Kept(k)' = Kept(k)
<1>1. Owes(k)' <=> Owes(k)
  BY DEF Owes
<1> QED
  BY <1>1 DEF Kept

\* ft_transfer_call brings the money it announces; a direct call neither.
LEMMA CallBooks ==
  ASSUME NearInv, NearInv', NearBooks,
         NEW sender \in Accounts, NEW amount \in 1..MaxAmount, NEW msg \in Messages,
         \/ FtTransferCall(sender, amount, msg)
         \/ CallOnTransferDirectly(sender, amount, msg)
  PROVE  NearBooks'
<1>1. PICK p \in {UsdcToken, sender} :
        /\ [kind |-> "onTransfer", predecessor |-> p, sender |-> sender,
            amount |-> amount, msg |-> msg] \notin receipts
        /\ receipts' = receipts \cup
             {[kind |-> "onTransfer", predecessor |-> p, sender |-> sender,
               amount |-> amount, msg |-> msg]}
        /\ \/ p = UsdcToken /\ FtTransferCall(sender, amount, msg)
           \/ p = sender /\ CallOnTransferDirectly(sender, amount, msg)
  BY DEF FtTransferCall, CallOnTransferDirectly, Schedule
<1> DEFINE r == [kind |-> "onTransfer", predecessor |-> p, sender |-> sender,
                 amount |-> amount, msg |-> msg]
<1>2. amount \in Nat /\ r \in Receipts /\ r.kind = "onTransfer"
  BY NumbersAssumption DEF Receipts, AccountIds, NearHolders
<1>3. Undecided(r) = IF p = UsdcToken THEN amount ELSE 0
  BY DEF Undecided
<1>4. sender # UsdcToken
  BY NearAssumption DEF NearHolders
<1>5. nLocks' = nLocks /\ failures' = failures
  BY DEF FtTransferCall, CallOnTransferDirectly
<1>6. r \notin receipts /\ receipts' = receipts \cup {r}
  BY <1>1
<1> HIDE DEF r
<1>7. /\ IsFiniteSet(receipts') /\ receipts' \subseteq Receipts
      /\ HeldBy(receipts') = HeldBy(receipts) + Undecided(r)
  BY <1>2, <1>6, BooksSay, HeldWith
<1>8. KeptSum' = KeptSum
  <2>1. \A k \in Keys : Kept(k)' = Kept(k)
    BY <1>2, <1>5, <1>6, OwedStays
  <2> QED
    BY <2>1, KeptSumStays
<1>9. /\ nBalance' \in [NearHolders -> Nat]
      /\ nBalance'[Rail] = nBalance[Rail] + Undecided(r)
  <2>1. CASE p = UsdcToken /\ FtTransferCall(sender, amount, msg)
    <3>1. /\ amount <= nBalance[sender]
          /\ nBalance' = [nBalance EXCEPT ![sender] = @ - amount, ![Rail] = @ + amount]
      BY <2>1 DEF FtTransferCall
    <3>2. nBalance[Rail] \in Nat /\ nBalance \in [NearHolders -> Nat] /\ Rail \in NearHolders
          /\ sender \in NearHolders /\ sender # Rail
      BY BooksSay, AccountsAssumption DEF NearHolders
    <3>3. nBalance'[Rail] = nBalance[Rail] + amount
      BY <3>1, <3>2
    <3> QED
      BY <1>2, <1>3, <2>1, <3>1, <3>2, <3>3, BalanceMoves
  <2>2. CASE p = sender /\ CallOnTransferDirectly(sender, amount, msg)
    <3>1. nBalance' = nBalance /\ nBalance[Rail] \in Nat /\ nBalance \in [NearHolders -> Nat]
      BY <2>2, BooksSay DEF CallOnTransferDirectly
    <3> QED
      BY <1>3, <1>4, <2>2, <3>1
  <2> QED
    BY <1>1, <2>1, <2>2
<1>10. nBalance'[Rail] = KeptSum' + HeldBy(receipts')
  <2>1. Undecided(r) \in Nat
    BY <1>2, UndecidedType
  <2> QED
    BY <1>7, <1>8, <1>9, <2>1, BooksSay
<1>11. \A k \in Keys : Exists(k)' => nLocks'[k].payee \in Accounts
  BY <1>5 DEF NearBooks, Exists
<1>12. failures' \in 0..MaxFailures
  BY <1>5 DEF NearBooks, NearTypeOK
<1> QED
  BY <1>7, <1>9, <1>10, <1>11, <1>12, BooksNext

\* ft_resolve_transfer gives back what the receipt carried: it is there.
LEMMA ResolveBooks ==
  ASSUME NearInv, NearInv', NearBooks, NEW r \in receipts, FtResolveTransfer(r)
  PROVE  NearBooks'
<1>1. /\ r.kind = "resolve" /\ receipts' = receipts \ {r}
      /\ nBalance' = [nBalance EXCEPT ![Rail] = @ - r.unused, ![r.sender] = @ + r.unused]
      /\ nLocks' = nLocks /\ failures' = failures
  BY DEF FtResolveTransfer
<1>2. r \in Receipts /\ r.sender \in Accounts /\ r.unused \in Nat
  BY <1>1, BooksSay DEF Receipts
<1>3. Undecided(r) = r.unused
  BY <1>1 DEF Undecided
<1>4. /\ IsFiniteSet(receipts') /\ receipts' \subseteq Receipts
      /\ HeldBy(receipts) = HeldBy(receipts') + r.unused /\ HeldBy(receipts') \in Nat
  BY <1>1, <1>3, BooksSay, HeldWithout
<1>5. KeptSum' = KeptSum
  <2>1. \A k \in Keys : Kept(k)' = Kept(k)
    BY <1>1, OwedStays
  <2> QED
    BY <2>1, KeptSumStays
<1>6. r.unused <= nBalance[Rail]
  BY <1>2, <1>4, BooksSay
<1>7. r.sender \in NearHolders /\ Rail \in NearHolders /\ r.sender # Rail
  BY <1>2, AccountsAssumption DEF NearHolders
<1>8. nBalance'[Rail] = nBalance[Rail] - r.unused
  BY <1>1, <1>7, BooksSay
<1>9. nBalance' \in [NearHolders -> Nat]
  BY <1>1, <1>2, <1>6, BooksSay, BalanceMoves
<1>10. nBalance'[Rail] = KeptSum' + HeldBy(receipts')
  BY <1>2, <1>4, <1>5, <1>8, BooksSay
<1>11. \A k \in Keys : Exists(k)' => nLocks'[k].payee \in Accounts
  BY <1>1 DEF NearBooks, Exists
<1>12. failures' \in 0..MaxFailures
  BY <1>1 DEF NearBooks, NearTypeOK
<1> QED
  BY <1>4, <1>9, <1>10, <1>11, <1>12, BooksNext

\* A payout's receipts carry no money of their own.
LEMMA PayoutCarriesNothing ==
  ASSUME NearBooks, NEW s \in Receipts, Payout(s), s \notin receipts,
         \/ receipts' = receipts \cup {s}
         \/ \E r \in receipts : Payout(r) /\ receipts' = (receipts \ {r}) \cup {s}
  PROVE  /\ IsFiniteSet(receipts') /\ receipts' \subseteq Receipts
         /\ HeldBy(receipts') = HeldBy(receipts)
<1>1. \A r \in Receipts : Payout(r) => Undecided(r) = 0
  BY DEF Payout, Undecided
<1>2. /\ receipts \subseteq Receipts /\ IsFiniteSet(receipts) /\ HeldBy(receipts) \in Nat
  BY BooksSay
<1>3. CASE receipts' = receipts \cup {s}
  BY <1>1, <1>2, <1>3, HeldWith
<1>4. ASSUME NEW r \in receipts, Payout(r), receipts' = (receipts \ {r}) \cup {s}
      PROVE  /\ IsFiniteSet(receipts') /\ receipts' \subseteq Receipts
             /\ HeldBy(receipts') = HeldBy(receipts)
  <2>1. /\ IsFiniteSet(receipts \ {r}) /\ HeldBy(receipts \ {r}) \in Nat
        /\ HeldBy(receipts) = HeldBy(receipts \ {r}) + Undecided(r)
    BY <1>2, HeldWithout
  <2>2. receipts \ {r} \subseteq Receipts /\ s \notin receipts \ {r}
    BY <1>2
  <2>3. /\ IsFiniteSet((receipts \ {r}) \cup {s})
        /\ HeldBy((receipts \ {r}) \cup {s}) = HeldBy(receipts \ {r}) + Undecided(s)
    BY <2>1, <2>2, HeldWith
  <2>4. Undecided(r) = 0 /\ Undecided(s) = 0
    BY <1>1, <1>2, <1>4
  <2> QED
    BY <1>2, <1>4, <2>1, <2>3, <2>4
<1> QED
  BY <1>3, <1>4

\* ft_transfer: the lock's money leaves with the callback that says so.
LEMMA PaidBooks ==
  ASSUME NearInv, NearInv', NearBooks, NEW r \in receipts, FtTransfer(r)
  PROVE  NearBooks'
<1> DEFINE k == r.key
           s == [kind |-> "callback", key |-> r.key, exit |-> r.exit, ok |-> TRUE]
           to == PayTo(k, r.exit)
<1>1. /\ r.kind = "transfer" /\ nLocks[k].amount <= nBalance[Rail]
      /\ nBalance' = [nBalance EXCEPT ![Rail] = @ - nLocks[k].amount,
                                      ![to] = @ + nLocks[k].amount]
      /\ s \notin receipts /\ receipts' = (receipts \ {r}) \cup {s}
      /\ nLocks' = nLocks /\ failures' = failures
  BY DEF FtTransfer, Schedule
<1>2. /\ k \in Keys /\ Payout(r) /\ Exists(k)
      /\ nLocks[k].status \in {"Claiming", "Refunding"}
  BY <1>1 DEF NearInv, PayoutMatches, Payout
<1>3. nLocks[k] \in NearLock /\ nLocks[k].amount \in Nat
  BY <1>2, ExistsIsLock DEF NearInv, NearLock
<1>4. to \in Accounts /\ to # Rail /\ to \in NearHolders /\ Rail \in NearHolders
  BY <1>2, AccountsAssumption DEF PayTo, NearBooks, Keys, NearHolders
<1>5. s \in Receipts /\ Payout(s) /\ s.kind = "callback" /\ s.key = k /\ s.ok = TRUE
  BY <1>1, BooksSay DEF Receipts, Payout
<1> HIDE DEF k, s, to
<1>6. /\ IsFiniteSet(receipts') /\ receipts' \subseteq Receipts
      /\ HeldBy(receipts') = HeldBy(receipts)
  BY <1>1, <1>2, <1>5, PayoutCarriesNothing
<1>7. Kept(k) = nLocks[k].amount
  <2>1. \A c \in receipts : ~(c.kind = "callback" /\ c.key = k)
    BY <1>1, <1>2 DEF NearInv, OnePayout, Payout, k
  <2> QED
    BY <1>2, <2>1 DEF Kept, Owes
<1>8. Kept(k)' = 0
  <2>1. s \in receipts'
    BY <1>1
  <2>2. ~Owes(k)'
    BY <1>5, <2>1 DEF Owes, k
  <2> QED
    BY <2>2 DEF Kept, k
<1>9. KeptSum' = KeptSum - nLocks[k].amount
  <2>1. \A j \in Keys \ {k} : Kept(j)' = Kept(j)
    BY <1>1, <1>5, OwedStays
  <2>2. KeptSum' = KeptSum - Kept(k) + 0
    BY <1>2, <1>8, <2>1, KeptSumChanges DEF NearInv
  <2> QED
    BY <1>3, <1>7, <2>2, BooksSay
<1>10. nBalance'[Rail] = nBalance[Rail] - nLocks[k].amount
  BY <1>1, <1>4, BooksSay
<1>11. nBalance' \in [NearHolders -> Nat]
  BY <1>1, <1>3, <1>4, BooksSay, BalanceMoves
<1>12. nBalance'[Rail] = KeptSum' + HeldBy(receipts')
  BY <1>3, <1>6, <1>9, <1>10, BooksSay
<1>13. \A j \in Keys : Exists(j)' => nLocks'[j].payee \in Accounts
  BY <1>1 DEF NearBooks, Exists
<1>14. failures' \in 0..MaxFailures
  BY <1>1 DEF NearBooks, NearTypeOK
<1> QED
  BY <1>6, <1>11, <1>12, <1>13, <1>14, BooksNext

\* A payout that fails moves nothing, and its lock is owed its money still.
LEMMA FailedBooks ==
  ASSUME NearInv, NearInv', NearBooks, NEW r \in receipts, FtTransferFails(r)
  PROVE  NearBooks'
<1> DEFINE s == [kind |-> "callback", key |-> r.key, exit |-> r.exit, ok |-> FALSE]
<1>1. /\ r.kind = "transfer" /\ Payout(r)
      /\ s \notin receipts /\ receipts' = (receipts \ {r}) \cup {s}
      /\ nLocks' = nLocks /\ nBalance' = nBalance
      /\ failures' = failures + 1 /\ failures < MaxFailures
  BY DEF FtTransferFails, Schedule, Payout
<1>2. s \in Receipts /\ Payout(s) /\ s.kind = "callback" /\ s.ok = FALSE
  BY <1>1, BooksSay DEF Receipts, Payout
<1> HIDE DEF s
<1>3. /\ IsFiniteSet(receipts') /\ receipts' \subseteq Receipts
      /\ HeldBy(receipts') = HeldBy(receipts)
  BY <1>1, <1>2, PayoutCarriesNothing
<1>4. KeptSum' = KeptSum
  <2>1. \A k \in Keys : Kept(k)' = Kept(k)
    BY <1>1, <1>2, OwedStays
  <2> QED
    BY <2>1, KeptSumStays
<1>5. nBalance'[Rail] = KeptSum' + HeldBy(receipts') /\ nBalance' \in [NearHolders -> Nat]
  BY <1>1, <1>3, <1>4, BooksSay
<1>6. \A j \in Keys : Exists(j)' => nLocks'[j].payee \in Accounts
  BY <1>1 DEF NearBooks, Exists
<1>7. failures' \in 0..MaxFailures
  BY <1>1, NearAssumption DEF NearBooks, NearTypeOK
<1> QED
  BY <1>3, <1>5, <1>6, <1>7, BooksNext

\* ft_on_transfer: the money carried becomes the lock's, or is to go back.
LEMMA OnTransferBooks ==
  ASSUME NearInv, NearInv', NearBooks, NEW r \in receipts, NEW covered \in BOOLEAN,
         FtOnTransfer(r, covered)
  PROVE  NearBooks'
<1>1. /\ r.kind = "onTransfer" /\ nBalance' = nBalance /\ failures' = failures
      /\ r \in Receipts /\ r.sender \in Accounts /\ r.amount \in Nat /\ r.msg \in LockMsg
  BY BooksSay, NearAssumption DEF FtOnTransfer, NearInv, OnTransferTyped
<1>2. /\ IsFiniteSet(receipts \ {r}) /\ receipts \ {r} \subseteq Receipts
      /\ HeldBy(receipts) = HeldBy(receipts \ {r}) + Undecided(r)
      /\ HeldBy(receipts \ {r}) \in Nat
  BY BooksSay, HeldWithout
<1>3. Undecided(r) = IF r.predecessor = UsdcToken THEN r.amount ELSE 0
  BY <1>1 DEF Undecided
<1>4. failures' \in 0..MaxFailures /\ nBalance' \in [NearHolders -> Nat]
  BY <1>1 DEF NearBooks, NearTypeOK
<1>5. CASE AcceptsTransfer(r) /\ covered
  <2> DEFINE k == <<r.sender, r.msg.hashLock>>
             lock == [payee |-> r.msg.payee, amount |-> r.amount,
                      claimByMs |-> r.msg.claimByMs, refundAfterMs |-> r.msg.refundAfterMs,
                      status |-> "Locked", revealed |-> FALSE]
  <2>1. k \in Keys /\ lock.status = "Locked" /\ lock.amount = r.amount
    BY <1>1 DEF Keys, LockMsg
  <2>2. lock.payee \in Accounts
    BY <1>1, <1>5 DEF AcceptsTransfer, LockMsg, AccountIds, NearHolders
  <2>3. /\ ~Exists(k) /\ nLocks' = [nLocks EXCEPT ![k] = lock] /\ receipts' = receipts \ {r}
        /\ r.predecessor = UsdcToken
    BY <1>5 DEF FtOnTransfer, AcceptsTransfer
  <2> HIDE DEF k, lock
  <2>4. nLocks'[k] = lock /\ \A j \in Keys \ {k} : nLocks'[j] = nLocks[j]
    BY <2>1, <2>3, BooksSay DEF LocksTyped
  <2>5. Kept(k) = 0
    BY <2>3 DEF Kept, Owes, Exists, NoNearLock
  <2>6. Kept(k)' = r.amount
    <3>1. \A c \in receipts' : ~(c.kind = "callback" /\ c.key = k)
      BY <2>3 DEF NearInv, PayoutMatches, Payout
    <3>2. Kept(k)' = lock.amount
      BY <2>1, <2>4, <3>1 DEF Kept, Owes, k
    <3> QED
      BY <2>1, <3>2
  <2>7. \A j \in Keys \ {k} : Kept(j)' = Kept(j)
    BY <1>1, <2>3, <2>4 DEF Kept, Owes
  <2>8. KeptSum' = KeptSum - 0 + r.amount
    BY <2>1, <2>5, <2>6, <2>7, KeptSumChanges DEF NearInv
  <2>9. nBalance'[Rail] = KeptSum' + HeldBy(receipts')
    BY <1>1, <1>2, <1>3, <2>3, <2>8, BooksSay
  <2>10. \A j \in Keys : Exists(j)' => nLocks'[j].payee \in Accounts
    BY <2>2, <2>4 DEF NearBooks, Exists
  <2> QED
    BY <1>2, <1>4, <2>3, <2>9, <2>10, BooksNext
<1>6. CASE ~(AcceptsTransfer(r) /\ covered)
  <2>1. nLocks' = nLocks
    BY <1>6 DEF FtOnTransfer
  <2>2. \A j \in Keys : Exists(j)' => nLocks'[j].payee \in Accounts
    BY <2>1 DEF NearBooks, Exists
  <2>3. CASE r.predecessor = UsdcToken /\ r.amount > 0
    <3> DEFINE s == [kind |-> "resolve", sender |-> r.sender, unused |-> r.amount]
    <3>1. s \notin receipts /\ receipts' = (receipts \ {r}) \cup {s}
      BY <1>6, <2>3 DEF FtOnTransfer, Schedule
    <3>2. s \in Receipts /\ s.kind = "resolve" /\ Undecided(s) = r.amount
      BY <1>1 DEF Receipts, Undecided
    <3> HIDE DEF s
    <3>3. /\ IsFiniteSet(receipts') /\ receipts' \subseteq Receipts
          /\ HeldBy(receipts') = HeldBy(receipts \ {r}) + r.amount
      BY <1>2, <3>1, <3>2, HeldWith
    <3>4. KeptSum' = KeptSum
      <4>1. \A j \in Keys : Kept(j)' = Kept(j)
        BY <1>1, <2>1, <3>1, <3>2, OwedStays
      <4> QED
        BY <4>1, KeptSumStays
    <3>5. nBalance'[Rail] = KeptSum' + HeldBy(receipts')
      BY <1>1, <1>2, <1>3, <2>3, <3>3, <3>4, BooksSay
    <3> QED
      BY <1>4, <2>2, <3>3, <3>5, BooksNext
  <2>4. CASE ~(r.predecessor = UsdcToken /\ r.amount > 0)
    <3>1. receipts' = receipts \ {r}
      BY <1>6, <2>4 DEF FtOnTransfer
    <3>2. Undecided(r) = 0
      BY <1>1, <1>3, <2>4
    <3>3. KeptSum' = KeptSum
      <4>1. \A j \in Keys : Kept(j)' = Kept(j)
        BY <1>1, <2>1, <3>1, OwedStays
      <4> QED
        BY <4>1, KeptSumStays
    <3>4. nBalance'[Rail] = KeptSum' + HeldBy(receipts')
      BY <1>1, <1>2, <3>1, <3>2, <3>3, BooksSay
    <3> QED
      BY <1>2, <1>4, <2>2, <3>1, <3>4, BooksNext
  <2> QED
    BY <2>3, <2>4
<1> QED
  BY <1>5, <1>6

\* claim and refund: the lock is owed its money until the payout has run.
LEMMA StartBooks ==
  ASSUME NearInv, NearInv', NearBooks, NEW k \in Keys, NEW lock \in NearLock,
         NEW exit \in {"Claim", "Refund"},
         Exists(k), nLocks[k].status = "Locked",
         nLocks' = [nLocks EXCEPT ![k] = lock],
         lock.status \in {"Claiming", "Refunding"},
         lock.amount = nLocks[k].amount, lock.payee = nLocks[k].payee,
         Schedule([kind |-> "transfer", key |-> k, exit |-> exit], {}),
         UNCHANGED <<nBalance, failures>>
  PROVE  NearBooks'
<1> DEFINE s == [kind |-> "transfer", key |-> k, exit |-> exit]
<1>1. s \notin receipts /\ receipts' = receipts \cup {s}
  BY DEF Schedule
<1>2. s \in Receipts /\ Payout(s) /\ s.kind = "transfer"
  BY DEF Receipts, Payout
<1> HIDE DEF s
<1>3. /\ IsFiniteSet(receipts') /\ receipts' \subseteq Receipts
      /\ HeldBy(receipts') = HeldBy(receipts)
  BY <1>1, <1>2, PayoutCarriesNothing
<1>4. nLocks'[k] = lock /\ \A j \in Keys \ {k} : nLocks'[j] = nLocks[j]
  BY BooksSay DEF LocksTyped
<1>5. \A j \in Keys \ {k} : Kept(j)' = Kept(j)
  BY <1>1, <1>2, <1>4 DEF Kept, Owes
<1>6. Kept(k)' = Kept(k)
  <2>1. \A c \in receipts : ~(c.kind = "callback" /\ c.key = k)
    BY DEF NearInv, PayoutMatches, Payout
  <2>2. \A c \in receipts' : ~(c.kind = "callback" /\ c.key = k)
    BY <1>1, <1>2, <2>1
  <2>3. Owes(k) /\ Owes(k)'
    BY <1>4, <2>1, <2>2 DEF Owes
  <2> QED
    BY <1>4, <2>3 DEF Kept
<1>7. KeptSum' = KeptSum
  BY <1>5, <1>6, KeptSumStays
<1>8. nBalance'[Rail] = KeptSum' + HeldBy(receipts')
  BY <1>3, <1>7, BooksSay
<1>9. \A j \in Keys : Exists(j)' => nLocks'[j].payee \in Accounts
  BY <1>4 DEF NearBooks, Exists
<1>10. failures' \in 0..MaxFailures /\ nBalance' \in [NearHolders -> Nat]
  BY DEF NearBooks, NearTypeOK
<1> QED
  BY <1>3, <1>8, <1>9, <1>10, BooksNext

\* claim.
LEMMA ClaimBooks ==
  ASSUME NearInv, NearInv', NearBooks, NEW k \in Keys, NEW preimage \in Preimages,
         NearClaim(k, preimage)
  PROVE  NearBooks'
<1> DEFINE lock == [[nLocks[k] EXCEPT !.status = "Claiming"] EXCEPT !.revealed = TRUE]
<1>1. /\ Exists(k) /\ nLocks[k] \in NearLock /\ nLocks[k].status = "Locked"
      /\ Schedule([kind |-> "transfer", key |-> k, exit |-> "Claim"], {})
      /\ UNCHANGED <<nBalance, failures>>
  BY ExistsIsLock DEF NearClaim, NearInv
<1>2. nLocks' = [nLocks EXCEPT ![k] = lock]
  BY DEF NearClaim, NearInv, LocksTyped
<1>3. /\ lock \in NearLock /\ lock.status = "Claiming"
      /\ lock.amount = nLocks[k].amount /\ lock.payee = nLocks[k].payee
  BY <1>1 DEF NearLock, LockStatus
<1> HIDE DEF lock
<1> QED
  BY <1>1, <1>2, <1>3, StartBooks

\* refund.
LEMMA RefundBooks ==
  ASSUME NearInv, NearInv', NearBooks, NEW k \in Keys, NearRefund(k)
  PROVE  NearBooks'
<1> DEFINE lock == [nLocks[k] EXCEPT !.status = "Refunding"]
<1>1. /\ Exists(k) /\ nLocks[k] \in NearLock /\ nLocks[k].status = "Locked"
      /\ Schedule([kind |-> "transfer", key |-> k, exit |-> "Refund"], {})
      /\ UNCHANGED <<nBalance, failures>>
  BY ExistsIsLock DEF NearRefund, NearInv
<1>2. nLocks' = [nLocks EXCEPT ![k] = lock]
  BY DEF NearRefund, NearInv, LocksTyped
<1>3. /\ lock \in NearLock /\ lock.status = "Refunding"
      /\ lock.amount = nLocks[k].amount /\ lock.payee = nLocks[k].payee
  BY <1>1 DEF NearLock, LockStatus
<1> HIDE DEF lock
<1> QED
  BY <1>1, <1>2, <1>3, StartBooks

\* on_transfer_complete: a lock paid is owed nothing already, one not paid is
\* owed its money again.
LEMMA CompleteBooks ==
  ASSUME NearInv, NearInv', NearBooks, NEW r \in receipts, OnTransferComplete(r)
  PROVE  NearBooks'
<1> DEFINE k == r.key
           lock == [nLocks[k] EXCEPT !.status =
                      IF ~r.ok THEN "Locked"
                      ELSE IF r.exit = "Claim" THEN "Claimed" ELSE "Refunded"]
<1>1. /\ r.kind = "callback" /\ Payout(r) /\ k \in Keys /\ Exists(k) /\ r.ok \in BOOLEAN
      /\ nLocks[k].status \in {"Claiming", "Refunding"}
  BY BooksSay DEF OnTransferComplete, NearInv, Payout, PayoutMatches, Receipts
<1>2. nLocks[k] \in NearLock
  BY <1>1, ExistsIsLock DEF NearInv
<1>3. /\ nLocks' = [nLocks EXCEPT ![k] = lock] /\ receipts' = receipts \ {r}
      /\ nBalance' = nBalance /\ failures' = failures
  BY <1>1 DEF OnTransferComplete, NearInv, LocksTyped
<1>4. /\ lock.status = (IF r.ok THEN lock.status ELSE "Locked")
      /\ r.ok => lock.status \in {"Claimed", "Refunded"}
      /\ lock.amount = nLocks[k].amount /\ lock.payee = nLocks[k].payee
  BY <1>2 DEF NearLock
<1>5. Undecided(r) = 0
  BY <1>1 DEF Undecided
<1> HIDE DEF k, lock
<1>6. /\ IsFiniteSet(receipts') /\ receipts' \subseteq Receipts
      /\ HeldBy(receipts') = HeldBy(receipts)
  BY <1>3, <1>5, BooksSay, HeldWithout
<1>7. nLocks'[k] = lock /\ \A j \in Keys \ {k} : nLocks'[j] = nLocks[j]
  BY <1>1, <1>3, BooksSay DEF LocksTyped
<1>8. \A c \in receipts : c.kind = "callback" /\ c.key = k => c = r
  BY <1>1 DEF NearInv, OnePayout, Payout, k
<1>9. \A j \in Keys \ {k} : Kept(j)' = Kept(j)
  BY <1>3, <1>7 DEF Kept, Owes, k
<1>10. Kept(k)' = Kept(k)
  <2>1. \A c \in receipts' : ~(c.kind = "callback" /\ c.key = k)
    BY <1>3, <1>8
  <2>2. r \in receipts /\ r.kind = "callback" /\ r.key = k
    BY <1>1 DEF k
  <2>3. CASE r.ok = TRUE
    <3>1. ~Owes(k)
      BY <2>2, <2>3 DEF Owes
    <3>2. nLocks'[k].status \notin {"Locked", "Claiming", "Refunding"}
      BY <1>4, <1>7, <2>3
    <3>3. ~Owes(k)'
      BY <3>2 DEF Owes, k
    <3> QED
      BY <3>1, <3>3 DEF Kept, k
  <2>4. CASE r.ok = FALSE
    <3>1. Owes(k)
      BY <1>1, <1>8, <2>4 DEF Owes
    <3>2. nLocks'[k].status = "Locked" /\ nLocks'[k].amount = nLocks[k].amount
      BY <1>4, <1>7, <2>4
    <3>3. Owes(k)'
      BY <2>1, <3>2 DEF Owes, k
    <3> QED
      BY <3>1, <3>2, <3>3 DEF Kept, k
  <2> QED
    BY <1>1, <2>3, <2>4
<1>11. KeptSum' = KeptSum
  BY <1>9, <1>10, KeptSumStays
<1>12. nBalance'[Rail] = KeptSum' + HeldBy(receipts')
  BY <1>3, <1>6, <1>11, BooksSay
<1>13. \A j \in Keys : Exists(j)' => nLocks'[j].payee \in Accounts
  BY <1>1, <1>4, <1>7 DEF NearBooks, Exists
<1>14. failures' \in 0..MaxFailures /\ nBalance' \in [NearHolders -> Nat]
  BY <1>3 DEF NearBooks, NearTypeOK
<1> QED
  BY <1>6, <1>12, <1>13, <1>14, BooksNext

\* NearBooks is inductive, on top of NearInv.
LEMMA NearBooksInductive ==
  /\ NearInit => NearBooks
  /\ NearInv /\ NearInv' /\ NearBooks /\ [NearNext]_nearVars => NearBooks'
<1>1. ASSUME NearInit PROVE NearBooks
  <2>1. NearTypeOK
    BY <1>1, NumbersAssumption, NearAssumption DEF NearInit, NearTypeOK, NearHolders, Receipts
  <2>2. nBalance[Rail] = 0 /\ receipts = {}
    BY <1>1, AccountsAssumption DEF NearInit, NearHolders
  <2>3. IsFiniteSet(receipts) /\ \A k \in Keys : ~Exists(k) /\ Kept(k) = 0
    BY <1>1, FS_EmptySet DEF NearInit, Exists, Kept, Owes, NoNearLock
  <2> DEFINE f == [k \in Keys |-> Kept(k)]
  <2>4. \A k \in Keys : f[k] = 0
    BY <2>3
  <2>5. SumFunctionOnSet(f, Keys) = 0
    <3> HIDE DEF f
    <3> QED
      BY <2>4, SumZero, KeysFinite
  <2> DEFINE g == [r \in receipts |-> Undecided(r)]
  <2>6. SumFunctionOnSet(g, receipts) = 0
    <3>1. \A r \in receipts : g[r] = 0
      BY <2>2
    <3> HIDE DEF g
    <3> QED
      BY <2>3, <3>1, SumZero
  <2> QED
    BY <2>1, <2>2, <2>3, <2>5, <2>6 DEF NearBooks, NearSolvent
<1>2. ASSUME NearInv, NearInv', NearBooks, nLocks' = nLocks, nBalance' = nBalance,
             receipts' = receipts, failures' = failures
      PROVE  NearBooks'
  <2>1. KeptSum' = KeptSum
    <3>1. \A k \in Keys : Kept(k)' = Kept(k)
      BY <1>2, OwedStays
    <3> QED
      BY <3>1, KeptSumStays
  <2>2. \A j \in Keys : Exists(j)' => nLocks'[j].payee \in Accounts
    BY <1>2 DEF NearBooks, Exists
  <2>3. failures' \in 0..MaxFailures
    BY <1>2 DEF NearBooks, NearTypeOK
  <2> QED
    BY <1>2, <2>1, <2>2, <2>3, BooksSay, BooksNext
<1>3. ASSUME NearInv, NearInv', NearBooks, NearNext PROVE NearBooks'
  <2>1. CASE NearBlock
    BY <1>2, <1>3, <2>1 DEF NearBlock
  <2> QED
    BY <1>3, <2>1, CallBooks, ResolveBooks, PaidBooks, FailedBooks, OnTransferBooks,
       CompleteBooks, ClaimBooks, RefundBooks DEF NearNext
<1> QED
  BY <1>1, <1>2, <1>3 DEF nearVars

\* NearInv and the books hold of every reachable state.
LEMMA BooksHold == NearSpec => [](NearInv /\ NearBooks)
<1>1. NearInv /\ [NearNext]_nearVars => NearInv'
  BY NearInvNext
<1> QED
  BY <1>1, NearInductive, NearBooksInductive, PTL DEF NearSpec

\* The state keeps its types: no transfer overdraws an account, and refused
\* money is there to be given back (contracts-near/htlc/src/lib.rs).
THEOREM NearTypeCorrect == NearSpec => []NearTypeOK
<1>1. NearBooks => NearTypeOK
  BY DEF NearBooks
<1> QED
  BY <1>1, BooksHold, PTL

\* The token holds for the contract exactly what its open locks and the
\* transfers not yet decided or given back are worth, in whatever order the
\* receipts run and however many payouts fail: no lock opens without its money
\* and none is paid twice (ft_on_transfer, claim, refund and
\* on_transfer_complete).
THEOREM NearContractSolvent == NearSpec => []NearSolvent
<1>1. NearBooks => NearSolvent
  BY DEF NearBooks
<1> QED
  BY <1>1, BooksHold, PTL

-----------------------------------------------------------------------------
(* The Solana program *)

\* An open escrow has its money in its own vault: what pay_out checks, and the
\* reason why neither a claim nor a refund can be refused for want of money.
Funded(k) == escrows[k].status = "Locked" => vaults[k] >= escrows[k].amount

\* The inductive invariant of the Solana program.
SolInv == SolTypeOK /\ \A k \in SolKeys : Funded(k)

-----------------------------------------------------------------------------
(* Lemmas *)

\* The clock is a number and does not go back; nothing but SolSecond moves it.
LEMMA SolClockAdvances ==
  ASSUME SolTypeOK, [SolNext]_solVars
  PROVE  SolNowMs \in Nat /\ SolNowMs' \in Nat /\ SolNowMs' >= SolNowMs
<1>1. sSeconds \in Nat /\ MsPerSecond \in Nat /\ MaxTimestamp \in Nat
  BY NumbersAssumption DEF SolTypeOK
<1>2. sSeconds' = sSeconds \/ sSeconds' = sSeconds + 1
  BY DEF SolNext, solVars, SolLock, SolClaim, SolRefund, Donate, Freeze, Thaw, SolSecond
<1>3. \A s, m \in Nat : s * m \in Nat /\ (s + 1) * m = s * m + m
  BY SMT
<1>4. QED
  BY <1>1, <1>2, <1>3 DEF SolNowMs

\* What the steps may do to one escrow, and when.
SolOpens(k) ==
  /\ escrows[k] = NoEscrow /\ escrows'[k] # NoEscrow
  /\ escrows'[k].status = "Locked"
  /\ SolNowMs < escrows'[k].refundAfterMs
  /\ SolNowMs' = SolNowMs

Settles(k) ==
  /\ escrows[k] # NoEscrow /\ escrows'[k] # NoEscrow
  /\ escrows[k].status = "Locked"
  /\ escrows'[k].refundAfterMs = escrows[k].refundAfterMs
  /\ \/ escrows'[k].status = "Claimed" /\ SolNowMs < escrows[k].refundAfterMs
     \/ escrows'[k].status = "Refunded" /\ SolNowMs >= escrows[k].refundAfterMs
  /\ SolNowMs' = SolNowMs

Stays(k) == escrows'[k] = escrows[k]

\* Every instruction opens one escrow or settles one, and leaves the others.
LEMMA OneEscrowMoves ==
  ASSUME SolInv, SolNext
  PROVE  /\ \A k \in SolKeys : SolOpens(k) \/ Settles(k) \/ Stays(k)
         /\ escrows' \in [SolKeys -> EscrowAccount \cup {NoEscrow}]
<1> USE DEF SolInv, SolTypeOK, SolKeys
<1>1. CASE \E o \in Orders, amount \in 0..MaxAmount :
             SolLock(o.key, o.payee, o.claimByMs, o.refundAfterMs, amount)
  <2>1. PICK o \in Orders, amount \in 0..MaxAmount :
           SolLock(o.key, o.payee, o.claimByMs, o.refundAfterMs, amount)
    BY <1>1
  <2> DEFINE new == [payee |-> o.payee, amount |-> amount, claimByMs |-> o.claimByMs,
                     refundAfterMs |-> o.refundAfterMs, status |-> "Locked", revealed |-> FALSE]
  <2>2. /\ o.key \in SolKeys /\ o.payee \in Accounts
        /\ o.claimByMs \in Nat /\ o.refundAfterMs \in Nat /\ amount \in Nat
    BY <2>1, SolAssumption, NumbersAssumption DEF SolLock
  <2>3. new \in EscrowAccount
    BY <2>2 DEF EscrowAccount
  <2>4. /\ escrows[o.key] = NoEscrow /\ escrows' = [escrows EXCEPT ![o.key] = new]
        /\ SolNowMs < new.refundAfterMs /\ SolNowMs' = SolNowMs
    BY <2>1 DEF SolLock, SolNowMs
  <2>5. new # NoEscrow /\ new.status = "Locked"
    BY DEF NoEscrow
  <2> HIDE DEF new
  <2>6. QED
    BY <2>2, <2>3, <2>4, <2>5 DEF SolOpens, Stays
<1>2. CASE \E j \in SolKeys : \E preimage \in Preimages : SolClaim(j, preimage)
  <2>1. PICK j \in SolKeys, preimage \in Preimages : SolClaim(j, preimage)
    BY <1>2
  <2> DEFINE new == [[escrows[j] EXCEPT !.status = "Claimed"] EXCEPT !.revealed = TRUE]
  <2>2. /\ escrows[j] \in EscrowAccount /\ escrows[j] # NoEscrow
        /\ escrows[j].status = "Locked" /\ SolNowMs < escrows[j].refundAfterMs
        /\ SolNowMs' = SolNowMs
        /\ escrows' = [[escrows EXCEPT ![j].status = "Claimed"] EXCEPT ![j].revealed = TRUE]
    BY <2>1 DEF SolClaim, SolNowMs
  <2>3. escrows' = [escrows EXCEPT ![j] = new]
    BY <2>2
  <2>4. /\ new \in EscrowAccount /\ new.status = "Claimed"
        /\ new.refundAfterMs = escrows[j].refundAfterMs
    BY <2>2 DEF EscrowAccount
  <2>5. new # NoEscrow
    BY <2>4 DEF NoEscrow
  <2> HIDE DEF new
  <2>6. QED
    BY <2>2, <2>3, <2>4, <2>5, ZenonT(60) DEF Settles, Stays
<1>3. CASE \E j \in SolKeys : SolRefund(j)
  <2>1. PICK j \in SolKeys : SolRefund(j)
    BY <1>3
  <2> DEFINE new == [escrows[j] EXCEPT !.status = "Refunded"]
  <2>2. /\ escrows[j] \in EscrowAccount /\ escrows[j] # NoEscrow
        /\ escrows[j].status = "Locked" /\ SolNowMs >= escrows[j].refundAfterMs
        /\ SolNowMs' = SolNowMs
        /\ escrows' = [escrows EXCEPT ![j] = new]
    BY <2>1 DEF SolRefund, SolNowMs
  <2>4. /\ new \in EscrowAccount /\ new.status = "Refunded"
        /\ new.refundAfterMs = escrows[j].refundAfterMs
    BY <2>2 DEF EscrowAccount
  <2>5. new # NoEscrow
    BY <2>4 DEF NoEscrow
  <2> HIDE DEF new
  <2>6. QED
    BY <2>2, <2>4, <2>5 DEF Settles, Stays
<1>4. CASE \/ \E j \in SolKeys, a \in Accounts : Donate(a, j)
           \/ \E a \in Freezable : Freeze(a) \/ Thaw(a)
           \/ SolSecond
  <2>1. escrows' = escrows
    BY <1>4 DEF Donate, Freeze, Thaw, SolSecond
  <2>2. QED
    BY <2>1 DEF Stays
<1>5. QED
  BY <1>1, <1>2, <1>3, <1>4 DEF SolNext

\* The money: balances stay numbers, and every open escrow stays funded.
LEMMA MoneyStays ==
  ASSUME SolInv, SolNext
  PROVE  /\ vaults' \in [SolKeys -> Nat] /\ sTokens' \in [Accounts -> Nat]
         /\ \A k \in SolKeys : Funded(k)'
<1> USE DEF SolInv, SolTypeOK, SolKeys, Funded
<1>1. CASE \E o \in Orders, amount \in 0..MaxAmount :
             SolLock(o.key, o.payee, o.claimByMs, o.refundAfterMs, amount)
  <2>1. PICK o \in Orders, amount \in 0..MaxAmount :
           SolLock(o.key, o.payee, o.claimByMs, o.refundAfterMs, amount)
    BY <1>1
  <2>2. o.key \in SolKeys /\ o.key[1] \in Accounts /\ amount \in Nat
    BY SolAssumption, NumbersAssumption
  <2>3. /\ vaults' = [vaults EXCEPT ![o.key] = amount]
        /\ sTokens' = [sTokens EXCEPT ![o.key[1]] = @ - amount]
        /\ amount <= sTokens[o.key[1]]
        /\ escrows'[o.key].amount = amount
        /\ \A k \in SolKeys \ {o.key} : escrows'[k] = escrows[k]
    BY <2>1, <2>2 DEF SolLock
  <2>4. QED
    BY <2>2, <2>3
<1>2. ASSUME NEW j \in SolKeys, NEW to \in Accounts, PayOut(j, to),
             escrows'[j].status # "Locked",
             \A k \in SolKeys \ {j} : escrows'[k] = escrows[k]
      PROVE  /\ vaults' \in [SolKeys -> Nat] /\ sTokens' \in [Accounts -> Nat]
             /\ \A k \in SolKeys : Funded(k)'
  BY <1>2 DEF PayOut
<1>3. CASE \E j \in SolKeys : \E preimage \in Preimages : SolClaim(j, preimage)
  <2>1. PICK j \in SolKeys, preimage \in Preimages : SolClaim(j, preimage)
    BY <1>3
  <2>2. escrows[j] \in EscrowAccount /\ escrows[j].payee \in Accounts
    BY <2>1 DEF SolClaim, EscrowAccount
  <2>3. \A k \in SolKeys \ {j} : escrows'[k] = escrows[k]
    BY <2>1 DEF SolClaim
  <2>4. escrows'[j].status = "Claimed"
    BY <2>1, <2>2 DEF SolClaim, EscrowAccount
  <2>5. QED
    BY <1>2, <2>1, <2>2, <2>3, <2>4 DEF SolClaim
<1>4. CASE \E j \in SolKeys : SolRefund(j)
  <2>1. PICK j \in SolKeys : SolRefund(j)
    BY <1>4
  <2>2. escrows[j] \in EscrowAccount /\ j[1] \in Accounts
    BY <2>1 DEF SolRefund
  <2>3. \A k \in SolKeys \ {j} : escrows'[k] = escrows[k]
    BY <2>1 DEF SolRefund
  <2>4. escrows'[j].status = "Refunded"
    BY <2>1, <2>2 DEF SolRefund, EscrowAccount
  <2>5. QED
    BY <1>2, <2>1, <2>2, <2>3, <2>4 DEF SolRefund
<1>5. CASE \E j \in SolKeys, a \in Accounts : Donate(a, j)
  <2>1. PICK j \in SolKeys, a \in Accounts : Donate(a, j)
    BY <1>5
  <2>2. \A k \in SolKeys : escrows[k].status = "Locked" => escrows[k].amount \in Nat
    BY DEF EscrowAccount, NoEscrow
  <2>3. QED
    BY <2>1, <2>2 DEF Donate
<1>6. CASE (\E a \in Freezable : Freeze(a) \/ Thaw(a)) \/ SolSecond
  BY <1>6 DEF Freeze, Thaw, SolSecond
<1>7. QED
  BY <1>1, <1>3, <1>4, <1>5, <1>6 DEF SolNext

\* SolInv holds at first, and every instruction keeps it.
LEMMA SolInductive ==
  /\ SolInit => SolInv
  /\ SolInv /\ [SolNext]_solVars => SolInv'
<1>1. SolInit => SolInv
  BY NumbersAssumption DEF SolInit, SolInv, SolTypeOK, Funded, NoEscrow
<1>2. ASSUME SolInv, SolNext PROVE SolInv'
  <2>1. escrows' \in [SolKeys -> EscrowAccount \cup {NoEscrow}]
    BY <1>2, OneEscrowMoves
  <2>2. usable' \subseteq Accounts
    BY <1>2, SolAssumption
    DEF SolInv, SolTypeOK, SolNext, SolLock, SolClaim, SolRefund, Donate, Freeze, Thaw, SolSecond
  <2>3. sSeconds' = sSeconds \/ (sSeconds < MaxTimestamp /\ sSeconds' = sSeconds + 1)
    BY <1>2 DEF SolNext, SolLock, SolClaim, SolRefund, Donate, Freeze, Thaw, SolSecond
  <2>4. sSeconds' \in 0..MaxTimestamp
    BY <1>2, <2>3, NumbersAssumption DEF SolInv, SolTypeOK
  <2>5. QED
    BY <1>2, <2>1, <2>2, <2>4, MoneyStays DEF SolInv, SolTypeOK
<1>3. ASSUME SolInv, UNCHANGED solVars PROVE SolInv'
  BY <1>3 DEF SolInv, SolTypeOK, Funded, solVars
<1>4. QED
  BY <1>1, <1>2, <1>3

-----------------------------------------------------------------------------
(* Refinement *)

\* What Htlc sees of an escrow in each of its states.
LEMMA WhatHtlcSees ==
  ASSUME SolInv, NEW k \in SolKeys
  PROVE  /\ escrows[k] = NoEscrow <=> SolStatus(k) = "none"
         /\ escrows[k] # NoEscrow =>
              /\ escrows[k].status = "Locked" => SolStatus(k) = "locked"
              /\ escrows[k].status = "Claimed" => SolStatus(k) = "claimed"
              /\ escrows[k].status = "Refunded" => SolStatus(k) = "refunded"
         /\ SolRefundOpen(k) \in BOOLEAN
         /\ SolRefundOpen(k) <=> escrows[k] # NoEscrow /\ SolNowMs >= escrows[k].refundAfterMs
<1>1. escrows[k] # NoEscrow => escrows[k].status \in {"Locked", "Claimed", "Refunded"}
  BY DEF SolInv, SolTypeOK, EscrowAccount
<1>2. QED
  BY <1>1 DEF SolStatus, SolRefundOpen, NoEscrow

\* The same after a step.
LEMMA WhatHtlcSeesNext ==
  ASSUME SolInv', NEW k \in SolKeys
  PROVE  /\ escrows'[k] = NoEscrow <=> SolStatus(k)' = "none"
         /\ escrows'[k] # NoEscrow =>
              /\ escrows'[k].status = "Locked" => SolStatus(k)' = "locked"
              /\ escrows'[k].status = "Claimed" => SolStatus(k)' = "claimed"
              /\ escrows'[k].status = "Refunded" => SolStatus(k)' = "refunded"
         /\ SolRefundOpen(k)' \in BOOLEAN
         /\ SolRefundOpen(k)' <=> escrows'[k] # NoEscrow /\ SolNowMs' >= escrows'[k].refundAfterMs
<1>1. escrows'[k] # NoEscrow => escrows'[k].status \in {"Locked", "Claimed", "Refunded"}
  BY DEF SolInv, SolTypeOK, EscrowAccount
<1>2. QED
  BY <1>1 DEF SolStatus, SolRefundOpen, NoEscrow

\* An instruction is a step of Htlc for every escrow, or none.
LEMMA SolEveryStepIsOfHtlc ==
  ASSUME SolInv, SolInv', [SolNext]_solVars, NEW k \in SolKeys
  PROVE  [SolEscrow(k)!Next]_(SolEscrow(k)!vars)
<1>1. SolOpens(k) \/ Settles(k) \/ Stays(k)
  BY OneEscrowMoves DEF solVars, Stays
<1>2. SolNowMs \in Nat /\ SolNowMs' \in Nat /\ SolNowMs' >= SolNowMs
  BY SolClockAdvances DEF SolInv
<1>3. /\ escrows[k] # NoEscrow => escrows[k].refundAfterMs \in Nat
      /\ escrows'[k] # NoEscrow => escrows'[k].refundAfterMs \in Nat
  BY DEF SolInv, SolTypeOK, EscrowAccount
<1>4. CASE SolOpens(k)
  <2>1. SolStatus(k) = "none" /\ SolStatus(k)' = "locked"
    BY <1>4, WhatHtlcSees, WhatHtlcSeesNext DEF SolOpens
  <2>2. ~ (SolNowMs' >= escrows'[k].refundAfterMs)
    BY <1>2, <1>3, <1>4 DEF SolOpens
  <2>3. SolRefundOpen(k)' = FALSE
    BY <2>2, WhatHtlcSeesNext
  <2>4. SolEscrow(k)!Lock
    BY <2>1, <2>3 DEF SolEscrow!Lock
  <2>5. QED
    BY <2>4 DEF SolEscrow!Next
<1>5. CASE Settles(k)
  <2>1. SolStatus(k) = "locked"
    BY <1>5, WhatHtlcSees DEF Settles
  <2>2. (SolNowMs' >= escrows'[k].refundAfterMs) <=> (SolNowMs >= escrows[k].refundAfterMs)
    BY <1>5 DEF Settles
  <2>3. SolRefundOpen(k)' = SolRefundOpen(k)
    BY <1>5, <2>2, WhatHtlcSees, WhatHtlcSeesNext DEF Settles
  <2>4. CASE escrows'[k].status = "Claimed" /\ SolNowMs < escrows[k].refundAfterMs
    <3>1. ~ (SolNowMs >= escrows[k].refundAfterMs)
      BY <1>2, <1>3, <1>5, <2>4 DEF Settles
    <3>2. SolRefundOpen(k) = FALSE /\ SolStatus(k)' = "claimed"
      BY <1>5, <2>4, <3>1, WhatHtlcSees, WhatHtlcSeesNext DEF Settles
    <3>3. SolEscrow(k)!Claim
      BY <2>1, <2>3, <3>2 DEF SolEscrow!Claim
    <3>4. QED
      BY <3>3 DEF SolEscrow!Next
  <2>5. CASE escrows'[k].status = "Refunded" /\ SolNowMs >= escrows[k].refundAfterMs
    <3>1. SolRefundOpen(k) = TRUE /\ SolStatus(k)' = "refunded"
      BY <1>5, <2>5, WhatHtlcSees, WhatHtlcSeesNext DEF Settles
    <3>2. SolEscrow(k)!Refund
      BY <2>1, <2>3, <3>1 DEF SolEscrow!Refund
    <3>3. QED
      BY <3>2 DEF SolEscrow!Next
  <2>6. QED
    BY <1>5, <2>4, <2>5 DEF Settles
<1>6. CASE Stays(k)
  <2>1. SolStatus(k)' = SolStatus(k)
    BY <1>6 DEF Stays, SolStatus, NoEscrow
  <2>2. CASE SolRefundOpen(k)' = SolRefundOpen(k)
    BY <2>1, <2>2 DEF SolEscrow!vars
  <2>3. CASE SolRefundOpen(k)' # SolRefundOpen(k)
    <3>1. escrows[k] # NoEscrow /\ SolRefundOpen(k)' = TRUE
      BY <1>2, <1>3, <1>6, <2>3, WhatHtlcSees, WhatHtlcSeesNext DEF Stays
    <3>2. SolEscrow(k)!RefundTimeComes
      BY <2>1, <3>1, WhatHtlcSees DEF SolEscrow!RefundTimeComes
    <3>3. QED
      BY <3>2 DEF SolEscrow!Next
  <2>4. QED
    BY <2>2, <2>3
<1>7. QED
  BY <1>1, <1>4, <1>5, <1>6

\* Every escrow of the Solana program keeps the promise of Htlc, and an open
\* one has its money in its own vault (process_instruction: lock, claim,
\* refund and pay_out), for all constants.
THEOREM SolProgramIsHtlc == SolSpec => SolImplementsHtlc
<1>1. ASSUME SolInit, NEW k \in SolKeys PROVE SolEscrow(k)!Init
  <2>1. escrows[k] = NoEscrow
    BY <1>1 DEF SolInit
  <2>2. SolStatus(k) = "none" /\ SolRefundOpen(k) = FALSE
    BY <1>1, <2>1, SolInductive, WhatHtlcSees
  <2>3. QED
    BY <2>2 DEF SolEscrow!Init
<1>2. SolInit => \A k \in SolKeys : SolEscrow(k)!Init
  BY <1>1
<1>3. ASSUME SolInv, SolInv', [SolNext]_solVars
      PROVE  \A k \in SolKeys :
               /\ [SolEscrow(k)!Next]_(SolEscrow(k)!vars)
               /\ escrows'[k].status = "Locked" => vaults'[k] >= escrows'[k].amount
  BY <1>3, SolEveryStepIsOfHtlc DEF SolInv, Funded
<1>4. QED
  BY <1>2, <1>3, SolInductive, PTL DEF SolSpec, SolImplementsHtlc

\* Statuses, amounts, vaults and the clock of the Solana program keep their
\* types, a vault's balance never going below zero (pay_out).
THEOREM SolTypeCorrect == SolSpec => []SolTypeOK
BY SolInductive, PTL DEF SolSpec, SolInv

-----------------------------------------------------------------------------
(* The three together *)

\* Each contract alone behaves as its own specification says, whichever of the
\* three a behaviour is of.
LEMMA EachAlone == AllSpec => Spec /\ NearSpec /\ SolSpec
<1>1. AllInit => Init /\ NearInit /\ SolInit
  BY DEF AllInit
<1>2. [AllNext]_AllVars => [Next]_vars /\ [NearNext]_nearVars /\ [SolNext]_solVars
  BY DEF AllNext, AllVars
<1> QED
  BY <1>1, <1>2, PTL DEF AllSpec, Spec, NearSpec, SolSpec

\* The state of all three contracts keeps its type, so that no balance, vault
\* or deposit ever goes below zero (the checked arithmetic of the contracts).
THEOREM AllTypesCorrect == AllSpec => []AllTypeOK
<1>1. TypeOK /\ NearTypeOK /\ SolTypeOK => AllTypeOK
  BY DEF AllTypeOK
<1> QED
  BY <1>1, EachAlone, EvmTypeCorrect, NearTypeCorrect, SolTypeCorrect, PTL
=============================================================================
