------------------------------ MODULE SolHtlc ------------------------------
(***************************************************************************)
(* The Solana escrow program (contracts-sol/htlc/src/lib.rs).  An          *)
(* instruction runs whole or not at all, so every instruction is one       *)
(* action; what is hard is the order of the instructions of several        *)
(* accounts, the clock in whole seconds against deadlines in ms, vaults    *)
(* that strangers can pay into, and token accounts that the mint freezes.  *)
(* Checks of account lists, owners, layouts and derived addresses are the  *)
(* keys of these functions: an escrow is the one of its payer and hash     *)
(* lock, and its vault is its own.                                         *)
(***************************************************************************)
EXTENDS EscrowBase

CONSTANTS
  ProgramAccounts,   \* payees nobody can sign for
  Freezable,         \* accounts that the mint may freeze
  Orders             \* the locks that payers ask for

VARIABLES
  escrows,     \* the escrow accounts, by payer and hash lock
  vaults,      \* the balance of every escrow's vault
  sTokens,     \* the balance of every account's token account
  usable,      \* accounts whose token account is initialised and not frozen
  sSeconds     \* Clock.unix_timestamp

solVars == <<escrows, vaults, sTokens, usable, sSeconds>>

SolKeys == Accounts \X HashLocks

EscrowAccount == [payee : Accounts, amount : Nat, claimByMs : Nat,
                  refundAfterMs : Nat, status : {"Locked", "Claimed", "Refunded"},
                  revealed : BOOLEAN]

ASSUME SolAssumption ==
  /\ Orders \subseteq [key : SolKeys, payee : Accounts \cup ProgramAccounts,
                      claimByMs : Nat, refundAfterMs : Nat]
  /\ Freezable \subseteq Accounts

\* A derived address that is still owned by the system program.
NoEscrow == [status |-> "None"]

SolInit ==
  /\ escrows = [k \in SolKeys |-> NoEscrow]
  /\ vaults = [k \in SolKeys |-> 0]
  /\ sTokens = [a \in Accounts |-> Supply]
  /\ usable = Accounts
  /\ sSeconds = 0

SolNowMs == sSeconds * MsPerSecond

\* Lock: create_pda fails for an escrow that exists.
SolLock(k, payee, claimByMs, refundAfterMs, amount) ==
  /\ amount # 0
  /\ claimByMs < refundAfterMs
  /\ SolNowMs < refundAfterMs
  /\ payee \notin ProgramAccounts
  /\ k[1] \in usable
  /\ amount <= sTokens[k[1]]
  /\ escrows[k] = NoEscrow
  /\ escrows' = [escrows EXCEPT ![k] =
       [payee |-> payee, amount |-> amount, claimByMs |-> claimByMs,
        refundAfterMs |-> refundAfterMs, status |-> "Locked", revealed |-> FALSE]]
  /\ vaults' = [vaults EXCEPT ![k] = amount]
  /\ sTokens' = [sTokens EXCEPT ![k[1]] = @ - amount]
  /\ UNCHANGED <<usable, sSeconds>>

\* pay_out: the whole vault, donations included, and never less than the lock.
PayOut(k, to) ==
  /\ vaults[k] >= escrows[k].amount
  /\ sTokens' = [sTokens EXCEPT ![to] = @ + vaults[k]]
  /\ vaults' = [vaults EXCEPT ![k] = 0]

\* Mutants: claim compares the clock in whole seconds the other way round at
\* the boundary; pay_out moves the amount of the lock to the payer twice.
SolClaimAtBoundary(k, preimage) ==
  /\ escrows[k] # NoEscrow
  /\ escrows[k].status = "Locked"
  /\ SolNowMs <= escrows[k].refundAfterMs
  /\ Sha256[preimage] = k[2]
  /\ escrows[k].payee \in usable
  /\ escrows' = [escrows EXCEPT ![k].status = "Claimed", ![k].revealed = TRUE]
  /\ PayOut(k, escrows[k].payee)
  /\ UNCHANGED <<usable, sSeconds>>

\* Claim: permissionless, so no signer is a parameter.
SolClaim(k, preimage) ==
  /\ escrows[k] # NoEscrow
  /\ escrows[k].status = "Locked"
  /\ SolNowMs < escrows[k].refundAfterMs
  /\ Sha256[preimage] = k[2]
  /\ escrows[k].payee \in usable
  /\ escrows' = [escrows EXCEPT ![k].status = "Claimed", ![k].revealed = TRUE]
  /\ PayOut(k, escrows[k].payee)
  /\ UNCHANGED <<usable, sSeconds>>

\* Refund, signed by the payer k[1].
SolRefund(k) ==
  /\ escrows[k] # NoEscrow
  /\ escrows[k].status = "Locked"
  /\ SolNowMs >= escrows[k].refundAfterMs
  /\ k[1] \in usable
  /\ escrows' = [escrows EXCEPT ![k].status = "Refunded"]
  /\ PayOut(k, k[1])
  /\ UNCHANGED <<usable, sSeconds>>

\* A stranger sends tokens to an existing vault.
Donate(a, k) ==
  /\ escrows[k] # NoEscrow
  /\ a \in usable
  /\ sTokens[a] > 0
  /\ sTokens' = [sTokens EXCEPT ![a] = @ - 1]
  /\ vaults' = [vaults EXCEPT ![k] = @ + 1]
  /\ UNCHANGED <<escrows, usable, sSeconds>>

\* The mint's freeze authority freezes and thaws token accounts.
Freeze(a) ==
  /\ a \in usable
  /\ usable' = usable \ {a}
  /\ UNCHANGED <<escrows, vaults, sTokens, sSeconds>>

Thaw(a) ==
  /\ a \notin usable
  /\ usable' = usable \cup {a}
  /\ UNCHANGED <<escrows, vaults, sTokens, sSeconds>>

SolSecond ==
  /\ sSeconds < MaxTimestamp
  /\ sSeconds' = sSeconds + 1
  /\ UNCHANGED <<escrows, vaults, sTokens, usable>>

SolNext ==
  \/ \E o \in Orders, amount \in 0..MaxAmount :
       SolLock(o.key, o.payee, o.claimByMs, o.refundAfterMs, amount)
  \/ \E k \in SolKeys :
       \/ \E preimage \in Preimages : SolClaim(k, preimage)
       \/ SolRefund(k)
       \/ \E a \in Accounts : Donate(a, k)
  \/ \E a \in Freezable : Freeze(a) \/ Thaw(a)
  \/ SolSecond

SolSpec == SolInit /\ [][SolNext]_solVars

-----------------------------------------------------------------------------
(* Properties *)

SolTypeOK ==
  /\ escrows \in [SolKeys -> EscrowAccount \cup {NoEscrow}]
  /\ vaults \in [SolKeys -> Nat]
  /\ sTokens \in [Accounts -> Nat]
  /\ usable \subseteq Accounts
  /\ sSeconds \in 0..MaxTimestamp

\* The two things Htlc says of an escrow.
SolStatus(k) ==
  CASE escrows[k] = NoEscrow -> "none"
    [] escrows[k].status = "Locked" -> "locked"
    [] escrows[k].status = "Claimed" -> "claimed"
    [] escrows[k].status = "Refunded" -> "refunded"

SolRefundOpen(k) == escrows[k] # NoEscrow /\ SolNowMs >= escrows[k].refundAfterMs

SolEscrow(k) == INSTANCE Htlc WITH status <- SolStatus(k), refundOpen <- SolRefundOpen(k)

\* Every escrow of the Solana program keeps the promise of Htlc, with the
\* clock in whole seconds and deadlines that fall between two of them, and an
\* escrow that is still open has its money in its own vault, whatever was
\* paid into other vaults or frozen (lock, claim, refund and pay_out).
SolImplementsHtlc ==
  /\ \A k \in SolKeys : SolEscrow(k)!Init
  /\ [][\A k \in SolKeys :
          /\ [SolEscrow(k)!Next]_(SolEscrow(k)!vars)
          /\ escrows'[k].status = "Locked" => vaults'[k] >= escrows'[k].amount]_solVars

=============================================================================
