-------------------------------- MODULE Htlc --------------------------------
(***************************************************************************)
(* What one hashed-timelock escrow promises, whatever rail carries it: the *)
(* money goes in once, before the refund time; it leaves once, either to   *)
(* the payee, before the refund time, or to the payer, at or after it.     *)
(* The rails' own modules are shown to implement this specification.       *)
(***************************************************************************)
EXTENDS Naturals

VARIABLES status,      \* none -> locked -> claimed | refunded
          refundOpen   \* whether the lock's refund time has come

vars == <<status, refundOpen>>

Init == status = "none" /\ refundOpen = FALSE

\* A lock opens; it may not open straight into its refund window.
Lock ==
  /\ status = "none"
  /\ status' = "locked"
  /\ refundOpen' = FALSE

\* The payee side is paid.
Claim ==
  /\ status = "locked"
  /\ refundOpen = FALSE
  /\ status' = "claimed"
  /\ UNCHANGED refundOpen

\* One transaction that locks and, from inside the token's own code, claims.
LockAndClaim ==
  /\ status = "none"
  /\ status' = "claimed"
  /\ refundOpen' = FALSE

\* The payer side is paid back.
Refund ==
  /\ status = "locked"
  /\ refundOpen = TRUE
  /\ status' = "refunded"
  /\ UNCHANGED refundOpen

\* The refund time of an existing lock comes.
RefundTimeComes ==
  /\ status # "none"
  /\ refundOpen' = TRUE
  /\ UNCHANGED status

Next == Lock \/ Claim \/ LockAndClaim \/ Refund \/ RefundTimeComes

Spec == Init /\ [][Next]_vars

=============================================================================
