----------------------------- MODULE MCEscrows -----------------------------
(***************************************************************************)
(* The three escrow contracts against one promise, Htlc: two accounts, two *)
(* hash locks, each with its preimage.  A behaviour is of one contract,    *)
(* chosen at the start; the other two stay as they were deployed.          *)
(***************************************************************************)
EXTENDS EvmHashRail, NearHtlc, SolHtlc, TLC

CONSTANTS alice, bob, h1, h2, p1, p2

VARIABLE contract

MCSha256 == (p1 :> h1) @@ (p2 :> h2)

\* Two payers under one hash lock, one payer under two, refund times on and
\* between whole seconds, and locks that are refused.
MCMessages ==
  {[hashLock |-> h1, payee |-> bob, claimByMs |-> 1, refundAfterMs |-> 2],
   [hashLock |-> h2, payee |-> bob, claimByMs |-> 0, refundAfterMs |-> 1],
   [hashLock |-> h1, payee |-> Rail, claimByMs |-> 1, refundAfterMs |-> 2]}

MCOrders ==
  {[key |-> <<alice, h1>>, payee |-> bob, claimByMs |-> 1, refundAfterMs |-> 2],
   [key |-> <<bob, h1>>, payee |-> alice, claimByMs |-> 1, refundAfterMs |-> 3],
   [key |-> <<alice, h2>>, payee |-> bob, claimByMs |-> 2, refundAfterMs |-> 3],
   [key |-> <<bob, h1>>, payee |-> Rail, claimByMs |-> 1, refundAfterMs |-> 3],
   [key |-> <<bob, h2>>, payee |-> alice, claimByMs |-> 2, refundAfterMs |-> 1]}

AllInit ==
  /\ contract \in {"evm", "near", "sol"}
  /\ Init
  /\ NearInit
  /\ SolInit

AllNext ==
  \/ contract = "evm" /\ Next /\ UNCHANGED <<contract, nearVars, solVars>>
  \/ contract = "near" /\ NearNext /\ UNCHANGED <<contract, vars, solVars>>
  \/ contract = "sol" /\ SolNext /\ UNCHANGED <<contract, vars, nearVars>>

AllVars == <<contract, vars, nearVars, solVars>>

AllSpec == AllInit /\ [][AllNext]_AllVars /\ NearFairness

\* The three contracts' states keep their types (balances never go negative).
AllTypeOK == TypeOK /\ NearTypeOK /\ SolTypeOK

=============================================================================
