----------------------------- MODULE LegProofs -----------------------------
EXTENDS Legs, SumTheorems

(***************************************************************************)
(* Proofs about one leg of a swap (Legs): the Buyer and the Seller with the *)
(* chain between them, on Bitcoin, NEAR and Solana, for all terms TermsOK   *)
(* allows, every number of faults and as many signed transactions.          *)
(*                                                                          *)
(* The proof first finds LegInv, inductive over the three rails: ChainInv   *)
(* and Told say what the chain's two views hold, BuyerInv and SellerInv     *)
(* what each record and place in the code say together, BtcOnce that a      *)
(* Bitcoin record never forgets what it signed.  HeldInv and SolHeldInv     *)
(* strengthen it for the two action properties about the secret, and        *)
(* StrayInv for the rule that no live transaction is off the record.  Each  *)
(* is kept by one lemma per actor and rail.                                 *)
(***************************************************************************)

\* A finite set of integers has a largest member.
LEMMA MaxExists ==
  ASSUME NEW S, IsFiniteSet(S), S # {}
  PROVE  S \subseteq Int => Max(S) \in S /\ \A y \in S : Max(S) >= y
<1> DEFINE NoMax == {u \in SUBSET S : u # {} /\ ~ \E x \in u : \A y \in u : x >= y}
<1>1. NoMax # {} => \E m \in NoMax : \A s \in NoMax : s \subseteq m => s = m
  <2>1. NoMax \in SUBSET SUBSET S
    OBVIOUS
  <2> HIDE DEF NoMax
  <2> QED
    BY <2>1, SmallestSubset
<1> HAVE S \subseteq Int
<1>2. NoMax = {}
  <2> SUFFICES ASSUME NEW m \in NoMax, \A s \in NoMax : s \subseteq m => s = m
               PROVE  FALSE
    BY <1>1
  <2>1. PICK e \in m : TRUE
    OBVIOUS
  <2>2. m \ {e} \notin NoMax
    BY <2>1
  <2>3. CASE m \ {e} = {}
    <3>1. \A y \in m : e >= y
      BY <2>1, <2>3
    <3> QED
      BY <3>1, <2>1
  <2>4. CASE m \ {e} # {}
    <3>1. PICK x \in m \ {e} : \A y \in m \ {e} : x >= y
      BY <2>2, <2>4
    <3>2. (\A y \in m : x >= y) \/ (\A y \in m : e >= y)
      BY <3>1, <2>1
    <3> QED
      BY <3>1, <3>2, <2>1
  <2> QED
    BY <2>3, <2>4
<1>3. \E x \in S : \A y \in S : x >= y
  BY <1>2
<1> QED
  BY <1>3 DEF Max

\* The terms of the rail in use are numbers, in the order TermsOK states.
LEMMA TermsTyped ==
  ASSUME rail \in Rails
  PROVE  /\ rail \in {"btc", "near", "sol"}
         /\ MaxTime \in Nat \ {0} /\ MaxSigned \in Nat /\ MaxFaults \in Nat
         /\ LockBy \in Nat /\ ClaimBy \in Nat /\ RefundAfter \in Nat
         /\ Margin \in Nat /\ RefundB \in Nat /\ ValidFor \in Nat
         /\ LockBy <= ClaimBy /\ ClaimBy + Margin <= RefundAfter
<1>1. TermsOK(Terms[rail])
  BY LegAssumption
<1> QED
  BY <1>1, LegAssumption
     DEF TermsOK, MaxTime, MaxSigned, MaxFaults, LockBy, ClaimBy, RefundAfter,
         Margin, RefundB, ValidFor

\* What is constant for a rail stays what it was while the rail does.
LEMMA Frame ==
  ASSUME rail' = rail
  PROVE  /\ Tx' = Tx /\ View' = View
         /\ BuyerRecord' = BuyerRecord /\ SellerRecord' = SellerRecord
         /\ MaxTime' = MaxTime /\ MaxSigned' = MaxSigned /\ MaxFaults' = MaxFaults
         /\ RefundAfter' = RefundAfter /\ Margin' = Margin /\ NotAfter' = NotAfter
         /\ RefundB' = RefundB /\ ValidFor' = ValidFor
BY DEF Tx, View, BuyerRecord, SellerRecord, MaxTime, MaxSigned, MaxFaults,
       RefundAfter, Margin, NotAfter, RefundB, ValidFor

\* A transaction has the fields it was signed with, and is not NoTx.
LEMMA TxFields ==
  ASSUME NEW tx \in Tx
  PROVE  /\ tx.kind \in Kinds /\ tx.n \in 1..MaxSigned /\ tx.until \in 0..MaxTime
         /\ tx # NoTx
BY DEF Tx, NoTx, Kinds

\* The last nonce of an account on NEAR is that of one of its transactions,
\* and bounds the others.
LEMMA NonceBounds ==
  ASSUME rail \in Rails, NEW view \in View, NEW kind
  PROVE  /\ NearNonce(view, kind) \in 0..MaxSigned
         /\ \A tx \in Included(view) :
              tx.kind \in SameKey(kind) => NearNonce(view, kind) >= tx.n
         /\ \/ NearNonce(view, kind) = 0
            \/ \E tx \in Included(view) : tx.kind \in SameKey(kind) /\ NearNonce(view, kind) = tx.n
<1> DEFINE S == {0} \cup {tx.n : tx \in {other \in Included(view) : other.kind \in SameKey(kind)}}
<1>1. Included(view) \subseteq Tx
  BY DEF View, Included
<1>2. S \subseteq 0..MaxSigned /\ S # {}
  BY <1>1, TermsTyped, TxFields
<1>3. IsFiniteSet(S)
  <2>1. IsFiniteSet(0..MaxSigned)
    BY TermsTyped, FS_Interval
  <2> HIDE DEF S
  <2> QED
    BY <1>2, <2>1, FS_Subset
<1>4. NearNonce(view, kind) = Max(S)
  BY DEF NearNonce
<1>5. \A tx \in Included(view) : tx.kind \in SameKey(kind) => tx.n \in S
  OBVIOUS
<1>8. \A x \in S : x = 0 \/ \E tx \in Included(view) : tx.kind \in SameKey(kind) /\ x = tx.n
  OBVIOUS
<1> HIDE DEF S
<1>6. S \subseteq Int
  BY <1>2, TermsTyped
<1>7. Max(S) \in S /\ \A y \in S : Max(S) >= y
  BY <1>2, <1>3, <1>6, MaxExists
<1> QED
  BY <1>2, <1>4, <1>5, <1>7, <1>8

\* The transactions handed over are finitely many.
LEMMA TxFinite ==
  ASSUME rail \in Rails
  PROVE  IsFiniteSet(Tx)
<1> DEFINE P == Kinds \X (1..MaxSigned)
           Q == P \X (0..MaxTime)
           f == [tx \in Tx |-> <<<<tx.kind, tx.n>>, tx.until>>]
<1>1. IsFiniteSet(Kinds)
  <2>1. Kinds = ((({} \cup {"lock"}) \cup {"claim"}) \cup {"refund"}) \cup {"other"}
    BY DEF Kinds
  <2>2. IsFiniteSet({})
    BY FS_EmptySet
  <2> QED
    BY <2>1, <2>2, FS_AddElement
<1>2. IsFiniteSet(1..MaxSigned) /\ IsFiniteSet(0..MaxTime)
  BY TermsTyped, FS_Interval
<1>3. IsFiniteSet(P)
  BY <1>1, <1>2, FS_Product
<1>4. IsFiniteSet(Q)
  BY <1>2, <1>3, FS_Product
<1>5. f \in [Tx -> Q]
  BY DEF Tx
<1>6. \A a, b \in Tx : f[a] = f[b] => a = b
  BY DEF Tx
<1>7. f \in Injection(Tx, Q)
  <2> HIDE DEF f, Q
  <2> QED
    BY <1>5, <1>6 DEF Injection, IsInjective
<1> HIDE DEF f, Q, P
<1> QED
  BY <1>4, <1>7, FS_Injection

\* A transaction a flow signs on Bitcoin or Solana is one of Tx.
LEMMA SignedTx ==
  ASSUME rail \in Rails, handed \in SUBSET Tx,
         NEW kind \in Kinds, NEW until \in 0..MaxTime, MaySign(kind)
  PROVE  /\ NextTx(kind, until) \in Tx
         /\ NextTx(kind, until).kind = kind /\ NextTx(kind, until).until = until
         /\ NextTx(kind, until).n = 1 + Cardinality(Handed(kind))
<1> DEFINE same == {tx \in handed : tx.kind = kind}
<1>1. IsFiniteSet(same)
  <2>1. same \in SUBSET Tx
    OBVIOUS
  <2> HIDE DEF same
  <2> QED
    BY <2>1, TxFinite, FS_Subset
<1>2. Cardinality(same) \in Nat
  BY <1>1, FS_CardinalityType
<1>3. Handed(kind) = same
  BY DEF Handed
<1> HIDE DEF same
<1>4. NextTx(kind, until) = [kind |-> kind, n |-> 1 + Cardinality(same), until |-> until]
  BY DEF NextTx, same
<1>5. 1 + Cardinality(same) <= MaxSigned
  BY DEF MaySign, NextTx, same
<1>6. 1 + Cardinality(same) \in 1..MaxSigned
  BY <1>2, <1>5, TermsTyped
<1>7. NextTx(kind, until) \in Tx
  BY <1>4, <1>6 DEF Tx
<1> QED
  BY <1>3, <1>4, <1>7

\* A transaction a flow may sign on NEAR is one of Tx.
LEMMA NearSigned ==
  ASSUME rail \in Rails, fin \in View, NEW kind \in Kinds, NearMaySign(kind)
  PROVE  NearNext(kind) \in Tx /\ NearNext(kind).kind = kind
<1>1. NearNonce(fin, kind) \in 0..MaxSigned
  BY NonceBounds
<1> QED
  BY <1>1, TermsTyped DEF NearNext, NearMaySign, Tx

-----------------------------------------------------------------------------

\* The types of what the chain and the room hold.
ChainTyped ==
  /\ rail \in Rails /\ now \in 1..MaxTime
  /\ note \in {"locked", "claimed", "refunded"}
  /\ faults \in 0..MaxFaults
  /\ room \subseteq {"reveal", "receipt"}
  /\ head \in View /\ fin \in View
  /\ handed \subseteq Tx /\ pool \subseteq handed

\* What a view of the chain may hold: only what was handed over, each tx in
\* one state, and only NEAR runs a tx over several blocks.
ViewHolds(view) ==
  /\ Included(view) \subseteq handed
  /\ view.running \cap (view.done \cup view.failed) = {}
  /\ rail # "near" => view.running = {}

\* A newer view keeps what an older one holds, and its leg moves forward.
Follows(older, newer) ==
  /\ older.done \subseteq newer.done /\ older.failed \subseteq newer.failed
  /\ Included(older) \subseteq Included(newer)
  /\ older.shown => newer.shown
  /\ older.leg # "none" => newer.leg # "none"
  /\ older.leg \in {"claimed", "refunded"} => newer.leg = older.leg

\* The other uses of the key ran at once; no rail but NEAR has them.
OthersRan == \A tx \in handed : tx.kind = "other" => rail = "near" /\ tx \in head.done

\* The chain: its types, its two views, and the final one behind the newest.
ChainInv ==
  /\ ChainTyped
  /\ ViewHolds(head) /\ ViewHolds(fin)
  /\ Follows(fin, head)
  /\ OthersRan

\* What a step of either flow may do to the chain: hand a tx over, no more.
FlowStep ==
  /\ UNCHANGED <<rail, now, head, fin>>
  /\ note' \in {"locked", "claimed", "refunded"}
  /\ faults' \in 0..MaxFaults
  /\ room' \subseteq {"reveal", "receipt"}
  /\ handed \subseteq handed' /\ handed' \subseteq Tx /\ pool' \subseteq handed'
  /\ \A tx \in handed' \ handed : tx.kind # "other"

\* The steps of the chain itself.
ChainStep ==
  \/ Advance \/ NoteBack
  \/ rail = "btc" /\ \E tx \in handed : BtcMine(tx)
  \/ rail # "near" /\ (Fork \/ Evict)
  \/ rail = "near" /\ (NearChain \/ NearOther)
  \/ rail = "sol" /\ \E tx \in handed : SolLand(tx) \/ SolLandFailed(tx)

\* The chain starts as ChainInv says.
LEMMA Initially == LegInit => ChainInv
<1> SUFFICES ASSUME LegInit PROVE ChainInv
  OBVIOUS
<1>1. rail \in Rails /\ EmptyView \in View
  BY DEF LegInit, EmptyView, View, LegStatuses
<1>2. ChainTyped
  BY <1>1, TermsTyped DEF LegInit, ChainTyped
<1> QED
  BY <1>2 DEF LegInit, ChainInv, ViewHolds, Follows, OthersRan, EmptyView, Included

\* No step of a flow breaks it.
LEMMA FlowKeepsChain == ChainInv /\ FlowStep => ChainInv'
<1> SUFFICES ASSUME ChainInv, FlowStep PROVE ChainInv'
  OBVIOUS
<1>1. rail' = rail
  BY DEF FlowStep
<1>2. ChainTyped'
  BY <1>1, Frame DEF ChainInv, FlowStep, ChainTyped
<1>3. ViewHolds(head)' /\ ViewHolds(fin)'
  BY DEF ChainInv, FlowStep, ViewHolds, Included
<1>4. Follows(fin, head)'
  BY DEF ChainInv, FlowStep, Follows, Included
<1>5. OthersRan'
  BY DEF ChainInv, FlowStep, OthersRan
<1> QED
  BY <1>2, <1>3, <1>4, <1>5 DEF ChainInv

\* What a step of the chain that only makes a new head has to keep.
LEMMA NewHead ==
  ASSUME ChainInv,
         UNCHANGED <<rail, now, note, fin, room>>,
         faults' \in 0..MaxFaults,
         head' \in View, ViewHolds(head)', Follows(head, head'),
         handed \subseteq handed', handed' \subseteq Tx, pool' \subseteq handed',
         \A tx \in handed' \ handed : rail = "near" /\ tx \in head'.done
  PROVE  ChainInv'
<1>1. ChainTyped'
  BY Frame DEF ChainInv, ChainTyped
<1>2. ViewHolds(fin)'
  BY DEF ChainInv, ViewHolds, Included
<1>3. Follows(fin, head)'
  BY DEF ChainInv, Follows, Included
<1>4. OthersRan'
  BY DEF ChainInv, OthersRan, Follows
<1> QED
  BY <1>1, <1>2, <1>3, <1>4 DEF ChainInv

\* What the escrow allows, kind by kind.
LEMMA NearAllowed ==
  ASSUME NEW tx, tx.kind \in {"lock", "claim", "refund"}, NearExecute(tx)
  PROVE  \/ /\ tx.kind = "lock" /\ head.leg = "none" /\ now < RefundAfter
            /\ NearRuns(tx, "locked")
         \/ /\ tx.kind = "claim" /\ head.leg = "locked" /\ (now < RefundAfter \/ head.shown)
            /\ NearRuns(tx, "claiming")
         \/ /\ tx.kind = "refund" /\ head.leg = "locked" /\ now >= RefundAfter /\ ~head.shown
            /\ NearRuns(tx, "refunding")
<1>1. CASE tx.kind = "lock"
  BY <1>1, Zenon DEF NearExecute, NearAllows
<1>2. CASE tx.kind = "claim"
  BY <1>2, Zenon DEF NearExecute, NearAllows
<1>3. CASE tx.kind = "refund"
  BY <1>3, Zenon DEF NearExecute, NearAllows
<1> QED
  BY <1>1, <1>2, <1>3

\* A tx that lands on Solana moves the leg and shows a claim's secret.
SolLandsAs(tx, leg) ==
  head' = [head EXCEPT !.leg = leg, !.shown = @ \/ tx.kind = "claim", !.done = @ \cup {tx}]

\* The same on Solana.
LEMMA SolAllowed ==
  ASSUME NEW tx, tx.kind \in {"lock", "claim", "refund"}, SolLand(tx)
  PROVE  \/ tx.kind = "lock" /\ head.leg = "none" /\ now < RefundAfter /\ SolLandsAs(tx, "locked")
         \/ tx.kind = "claim" /\ head.leg = "locked" /\ now < RefundAfter /\ SolLandsAs(tx, "claimed")
         \/ tx.kind = "refund" /\ head.leg = "locked" /\ now >= RefundAfter /\ SolLandsAs(tx, "refunded")
<1>1. CASE tx.kind = "lock"
  BY <1>1, Zenon DEF SolLand, SolAllows, SolLandsAs
<1>2. CASE tx.kind = "claim"
  BY <1>2, Zenon DEF SolLand, SolAllows, SolLandsAs
<1>3. CASE tx.kind = "refund"
  BY <1>3, Zenon DEF SolLand, SolAllows, SolLandsAs
<1> QED
  BY <1>1, <1>2, <1>3

\* No step of the chain breaks it, reorganisations included.
LEMMA ChainKeepsChain ==
  ASSUME ChainInv, ChainStep
  PROVE  ChainInv'
<1> USE DEF ChainInv
<1>0. rail \in {"btc", "near", "sol"} /\ MaxTime \in Nat /\ MaxFaults \in Nat
      /\ MaxSigned \in Nat /\ faults \in Int /\ now \in Nat
  BY TermsTyped DEF ChainTyped
<1>1. CASE Advance
  <2>1. ChainTyped'
    BY <1>1, <1>0, Frame DEF Advance, ChainTyped, buyerSide, sellerSide
  <2>2. ViewHolds(head)' /\ ViewHolds(fin)' /\ Follows(fin, head)' /\ OthersRan'
    BY <1>1 DEF Advance, ViewHolds, Follows, OthersRan, Included
  <2> QED
    BY <2>1, <2>2
<1>2. CASE NoteBack
  <2>1. FlowStep
    BY <1>2 DEF NoteBack, FlowStep, ChainTyped, chainView
  <2> QED
    BY <2>1, FlowKeepsChain
<1>3. ASSUME rail = "btc", NEW tx \in handed, BtcMine(tx)
      PROVE  ChainInv'
  <2>1. PICK leg \in {"locked", "claimed", "refunded"} : BtcConfirms(tx, leg)
    BY <1>3 DEF BtcMine
  <2>2. head.leg \notin {"claimed", "refunded"}
    BY <1>3 DEF BtcMine
  <2>3. tx \in Tx
    BY DEF ChainTyped
  <2>4. head' \in View
    BY <2>1, <2>3 DEF BtcConfirms, ChainTyped, View, LegStatuses
  <2>5. ViewHolds(head)' /\ Follows(head, head')
    BY <1>3, <2>1, <2>2, <2>3 DEF BtcConfirms, ChainTyped, View, ChainOnly, ViewHolds, Follows, Included
  <2> QED
    BY <2>1, <2>4, <2>5, NewHead DEF BtcConfirms, ChainOnly, ChainTyped
<1>4. CASE rail # "near" /\ Fork
  <2>1. ChainTyped'
    BY <1>4, <1>0, Frame DEF Fork, Fault, ChainTyped, ViewHolds, buyerSide, sellerSide
  <2>2. ViewHolds(head)' /\ ViewHolds(fin)' /\ Follows(fin, head)' /\ OthersRan'
    BY <1>4 DEF Fork, ViewHolds, Follows, OthersRan, Included
  <2> QED
    BY <2>1, <2>2
<1>5. CASE Evict
  <2>1. FlowStep
    BY <1>5, <1>0 DEF Evict, Fault, FlowStep, ChainTyped
  <2> QED
    BY <2>1, FlowKeepsChain
<1>6. CASE rail = "near" /\ NearOther
  <2> DEFINE tx == [kind |-> "other", n |-> NearNonce(head, "other") + 1, until |-> MaxTime]
  <2>1. NearNonce(head, "other") \in 0..MaxSigned
    BY NonceBounds DEF ChainTyped
  <2>2. \A other \in Included(head) : other.kind \in SameKey("other") => NearNonce(head, "other") >= other.n
    BY NonceBounds DEF ChainTyped
  <2>3. tx \in Tx
    BY <1>6, <1>0, <2>1 DEF NearOther, Tx, Kinds
  <2>4. tx \notin Included(head)
    BY <2>1, <2>2 DEF SameKey, Kinds
  <2>5. /\ head' = [head EXCEPT !.done = @ \cup {tx}] /\ handed' = handed \cup {tx} /\ Fault
        /\ UNCHANGED <<rail, now, note, fin, pool, room>>
    BY <1>6 DEF NearOther
  <2> HIDE DEF tx
  <2>6. head' \in View
    BY <2>3, <2>5 DEF ChainTyped, View, LegStatuses
  <2>7. ViewHolds(head)' /\ Follows(head, head')
    BY <1>6, <2>3, <2>4, <2>5 DEF ChainTyped, View, ViewHolds, Follows, Included
  <2> QED
    BY <1>0, <1>6, <2>3, <2>5, <2>6, <2>7, NewHead DEF ChainTyped, View, Fault
<1>7. ASSUME rail = "near", NEW tx \in handed, NearInclude(tx)
      PROVE  ChainInv'
  <2>1. tx \in Tx /\ tx.kind \in Kinds /\ tx.n \in Nat
    BY <1>0, TxFields DEF ChainTyped
  <2>2. tx.kind \in SameKey(tx.kind)
    BY <2>1 DEF SameKey, Kinds
  <2>3. tx \notin Included(head)
    BY <1>7, <1>0, <2>1, <2>2, NonceBounds DEF NearInclude, NearUsed, ChainTyped
  <2>4. head' \in View
    BY <1>7, <2>1 DEF NearInclude, ChainTyped, View, LegStatuses
  <2>5. ViewHolds(head)' /\ Follows(head, head')
    BY <1>7, <2>1, <2>3 DEF NearInclude, ChainOnly, ChainTyped, View, ViewHolds, Follows, Included
  <2> QED
    BY <1>7, <2>4, <2>5, NewHead DEF NearInclude, ChainOnly, ChainTyped
<1>8. ASSUME rail = "near", NEW tx \in head.running, NearExecute(tx)
      PROVE  ChainInv'
  <2>1. tx \in Tx /\ tx.kind \in {"lock", "claim", "refund"}
    <3>1. tx \in Tx /\ tx \in handed /\ tx \notin head.done
      BY <1>8 DEF ChainTyped, View, ViewHolds, Included
    <3> QED
      BY <3>1, TxFields DEF OthersRan, Kinds
  <2>2. head.leg \in {"none", "locked"} /\ \E leg \in {"locked", "claiming", "refunding"} : NearRuns(tx, leg)
    BY <1>8, <2>1, NearAllowed
  <2> PICK leg \in {"locked", "claiming", "refunding"} : NearRuns(tx, leg)
    BY <2>2
  <2>3. head' \in View
    BY <2>1, <2>2 DEF NearRuns, ChainTyped, View, LegStatuses
  <2>4. ViewHolds(head)' /\ Follows(head, head')
    BY <1>8, <2>1, <2>2 DEF NearRuns, ChainOnly, ChainTyped, View, ViewHolds, Follows, Included
  <2> QED
    BY <2>2, <2>3, <2>4, NewHead DEF NearRuns, ChainOnly, ChainTyped
<1>9. ASSUME rail = "near", NEW tx \in head.running, NearExecuteFails(tx)
      PROVE  ChainInv'
  <2>1. tx \in Tx /\ faults' \in 0..MaxFaults
    BY <1>9, <1>0 DEF ChainTyped, View, NearExecuteFails, Fault
  <2>3. head' \in View
    BY <1>9, <2>1 DEF NearExecuteFails, ChainTyped, View, LegStatuses
  <2>4. ViewHolds(head)' /\ Follows(head, head')
    BY <1>9, <2>1 DEF NearExecuteFails, ChainOnly, ChainTyped, View, ViewHolds, Follows, Included
  <2> QED
    BY <1>9, <2>1, <2>3, <2>4, NewHead DEF NearExecuteFails, ChainOnly, ChainTyped
<1>10. CASE rail = "near" /\ (NearPayout \/ NearPayoutFails)
  <2>1. faults' \in 0..MaxFaults /\ head.leg \in {"claiming", "refunding"}
    BY <1>10, <1>0 DEF ChainTyped, NearPayout, NearPayoutFails, Fault
  <2>2. PICK leg \in {"claimed", "refunded", "locked"} : head' = [head EXCEPT !.leg = leg]
    BY <1>10 DEF NearPayout, NearPayoutFails
  <2>3. head' \in View
    BY <2>2 DEF ChainTyped, View, LegStatuses
  <2>4. ViewHolds(head)' /\ Follows(head, head')
    BY <1>10, <2>1, <2>2 DEF NearPayout, NearPayoutFails, ChainOnly, ChainTyped, View, ViewHolds, Follows, Included
  <2> QED
    BY <1>10, <2>1, <2>3, <2>4, NewHead DEF NearPayout, NearPayoutFails, ChainOnly, ChainTyped
<1>11. ASSUME rail = "sol", NEW tx \in handed, SolLand(tx)
       PROVE  ChainInv'
  <2>1. tx \in Tx /\ tx \notin Included(head)
    BY <1>11 DEF ChainTyped, SolLand, SolMayLand
  <2>0. tx.kind \in {"lock", "claim", "refund"}
    BY <1>11, <2>1, TxFields DEF OthersRan, Kinds
  <2>2. PICK leg \in {"locked", "claimed", "refunded"} :
          /\ head.leg \in {"none", "locked"}
          /\ SolLandsAs(tx, leg)
    BY <1>11, <2>0, SolAllowed
  <2>3. head' \in View
    BY <2>1, <2>2 DEF SolLandsAs, ChainTyped, View, LegStatuses
  <2>4. /\ head'.done = head.done \cup {tx} /\ head'.failed = head.failed
        /\ head'.running = head.running /\ head'.leg = leg
        /\ head.shown => head'.shown
    BY <2>2 DEF SolLandsAs, ChainTyped, View
  <2>5. ViewHolds(head)'
    BY <1>11, <2>1, <2>4 DEF SolLand, ChainOnly, ViewHolds, Included
  <2>6. Follows(head, head')
    BY <2>2, <2>4 DEF Follows, Included
  <2> QED
    BY <1>11, <2>3, <2>5, <2>6, NewHead DEF SolLand, ChainOnly, ChainTyped
<1>12. ASSUME rail = "sol", NEW tx \in handed, SolLandFailed(tx)
       PROVE  ChainInv'
  <2>1. tx \in Tx /\ tx \notin Included(head) /\ faults' \in 0..MaxFaults
    BY <1>12, <1>0 DEF ChainTyped, SolLandFailed, SolMayLand, Fault
  <2>3. head' \in View
    BY <1>12, <2>1 DEF SolLandFailed, ChainTyped, View, LegStatuses
  <2>4. ViewHolds(head)' /\ Follows(head, head')
    BY <1>12, <2>1 DEF SolLandFailed, ChainOnly, ChainTyped, View, ViewHolds, Follows, Included
  <2> QED
    BY <1>12, <2>1, <2>3, <2>4, NewHead DEF SolLandFailed, ChainOnly, ChainTyped
<1> QED
  BY <1>1, <1>2, <1>3, <1>4, <1>5, <1>6, <1>7, <1>8, <1>9, <1>10, <1>11, <1>12
     DEF ChainStep, NearChain

-----------------------------------------------------------------------------

\* What buyerLoadProblem demands of a Buyer's record (buyer.ts).
BuyerLoads ==
  /\ bRec.lock # NoTx <=> bRec.attempted
  /\ bRec.locked \/ bRec.refunding \/ bRec.tookB => bRec.attempted
  /\ bRec.refund # NoTx \/ bRec.refunded => bRec.refunding
  /\ bRec.done => bRec.refunded
  /\ bRec.lock.kind \in {"lock", "none"} /\ bRec.refund.kind \in {"refund", "none"}

\* What the Buyer's place in its code says of its record.
BuyerAt ==
  /\ DOMAIN bSaw = {"of", "saw", "at"}
  /\ bAt \in {"lock", "sent", "sign"} => bRec.attempted
  /\ bAt \in {"recover", "observe", "failed"} => bRec.refunding
  /\ bAt \in {"send", "refund sent"} => bRec.refund # NoTx
  /\ bAt \in {"verify", "ifDropped"} => bRec.refunded
  /\ bAt = "resend" /\ rail = "btc" => bRec.refund # NoTx
  /\ bAt \in {"look", "look again", "key again", "settle", "resend", "resent"} /\ rail = "near"
       => \/ bSaw.of = "lock" /\ bRec.attempted
          \/ bSaw.of = "refund" /\ bRec.refund # NoTx

\* The Buyer's record is one its own loader accepts, at every save.
BuyerInv == bRec \in BuyerRecord /\ BuyerLoads /\ BuyerAt

\* The same of the Seller's record and place.
SellerInv ==
  /\ sRec \in SellerRecord /\ DOMAIN sSaw = {"of", "saw", "at"}
  /\ sRec.claims # {} \/ sRec.sent \/ sRec.starved \/ sRec.public => sRec.attempted
  /\ \A tx \in sRec.claims : tx.kind = "claim"
  /\ sAt \in {"settle", "mined?", "resend", "send", "claim sent"} => sRec.attempted
  /\ rail # "btc" /\ sAt = "sign" => sRec.attempted
  /\ rail # "btc" /\ sAt \in {"send", "claim sent"} => sSaw.at \in Tx /\ sSaw.at.kind = "claim"

\* Steps that hand nothing over.
LEMMA LocalIsFlow ==
  ASSUME ChainInv, BLocal \/ SLocal
  PROVE  FlowStep
BY DEF ChainInv, ChainTyped, BLocal, SLocal, FlowStep, chainView

\* A flow that throws hands nothing over.
LEMMA ThrowsAreFlow ==
  ASSUME ChainInv, BuyerThrows \/ SellerThrows
  PROVE  FlowStep
<1>1. faults \in 0..MaxFaults /\ MaxFaults \in Nat /\ Fault
  BY TermsTyped DEF ChainInv, ChainTyped, BuyerThrows, SellerThrows
<1>2. faults' \in 0..MaxFaults
  BY <1>1 DEF Fault
<1>3. UNCHANGED <<rail, now, note, chainView, room>>
  BY DEF BuyerThrows, SellerThrows
<1> QED
  BY <1>2, <1>3 DEF ChainInv, ChainTyped, FlowStep, chainView

\* A send hands over at most the one transaction.
LEMMA SendIsFlow ==
  ASSUME ChainInv, NEW tx \in Tx, tx.kind # "other",
         UNCHANGED <<rail, now, note, head, fin, room>>,
         faults' \in 0..MaxFaults,
         (handed' = handed /\ pool' = pool) \/ (handed' = handed \cup {tx} /\ pool' \subseteq pool \cup {tx})
  PROVE  FlowStep
BY DEF ChainInv, ChainTyped, FlowStep

\* A Bitcoin broadcast hands over at most the one transaction, whatever the
\* node answers.
LEMMA BtcSendIsFlow ==
  ASSUME ChainInv, NEW tx \in Tx, tx.kind # "other",
         UNCHANGED <<rail, now, note, head, fin, room>>,
         BtcAccepted(tx) \/ BtcRefused(tx) \/ BtcAnswerLost(tx) \/ SendsNothing
  PROVE  FlowStep
<1>1. faults \in 0..MaxFaults /\ MaxFaults \in Nat
  BY TermsTyped DEF ChainInv, ChainTyped
<1>2. faults' \in 0..MaxFaults
  BY <1>1 DEF BtcAccepted, BtcRefused, BtcAnswerLost, SendsNothing, Fault
<1>3. (handed' = handed /\ pool' = pool) \/ (handed' = handed \cup {tx} /\ pool' \subseteq pool \cup {tx})
  BY DEF BtcAccepted, BtcRefused, BtcAnswerLost, SendsNothing, Hand
<1> QED
  BY <1>2, <1>3, SendIsFlow

\* The Buyer starts as BuyerInv says.
LEMMA BuyerInitially == LegInit => BuyerInv
BY DEF LegInit, BuyerInv, BuyerRecord, BuyerLoads, BuyerAt, NoTx, Nothing

\* The Seller starts as SellerInv says.
LEMMA SellerInitially == LegInit => SellerInv
BY DEF LegInit, SellerInv, SellerRecord, Nothing

\* Steps of others leave the Seller as it was.
LEMMA SellerUnchanged ==
  ASSUME SellerInv, rail' = rail, UNCHANGED sellerSide
  PROVE  SellerInv'
BY Frame DEF SellerInv, sellerSide

\* A Seller that throws starts again from a record it can load.
LEMMA SellerThrowsKeeps ==
  ASSUME ChainInv, SellerInv, SellerThrows
  PROVE  SellerInv' /\ FlowStep
<1>1. FlowStep
  BY ThrowsAreFlow
<1> QED
  BY <1>1, Frame DEF SellerThrows, Nothing, SellerInv, FlowStep

\* Steps of others leave the Buyer as it was.
LEMMA BuyerUnchanged ==
  ASSUME BuyerInv, rail' = rail, UNCHANGED buyerSide
  PROVE  BuyerInv'
BY Frame DEF BuyerInv, BuyerLoads, BuyerAt, buyerSide, NoTx

\* The steps that do not differ from rail to rail.
SharedBuyer ==
  \/ RecoverRefundA \/ RefundFailed \/ ReportRefund \/ BuyerThrows
  \/ TakeLegB(TRUE)
  \/ \E after \in {"verify", "ifDropped"} : RefundLegA(FALSE, after)

\* They keep BuyerInv.
LEMMA SharedBuyerKeeps ==
  ASSUME ChainInv, BuyerInv, SharedBuyer
  PROVE  BuyerInv' /\ FlowStep
<1> USE DEF BuyerInv, BuyerLoads, BuyerAt, BuyerRecord, BGo, BSet
<1>0. NoTx \notin Tx /\ NoTx.kind = "none"
  BY TxFields DEF NoTx
<1>1. CASE RecoverRefundA
  <2>1. FlowStep
    BY <1>1, LocalIsFlow DEF RecoverRefundA
  <2>2. rail' = rail
    BY <2>1 DEF FlowStep
  <2>3. BuyerInv'
    BY <1>0, <1>1, <2>2, Frame DEF RecoverRefundA, Nothing, SeenRefunded, SeenClaimed, SeenNeither
  <2> QED
    BY <2>1, <2>3
<1>2. CASE RefundFailed
  <2>1. FlowStep
    BY <1>2, LocalIsFlow DEF RefundFailed
  <2>2. rail' = rail
    BY <2>1 DEF FlowStep
  <2>3. BuyerInv'
    BY <1>0, <1>2, <2>2, Frame DEF RefundFailed, SeenRefunded, SeenClaimed, SeenNeither
  <2> QED
    BY <2>1, <2>3
<1>3. CASE ReportRefund
  <2>1. FlowStep
    BY <1>3, LocalIsFlow DEF ReportRefund
  <2>2. rail' = rail
    BY <2>1 DEF FlowStep
  <2>3. BuyerInv'
    BY <1>0, <1>3, <2>2, Frame DEF ReportRefund, SeenRefunded, SeenClaimed, SeenNeither
  <2> QED
    BY <2>1, <2>3
<1>4. CASE BuyerThrows
  <2>1. FlowStep
    BY <1>4, ThrowsAreFlow
  <2>2. rail' = rail
    BY <2>1 DEF FlowStep
  <2>3. BuyerInv'
    BY <1>0, <1>4, <2>2, Frame DEF BuyerThrows, Nothing
  <2> QED
    BY <2>1, <2>3
<1>5. CASE TakeLegB(TRUE)
  <2>1. FlowStep
    BY <1>5 DEF TakeLegB, FlowStep, ChainInv, ChainTyped, chainView
  <2>2. rail' = rail
    BY <2>1 DEF FlowStep
  <2>3. BuyerInv'
    BY <1>0, <1>5, <2>2, Frame DEF TakeLegB
  <2> QED
    BY <2>1, <2>3
<1>6. ASSUME NEW after \in {"verify", "ifDropped"}, RefundLegA(FALSE, after)
      PROVE  BuyerInv' /\ FlowStep
  <2>1. FlowStep
    BY <1>6, LocalIsFlow DEF RefundLegA
  <2>2. rail' = rail
    BY <2>1 DEF FlowStep
  <2>3. BuyerInv'
    BY <1>0, <1>6, <2>2, Frame DEF RefundLegA
  <2> QED
    BY <2>1, <2>3
<1> QED
  BY <1>1, <1>2, <1>3, <1>4, <1>5, <1>6 DEF SharedBuyer

-----------------------------------------------------------------------------

\* On Bitcoin there is one transaction of each kind at most: every one handed
\* over is the one the record holds, and the record never forgets it.
BtcOnce ==
  /\ \A tx \in handed :
       /\ tx.kind = "lock" => tx = bRec.lock
       /\ tx.kind = "refund" => tx = bRec.refund
       /\ tx.kind = "claim" => tx \in sRec.claims
  /\ \A a, b \in sRec.claims : a = b
  /\ bRec.refunded => bRec.refund # NoTx
  /\ bAt \notin {"idle", "lock", "verify", "ifDropped"} => ~bRec.refunded
  /\ bAt = "sign" => bRec.refund = NoTx
  /\ bAt = "observe" => \/ bSaw.saw = "no handle" /\ bRec.refund = NoTx
                        \/ bSaw.saw = "never-landed"
  /\ bAt = "send" => bRec.refund \notin handed
  /\ sAt = "sign" => sRec.claims = {}
  /\ sAt = "send" => sRec.claims # {} /\ sRec.claims \cap handed = {}
  /\ sAt = "resend" => sRec.claims # {}

\* The Buyer's Bitcoin steps keep BuyerInv.
LEMMA BtcBuyerKeeps ==
  ASSUME ChainInv, BuyerInv, BtcOnce, rail = "btc", BtcBuyer \/ BtcTakeLegB
  PROVE  BuyerInv' /\ FlowStep
<1>0. /\ NoTx \notin Tx /\ NoTx.kind = "none" /\ NoTx.kind \notin Kinds
      /\ rail \in Rails /\ handed \in SUBSET Tx
  BY TxFields DEF NoTx, ChainInv, ChainTyped, Kinds
<1>a. MaxTime \in 0..MaxTime
  BY <1>0, TermsTyped
<1>b. ASSUME NEW kind \in {"lock", "refund"}, MaySign(kind)
      PROVE  NextTx(kind, MaxTime) \in Tx /\ NextTx(kind, MaxTime).kind = kind
  <2>1. kind \in Kinds
    BY DEF Kinds
  <2> QED
    BY <1>0, <1>a, <1>b, <2>1, SignedTx
<1> USE DEF BuyerInv, BuyerLoads, BuyerAt, BuyerRecord, BGo, BSet
<1>1. CASE BtcLock
  <2> DEFINE tx == NextTx("lock", MaxTime)
  <2>0. tx \in Tx /\ tx.kind = "lock" /\ tx # NoTx
    BY <1>0, <1>1, <1>b DEF BtcLock
  <2>1. FlowStep
    BY <1>1, LocalIsFlow DEF BtcLock, PrepareLock
  <2>2. rail' = rail
    BY <2>1 DEF FlowStep
  <2> HIDE DEF tx
  <2>3. BuyerInv'
    BY <1>0, <1>1, <2>0, <2>2, Frame DEF BtcLock, tx, PrepareLock
  <2> QED
    BY <2>1, <2>3
<1>2. CASE BtcRecoverLock
  <2>1. FlowStep
    BY <1>2, LocalIsFlow DEF BtcRecoverLock
  <2>2. rail' = rail
    BY <2>1 DEF FlowStep
  <2>3. BuyerInv'
    BY <1>0, <1>2, <2>2, Frame DEF BtcRecoverLock
  <2> QED
    BY <2>1, <2>3
<1>3. CASE BtcSendLock
  <2>0. bRec.lock \in Tx /\ bRec.lock.kind # "other"
    BY <1>0, <1>3 DEF BtcSendLock
  <2>1. FlowStep
    BY <1>3, <2>0, BtcSendIsFlow DEF BtcSendLock, BSends, sellerSide
  <2>2. rail' = rail
    BY <2>1 DEF FlowStep
  <2>3. BuyerInv'
    BY <1>0, <1>3, <2>0, <2>2, Frame DEF BtcSendLock
  <2> QED
    BY <2>1, <2>3
<1>4. CASE BtcRefundLegA
  <2>1. SharedBuyer
    BY <1>4 DEF BtcRefundLegA, RefundLegA, SharedBuyer
  <2> QED
    BY <2>1, SharedBuyerKeeps
<1>5. CASE BtcRecoverRefund
  <2>1. FlowStep
    BY <1>5, LocalIsFlow DEF BtcRecoverRefund
  <2>2. rail' = rail
    BY <2>1 DEF FlowStep
  <2>3. BuyerInv'
    BY <1>0, <1>5, <2>2, Frame DEF BtcRecoverRefund, Saw
  <2> QED
    BY <2>1, <2>3
<1>6. CASE BtcResendRefund
  <2>0. bRec.refund \in Tx /\ bRec.refund.kind # "other"
    BY <1>0, <1>6 DEF BtcResendRefund
  <2>1. FlowStep
    BY <1>6, <2>0, BtcSendIsFlow DEF BtcResendRefund, BSends, sellerSide
  <2>2. rail' = rail
    BY <2>1 DEF FlowStep
  <2>3. BuyerInv'
    BY <1>0, <1>6, <2>0, <2>2, Frame DEF BtcResendRefund, Saw
  <2> QED
    BY <2>1, <2>3
<1>7. CASE BtcSignRefund
  <2> DEFINE tx == NextTx("refund", MaxTime)
  <2>0. MaySign("refund") => tx \in Tx /\ tx.kind = "refund" /\ tx # NoTx
    BY <1>0, <1>b
  <2>1. FlowStep
    BY <1>7, LocalIsFlow DEF BtcSignRefund
  <2>2. rail' = rail /\ bSaw' = bSaw
    BY <1>7, <2>1 DEF FlowStep, BtcSignRefund
  <2>3. BuyerInv'
    <3> HIDE DEF tx
    <3>1. CASE /\ bAt = "sign" /\ bAt' = "send" /\ MaySign("refund")
               /\ bRec' = [bRec EXCEPT !.refunding = TRUE, !.refund = tx]
      BY <1>0, <2>0, <2>2, <3>1, Frame
    <3>2. CASE bAt = "sign" /\ bAt' = "failed" /\ bRec' = [bRec EXCEPT !.refunding = TRUE]
      BY <1>0, <2>2, <3>2, Frame
    <3> QED
      BY <1>7, <3>1, <3>2 DEF BtcSignRefund, tx
  <2> QED
    BY <2>1, <2>3
<1>8. CASE BtcSendRefund
  <2>0. bRec.refund \in Tx /\ bRec.refund.kind # "other"
    BY <1>0, <1>8 DEF BtcSendRefund
  <2>1. FlowStep
    BY <1>8, <2>0, BtcSendIsFlow DEF BtcSendRefund, BSends, sellerSide
  <2>2. rail' = rail
    BY <2>1 DEF FlowStep
  <2>3. BuyerInv'
    BY <1>0, <1>8, <2>0, <2>2, Frame DEF BtcSendRefund
  <2> QED
    BY <2>1, <2>3
<1>9. CASE BtcResendIfDropped
  <2>0. bRec.refund \in Tx /\ bRec.refund.kind # "other"
    BY <1>0, <1>9 DEF BtcResendIfDropped, BtcOnce
  <2>1. FlowStep
    BY <1>9, <2>0, BtcSendIsFlow DEF BtcResendIfDropped, BSends, sellerSide
  <2>2. rail' = rail
    BY <2>1 DEF FlowStep
  <2>3. BuyerInv'
    BY <1>0, <1>9, <2>0, <2>2, Frame DEF BtcResendIfDropped
  <2> QED
    BY <2>1, <2>3
<1>10. CASE BtcTakeLegB
  <2>1. SharedBuyer
    BY <1>10 DEF BtcTakeLegB, TakeLegB, SharedBuyer
  <2> QED
    BY <2>1, SharedBuyerKeeps
<1>11. CASE RecoverRefundA \/ RefundFailed \/ ReportRefund
  BY <1>11, SharedBuyerKeeps DEF SharedBuyer
<1> QED
  BY <1>1, <1>2, <1>3, <1>4, <1>5, <1>6, <1>7, <1>8, <1>9, <1>10, <1>11 DEF BtcBuyer

\* The Seller's Bitcoin steps keep SellerInv.
LEMMA BtcSellerKeeps ==
  ASSUME ChainInv, SellerInv, BtcOnce, rail = "btc", BtcSeller
  PROVE  SellerInv' /\ FlowStep
<1>0. rail \in Rails /\ handed \in SUBSET Tx
  BY DEF ChainInv, ChainTyped
<1>a. MaxTime \in 0..MaxTime
  BY <1>0, TermsTyped
<1> USE DEF SellerInv, SellerRecord, SGo, SSet
<1>1. CASE BtcClaimLegA
  <2>1. FlowStep
    BY <1>1, LocalIsFlow DEF BtcClaimLegA
  <2>2. rail' = rail
    BY <2>1 DEF FlowStep
  <2>3. SellerInv'
    BY <1>0, <1>1, <2>2, Frame DEF BtcClaimLegA
  <2> QED
    BY <2>1, <2>3
<1>2. CASE BtcSignClaim
  <2> DEFINE tx == NextTx("claim", MaxTime)
  <2>0. tx \in Tx /\ tx.kind = "claim"
    BY <1>0, <1>a, <1>2, SignedTx DEF BtcSignClaim, Kinds
  <2>1. FlowStep
    BY <1>2, LocalIsFlow DEF BtcSignClaim
  <2>2. rail' = rail
    BY <2>1 DEF FlowStep
  <2>3. sAt' = "send" /\ sRec' = [sRec EXCEPT !.attempted = TRUE, !.claims = {tx}] /\ sSaw' = sSaw
    BY <1>2 DEF BtcSignClaim
  <2> HIDE DEF tx
  <2>4. SellerInv'
    BY <2>0, <2>2, <2>3, Frame
  <2> QED
    BY <2>1, <2>4
<1>3. CASE BtcSendClaim
  <2>0. sRec.claims # {} /\ BtcClaim \in sRec.claims
    BY <1>3 DEF BtcSendClaim, BtcOnce, BtcClaim
  <2>a. BtcClaim \in Tx /\ BtcClaim.kind # "other"
    BY <2>0
  <2>1. FlowStep
    BY <1>3, <2>a, BtcSendIsFlow DEF BtcSendClaim, SSends, buyerSide
  <2>2. rail' = rail
    BY <2>1 DEF FlowStep
  <2>3. SellerInv'
    BY <1>0, <1>3, <2>0, <2>2, Frame DEF BtcSendClaim
  <2> QED
    BY <2>1, <2>3
<1>4. CASE BtcResumeClaim
  <2>1. FlowStep
    BY <1>4, LocalIsFlow DEF BtcResumeClaim
  <2>2. rail' = rail
    BY <2>1 DEF FlowStep
  <2>3. SellerInv'
    BY <1>0, <1>4, <2>2, Frame DEF BtcResumeClaim
  <2> QED
    BY <2>1, <2>3
<1>5. CASE BtcResendClaim
  <2>0. sRec.claims # {} /\ BtcClaim \in sRec.claims
    BY <1>5 DEF BtcResendClaim, BtcOnce, BtcClaim
  <2>a. BtcClaim \in Tx /\ BtcClaim.kind # "other"
    BY <2>0
  <2>1. FlowStep
    BY <1>5, <2>a, BtcSendIsFlow DEF BtcResendClaim, SSends, buyerSide
  <2>2. rail' = rail
    BY <2>1 DEF FlowStep
  <2>3. SellerInv'
    BY <1>0, <1>5, <2>0, <2>2, Frame DEF BtcResendClaim, MayBeOut
  <2> QED
    BY <2>1, <2>3
<1>6. CASE BtcResendTooLate
  <2>1. FlowStep
    BY <1>6, LocalIsFlow DEF BtcResendTooLate
  <2>2. rail' = rail
    BY <2>1 DEF FlowStep
  <2>3. SellerInv'
    BY <1>0, <1>6, <2>2, Frame DEF BtcResendTooLate, MayBeOut
  <2> QED
    BY <2>1, <2>3
<1>7. CASE BtcReveal
  <2>1. FlowStep
    BY <1>7 DEF BtcReveal, MayReveal, FlowStep, ChainInv, ChainTyped, chainView
  <2>2. rail' = rail
    BY <2>1 DEF FlowStep
  <2>3. SellerInv'
    BY <1>0, <1>7, <2>2, Frame DEF BtcReveal
  <2> QED
    BY <2>1, <2>3
<1>8. CASE BtcClaimIsMined
  <2>1. FlowStep
    BY <1>8, LocalIsFlow DEF BtcClaimIsMined
  <2>2. rail' = rail
    BY <2>1 DEF FlowStep
  <2>3. SellerInv'
    BY <1>0, <1>8, <2>2, Frame DEF BtcClaimIsMined
  <2> QED
    BY <2>1, <2>3
<1> QED
  BY <1>1, <1>2, <1>3, <1>4, <1>5, <1>6, <1>7, <1>8 DEF BtcSeller

-----------------------------------------------------------------------------

\* What a view's leg says of the transactions that ran in it.
ViewTold(view) ==
  /\ view.leg \in {"claiming", "claimed"} => view.shown
  /\ view.shown => \E tx \in view.done \cup view.failed : tx.kind = "claim"
  /\ view.leg \in {"refunding", "refunded"} =>
       now >= RefundAfter /\ \E tx \in view.done : tx.kind = "refund"
  /\ \A tx \in view.done : tx.kind = "claim" =>
       view.shown /\ (rail # "near" => view.leg = "claimed")
  /\ \A tx \in view.done : tx.kind = "refund" /\ rail # "near" => view.leg = "refunded"
  /\ \A tx \in view.failed : tx.kind = "claim" /\ rail = "sol" => view.shown

\* Both views tell the truth of their transactions.
Told == ViewTold(head) /\ ViewTold(fin)

\* An empty chain does.
LEMMA ToldInitially == LegInit => Told
BY DEF LegInit, Told, ViewTold, EmptyView

\* No step of a flow changes a view.
LEMMA FlowKeepsTold ==
  ASSUME Told, FlowStep
  PROVE  Told'
BY Frame DEF Told, ViewTold, FlowStep

\* A step that only makes a new head has only the head to answer for.
LEMMA NewHeadTold ==
  ASSUME Told, UNCHANGED <<rail, now, fin>>, ViewTold(head)'
  PROVE  Told'
BY Frame DEF Told, ViewTold

\* No step of the chain makes a view lie.
LEMMA ChainKeepsTold ==
  ASSUME ChainInv, Told, ChainStep
  PROVE  Told'
<1>0. now \in Nat /\ RefundAfter \in Nat /\ head \in View /\ rail \in {"btc", "near", "sol"}
  BY TermsTyped DEF ChainInv, ChainTyped
<1>1. CASE Advance
  <2>1. rail' = rail /\ now' = now + 1 /\ head' = head /\ fin' = head
    BY <1>1 DEF Advance
  <2> QED
    BY <1>0, <2>1, Frame DEF Told, ViewTold
<1>2. CASE NoteBack
  <2>1. UNCHANGED <<rail, now, head, fin>>
    BY <1>2 DEF NoteBack, chainView
  <2> QED
    BY <2>1, Frame DEF Told, ViewTold
<1>3. ASSUME rail = "btc", NEW tx \in handed, BtcMine(tx)
      PROVE  Told'
  <2>1. PICK leg \in {"locked", "claimed", "refunded"} :
          /\ BtcConfirms(tx, leg)
          /\ leg = "locked" => tx.kind = "lock" /\ head.leg = "none"
          /\ leg = "claimed" => tx.kind = "claim" /\ head.leg = "locked"
          /\ leg = "refunded" => tx.kind = "refund" /\ head.leg = "locked" /\ now >= RefundAfter
    BY <1>3 DEF BtcMine
  <2>2. /\ head'.done = head.done \cup {tx} /\ head'.failed = head.failed /\ head'.leg = leg
        /\ head'.shown <=> head.shown \/ tx.kind = "claim"
        /\ UNCHANGED <<rail, now, fin>>
    BY <1>0, <2>1 DEF BtcConfirms, ChainOnly, View
  <2>3. ViewTold(head)'
    BY <1>0, <1>3, <2>1, <2>2, Frame DEF Told, ViewTold
  <2> QED
    BY <2>2, <2>3, NewHeadTold
<1>4. CASE Fork
  BY <1>4, Frame DEF Fork, Told, ViewTold
<1>5. CASE Evict
  BY <1>5, Frame DEF Evict, Told, ViewTold
<1>6. CASE rail = "near" /\ NearOther
  <2> DEFINE tx == [kind |-> "other", n |-> NearNonce(head, "other") + 1, until |-> MaxTime]
  <2>1. /\ tx.kind = "other" /\ head' = [head EXCEPT !.done = @ \cup {tx}]
        /\ UNCHANGED <<rail, now, fin>>
    BY <1>6 DEF NearOther
  <2> HIDE DEF tx
  <2>2. /\ head'.done = head.done \cup {tx} /\ head'.failed = head.failed
        /\ head'.leg = head.leg /\ head'.shown = head.shown
    BY <1>0, <2>1 DEF View
  <2>3. ViewTold(head)'
    BY <1>6, <2>1, <2>2, Frame DEF Told, ViewTold
  <2> QED
    BY <2>1, <2>3, NewHeadTold
<1>7. ASSUME rail = "near", NEW tx \in handed, NearInclude(tx)
      PROVE  Told'
  <2>1. /\ head'.done = head.done /\ head'.failed = head.failed
        /\ head'.leg = head.leg /\ head'.shown = head.shown
        /\ UNCHANGED <<rail, now, fin>>
    BY <1>0, <1>7 DEF View, NearInclude, ChainOnly
  <2>2. ViewTold(head)'
    BY <2>1, Frame DEF Told, ViewTold
  <2> QED
    BY <2>1, <2>2, NewHeadTold
<1>8. ASSUME rail = "near", NEW tx \in head.running, NearExecute(tx)
      PROVE  Told'
  <2>1. tx.kind \in {"lock", "claim", "refund"}
    <3>1. tx \in Tx /\ tx \in handed /\ tx \notin head.done
      BY <1>8 DEF ChainInv, ChainTyped, View, ViewHolds, Included
    <3> QED
      BY <3>1, TxFields DEF ChainInv, OthersRan, Kinds
  <2>2. PICK leg \in {"locked", "claiming", "refunding"} :
          /\ NearRuns(tx, leg)
          /\ leg = "locked" => tx.kind = "lock" /\ head.leg = "none"
          /\ leg = "claiming" => tx.kind = "claim" /\ head.leg = "locked"
          /\ leg = "refunding" => tx.kind = "refund" /\ head.leg = "locked" /\ now >= RefundAfter
    BY <1>8, <2>1, NearAllowed
  <2>3. /\ head'.done = head.done \cup {tx} /\ head'.failed = head.failed /\ head'.leg = leg
        /\ head'.shown <=> head.shown \/ tx.kind = "claim"
        /\ UNCHANGED <<rail, now, fin>>
    BY <1>0, <2>2 DEF NearRuns, ChainOnly, View
  <2>4. ViewTold(head)'
    BY <1>0, <1>8, <2>2, <2>3, Frame DEF Told, ViewTold
  <2> QED
    BY <2>3, <2>4, NewHeadTold
<1>9. ASSUME rail = "near", NEW tx \in head.running, NearExecuteFails(tx)
      PROVE  Told'
  <2>1. /\ head'.done = head.done /\ head'.failed = head.failed \cup {tx}
        /\ head'.leg = head.leg /\ head'.shown = head.shown
        /\ UNCHANGED <<rail, now, fin>>
    BY <1>0, <1>9 DEF NearExecuteFails, ChainOnly, View
  <2>2. ViewTold(head)'
    BY <1>9, <2>1, Frame DEF Told, ViewTold
  <2> QED
    BY <2>1, <2>2, NewHeadTold
<1>10. CASE rail = "near" /\ (NearPayout \/ NearPayoutFails)
  <2>1. /\ head'.done = head.done /\ head'.failed = head.failed /\ head'.shown = head.shown
        /\ \/ head.leg = "claiming" /\ head'.leg \in {"claimed", "locked"}
           \/ head.leg = "refunding" /\ head'.leg \in {"refunded", "locked"}
        /\ UNCHANGED <<rail, now, fin>>
    BY <1>0, <1>10 DEF NearPayout, NearPayoutFails, ChainOnly, View
  <2>2. ViewTold(head)'
    BY <1>10, <2>1, Frame DEF Told, ViewTold
  <2> QED
    BY <2>1, <2>2, NewHeadTold
<1>11. ASSUME rail = "sol", NEW tx \in handed, SolLand(tx)
       PROVE  Told'
  <2>1. tx.kind \in {"lock", "claim", "refund"}
    BY <1>11, TxFields DEF ChainInv, ChainTyped, OthersRan, Kinds
  <2>2. PICK leg \in {"locked", "claimed", "refunded"} :
          /\ SolLandsAs(tx, leg)
          /\ leg = "locked" => tx.kind = "lock" /\ head.leg = "none"
          /\ leg = "claimed" => tx.kind = "claim" /\ head.leg = "locked"
          /\ leg = "refunded" => tx.kind = "refund" /\ head.leg = "locked" /\ now >= RefundAfter
    BY <1>11, <2>1, SolAllowed
  <2>3. /\ head'.done = head.done \cup {tx} /\ head'.failed = head.failed /\ head'.leg = leg
        /\ head'.shown <=> head.shown \/ tx.kind = "claim"
        /\ UNCHANGED <<rail, now, fin>>
    BY <1>0, <1>11, <2>2 DEF SolLandsAs, SolLand, ChainOnly, View
  <2>4. ViewTold(head)'
    BY <1>0, <1>11, <2>2, <2>3, Frame DEF Told, ViewTold
  <2> QED
    BY <2>3, <2>4, NewHeadTold
<1>12. ASSUME rail = "sol", NEW tx \in handed, SolLandFailed(tx)
       PROVE  Told'
  <2>1. /\ head'.done = head.done /\ head'.failed = head.failed \cup {tx} /\ head'.leg = head.leg
        /\ head'.shown <=> head.shown \/ tx.kind = "claim"
        /\ UNCHANGED <<rail, now, fin>>
    BY <1>0, <1>12 DEF SolLandFailed, ChainOnly, View
  <2>2. ViewTold(head)'
    BY <1>12, <2>1, Frame DEF Told, ViewTold
  <2> QED
    BY <2>1, <2>2, NewHeadTold
<1> QED
  BY <1>1, <1>2, <1>3, <1>4, <1>5, <1>6, <1>7, <1>8, <1>9, <1>10, <1>11, <1>12
     DEF ChainStep, NearChain

-----------------------------------------------------------------------------

\* Nothing is handed over at first.
LEMMA BtcInitially == LegInit => BtcOnce
BY DEF LegInit, BtcOnce, Nothing

\* The chain neither signs nor saves.
LEMMA BtcChainKeeps ==
  ASSUME ChainInv, BtcOnce, UNCHANGED <<handed, buyerSide, sellerSide>>
  PROVE  BtcOnce'
BY DEF BtcOnce, buyerSide, sellerSide, NoTx

\* A transaction that is signed is new, when none of its kind is handed.
LEMMA BtcRefundFinal ==
  ASSUME ChainInv, Told, BtcOnce, rail = "btc", fin.leg = "refunded"
  PROVE  bRec.refund # NoTx
<1>1. PICK tx \in fin.done : tx.kind = "refund"
  BY DEF Told, ViewTold
<1>2. tx \in handed /\ tx \in Tx
  BY DEF ChainInv, ChainTyped, ViewHolds, Included
<1> QED
  BY <1>1, <1>2, TxFields DEF BtcOnce

\* The Buyer's Bitcoin steps sign a transaction once and then send only it.
LEMMA BtcBuyerOnce ==
  ASSUME ChainInv, Told, BuyerInv, SellerInv, BtcOnce, rail = "btc",
         BtcBuyer \/ BtcTakeLegB \/ BuyerThrows
  PROVE  BtcOnce'
<1>0. /\ NoTx \notin Tx /\ NoTx.kind = "none" /\ NoTx.kind \notin Kinds
      /\ rail \in Rails /\ handed \in SUBSET Tx
      /\ bRec.lock \in Tx \cup {NoTx} /\ bRec.refund \in Tx \cup {NoTx}
  BY TxFields DEF NoTx, ChainInv, ChainTyped, Kinds, BuyerInv, BuyerRecord
<1>f. \A tx \in sRec.claims : tx.kind = "claim"
  BY DEF SellerInv
<1>g. NoTx' = NoTx /\ NoTx \notin handed
  BY <1>0 DEF NoTx
<1>s. \A saw : Saw("refund", saw, 0).saw = saw
  BY DEF Saw
<1>k. /\ bRec.lock # NoTx => bRec.lock.kind = "lock"
      /\ bRec.refund # NoTx => bRec.refund.kind = "refund"
  BY <1>0, TxFields DEF Kinds, BuyerInv, BuyerLoads
<1>a. DOMAIN bRec = {"attempted", "lock", "locked", "refunding", "refund", "refunded", "tookB", "done"}
  BY DEF BuyerInv, BuyerRecord
<1>b. fin.leg = "refunded" => bRec.refund # NoTx
  BY BtcRefundFinal
<1>c. bRec.lock.kind \in {"lock", "none"} /\ bRec.refund.kind \in {"refund", "none"}
  BY DEF BuyerInv, BuyerLoads
<1>d. /\ bAt \in {"recover", "observe", "failed"} => bRec.refunding
      /\ bAt \in {"send", "refund sent"} => bRec.refund # NoTx
      /\ bRec.lock # NoTx <=> bRec.attempted
      /\ bRec.refund # NoTx \/ bRec.refunded => bRec.refunding
      /\ bAt = "resend" => bRec.refund # NoTx
      /\ bAt = "lock" => bRec.lock # NoTx
  BY DEF BuyerInv, BuyerLoads, BuyerAt
<1>e. ASSUME NEW tx
      PROVE  /\ BtcAccepted(tx) \/ BtcRefused(tx) \/ BtcAnswerLost(tx) \/ SendsNothing
                  => handed' = handed \/ handed' = handed \cup {tx}
             /\ BtcRefused(tx) \/ SendsNothing => handed' = handed
  BY DEF BtcAccepted, BtcRefused, BtcAnswerLost, SendsNothing, Hand
<1> USE DEF BtcOnce, BGo, BSet
<1>1. CASE BtcLock
  <2> DEFINE tx == NextTx("lock", MaxTime)
  <2>1. \A other \in handed : other.kind # "lock"
    BY <1>0, <1>d, <1>1 DEF BtcLock, PrepareLock
  <2>2. tx.kind = "lock"
    BY DEF NextTx
  <2>3. UNCHANGED <<handed, sellerSide, bSaw>>
    BY <1>1 DEF BtcLock, PrepareLock, BLocal, chainView
  <2>4. bAt = "idle" /\ bAt' = "lock" /\ bRec' = [bRec EXCEPT !.attempted = TRUE, !.lock = tx]
    BY <1>1 DEF BtcLock, PrepareLock
  <2> HIDE DEF tx
  <2> QED
    BY <1>0, <1>a, <1>c, <1>d, <2>1, <2>2, <2>3, <2>4 DEF sellerSide
<1>2. CASE BtcRecoverLock
  BY <1>0, <1>a, <1>b, <1>c, <1>d, <1>2, ZenonT(60) DEF BtcRecoverLock, BLocal, chainView, sellerSide
<1>3. CASE BtcSendLock
  <2>1. handed' = handed \/ handed' = handed \cup {bRec.lock}
    BY <1>3, <1>e DEF BtcSendLock
  <2>2. UNCHANGED <<sellerSide, bSaw>> /\ bAt = "lock" /\ bAt' = "idle"
    BY <1>3 DEF BtcSendLock, BSends
  <2>3. bRec' = bRec \/ bRec' = [bRec EXCEPT !.locked = TRUE]
    BY <1>3 DEF BtcSendLock
  <2>4. bRec.lock.kind = "lock"
    BY <1>k, <1>d, <2>2
  <2> QED
    BY <1>g, <1>a, <1>f, <2>1, <2>2, <2>3, <2>4 DEF sellerSide
<1>4. CASE BtcRefundLegA
  <2>1. UNCHANGED <<handed, bRec, sellerSide, bSaw>>
    BY <1>4 DEF BtcRefundLegA, RefundLegA, BLocal, chainView
  <2>2. \/ bAt' = "ifDropped"
        \/ bAt' = "recover" /\ ~bRec.refunded
        \/ bAt' = "sign" /\ ~bRec.refunded /\ ~bRec.refunding
    BY <1>4 DEF BtcRefundLegA, RefundLegA
  <2> QED
    BY <1>0, <1>d, <2>1, <2>2 DEF sellerSide
<1>5. CASE BtcRecoverRefund
  <2>1. UNCHANGED <<handed, bRec, sellerSide>> /\ bAt = "recover"
    BY <1>5 DEF BtcRecoverRefund, BLocal, chainView
  <2>2. \/ bAt' = "observe" /\ bSaw'.saw = "no handle" /\ bRec.refund = NoTx
        \/ bAt' = "observe" /\ bSaw'.saw = "never-landed"
        \/ bAt' = "resend"
    BY <1>5, <1>s DEF BtcRecoverRefund
  <2> QED
    BY <1>g, <2>1, <2>2 DEF sellerSide
<1>6. CASE BtcResendRefund
  <2>1. handed' = handed \/ handed' = handed \cup {bRec.refund}
    BY <1>6, <1>e DEF BtcResendRefund
  <2>2. UNCHANGED <<bRec, sellerSide>> /\ bAt = "resend"
    BY <1>6 DEF BtcResendRefund, BSends
  <2>3. bAt' = "idle" \/ (bAt' = "observe" /\ bSaw'.saw = "never-landed")
    BY <1>6, <1>s DEF BtcResendRefund
  <2>4. bRec.refund.kind = "refund"
    BY <1>k, <1>d, <2>2
  <2> QED
    BY <1>g, <1>f, <2>1, <2>2, <2>3, <2>4 DEF sellerSide
<1>7. CASE BtcSignRefund
  <2> DEFINE tx == NextTx("refund", MaxTime)
  <2>1. \A other \in handed : other.kind # "refund"
    BY <1>0, <1>7 DEF BtcSignRefund
  <2>2. tx.kind = "refund"
    BY DEF NextTx
  <2>3. tx # NoTx /\ tx \notin handed
    BY <1>0, <2>1, <2>2
  <2>4. UNCHANGED <<handed, sellerSide, bSaw>>
    BY <1>7 DEF BtcSignRefund, BLocal, chainView
  <2>5. \/ bAt = "sign" /\ bAt' = "send" /\ bRec' = [bRec EXCEPT !.refunding = TRUE, !.refund = tx]
        \/ bAt = "sign" /\ bAt' = "failed" /\ bRec' = [bRec EXCEPT !.refunding = TRUE]
    BY <1>7 DEF BtcSignRefund
  <2> HIDE DEF tx
  <2> QED
    BY <1>0, <1>a, <1>c, <2>1, <2>3, <2>4, <2>5 DEF sellerSide
<1>8. CASE BtcSendRefund
  <2>1. handed' = handed \/ handed' = handed \cup {bRec.refund}
    BY <1>8, <1>e DEF BtcSendRefund
  <2>2. UNCHANGED <<sellerSide, bSaw>> /\ bAt = "send" /\ bRec.refund \notin handed /\ bRec.refund # NoTx
    BY <1>8, <1>d DEF BtcSendRefund, BSends
  <2>3. \/ bAt' = "verify" /\ bRec' = [bRec EXCEPT !.refunded = TRUE]
        \/ bAt' = "failed" /\ handed' = handed /\ bRec' = [bRec EXCEPT !.refund = NoTx]
        \/ bAt' = "failed" /\ bRec' = bRec
    BY <1>8, <1>e DEF BtcSendRefund
  <2>4. bRec.refund.kind = "refund"
    BY <1>k, <2>2
  <2> QED
    BY <1>g, <1>a, <1>f, <2>1, <2>2, <2>3, <2>4, ZenonT(60) DEF sellerSide
<1>9. CASE BtcResendIfDropped
  <2>1. handed' = handed \/ handed' = handed \cup {bRec.refund}
    BY <1>9, <1>e DEF BtcResendIfDropped
  <2>2. UNCHANGED <<bRec, sellerSide, bSaw>> /\ bAt = "ifDropped" /\ bAt' \in {"verify", "idle"}
    BY <1>9 DEF BtcResendIfDropped, BSends
  <2>3. bRec.refund # NoTx
    BY <2>2 DEF BuyerInv, BuyerAt
  <2>4. bRec.refund.kind = "refund"
    BY <1>k, <2>3
  <2> QED
    BY <1>g, <1>f, <2>1, <2>2, <2>4 DEF sellerSide
<1>10. CASE BtcTakeLegB
  BY <1>0, <1>a, <1>b, <1>c, <1>d, <1>10 DEF BtcTakeLegB, TakeLegB, chainView, sellerSide
<1>11. CASE RecoverRefundA
  BY <1>0, <1>a, <1>b, <1>c, <1>d, <1>11, ZenonT(60) DEF RecoverRefundA, SeenRefunded, SeenClaimed, SeenNeither, FreshRefund, Nothing, BLocal, chainView, sellerSide
<1>12. CASE RefundFailed
  BY <1>0, <1>a, <1>b, <1>c, <1>d, <1>12, ZenonT(60) DEF RefundFailed, SeenRefunded, SeenClaimed, SeenNeither, BLocal, chainView, sellerSide
<1>13. CASE ReportRefund
  BY <1>0, <1>a, <1>b, <1>c, <1>d, <1>13, ZenonT(60) DEF ReportRefund, SeenRefunded, SeenClaimed, SeenNeither, BLocal, chainView, sellerSide
<1>14. CASE BuyerThrows
  BY <1>0, <1>a, <1>b, <1>c, <1>d, <1>14 DEF BuyerThrows, chainView, sellerSide
<1> QED
  BY <1>1, <1>2, <1>3, <1>4, <1>5, <1>6, <1>7, <1>8, <1>9, <1>10, <1>11, <1>12, <1>13, <1>14
     DEF BtcBuyer

\* The Seller's Bitcoin steps sign one claim and then send only it.
LEMMA BtcSellerOnce ==
  ASSUME ChainInv, SellerInv, BtcOnce, BuyerInv, rail = "btc", BtcSeller \/ SellerThrows
  PROVE  BtcOnce'
<1>0. /\ rail \in Rails /\ handed \in SUBSET Tx /\ NoTx' = NoTx
      /\ DOMAIN sRec = {"attempted", "claims", "sent", "starved", "public", "landed"}
  BY DEF ChainInv, ChainTyped, SellerInv, SellerRecord, NoTx
<1>a. sRec.claims # {} => BtcClaim \in sRec.claims
  BY DEF BtcClaim
<1>b. \A tx \in sRec.claims : tx.kind = "claim"
  BY DEF SellerInv
<1>c. bRec.refund.kind \in {"refund", "none"}
  BY DEF BuyerInv, BuyerLoads
<1>e. /\ BtcAccepted(BtcClaim) \/ BtcRefused(BtcClaim) \/ BtcAnswerLost(BtcClaim) \/ SendsNothing
           => handed' = handed \/ handed' = handed \cup {BtcClaim}
      /\ BtcRefused(BtcClaim) \/ SendsNothing => handed' = handed
  BY DEF BtcAccepted, BtcRefused, BtcAnswerLost, SendsNothing, Hand
<1> USE DEF BtcOnce, SGo, SSet
<1>1. CASE BtcClaimLegA
  BY <1>0, <1>a, <1>b, <1>1 DEF BtcClaimLegA, SLocal, chainView, buyerSide
<1>2. CASE BtcSignClaim
  <2> DEFINE tx == NextTx("claim", MaxTime)
  <2>1. tx.kind = "claim" /\ \A other \in handed : other.kind # "claim"
    BY <1>2 DEF BtcSignClaim, NextTx
  <2>2. UNCHANGED <<handed, buyerSide>>
    BY <1>2 DEF BtcSignClaim, SLocal, chainView
  <2>3. sAt' = "send" /\ sRec' = [sRec EXCEPT !.attempted = TRUE, !.claims = {tx}]
    BY <1>2 DEF BtcSignClaim
  <2> HIDE DEF tx
  <2> QED
    BY <1>0, <2>1, <2>2, <2>3 DEF buyerSide
<1>3. CASE BtcSendClaim
  <2>1. BtcClaim \in sRec.claims /\ BtcClaim.kind = "claim"
    BY <1>a, <1>b, <1>3 DEF BtcSendClaim
  <2>2. UNCHANGED buyerSide /\ (handed' = handed \/ handed' = handed \cup {BtcClaim})
    BY <1>3, <1>e DEF BtcSendClaim, SSends
  <2>3. sAt = "send" /\ sRec.claims \cap handed = {} /\ sAt' \in {"settle", "idle"}
    BY <1>3 DEF BtcSendClaim
  <2>4. \/ sRec' = [sRec EXCEPT !.sent = TRUE]
        \/ handed' = handed /\ sRec' = [sRec EXCEPT !.claims = {}]
        \/ sRec' = sRec
    BY <1>3, <1>e DEF BtcSendClaim
  <2> HIDE DEF BtcClaim
  <2>5. sRec'.claims = sRec.claims \/ (sRec'.claims = {} /\ handed' = handed)
    BY <1>0, <2>4
  <2>6. NoTx' = NoTx /\ (bAt = "send" => bRec.refund \notin handed')
    BY <1>0, <2>1, <2>2, <2>3, <1>c DEF buyerSide
  <2> QED
    BY <2>1, <2>2, <2>3, <2>5, <2>6 DEF buyerSide
<1>4. CASE BtcResumeClaim
  BY <1>0, <1>a, <1>b, <1>4 DEF BtcResumeClaim, SLocal, chainView, buyerSide
<1>5. CASE BtcResendClaim
  <2>1. BtcClaim \in sRec.claims /\ BtcClaim.kind = "claim"
    BY <1>a, <1>b, <1>5 DEF BtcResendClaim
  <2>2. UNCHANGED buyerSide /\ (handed' = handed \/ handed' = handed \cup {BtcClaim})
    BY <1>5, <1>e DEF BtcResendClaim, SSends
  <2>3. sAt' \in {"settle", "idle"} /\ sRec'.claims = sRec.claims
    BY <1>0, <1>5 DEF BtcResendClaim
  <2>6. NoTx' = NoTx /\ (bAt = "send" => bRec.refund \notin handed')
    BY <1>0, <2>1, <2>2, <1>c DEF buyerSide
  <2> QED
    BY <2>1, <2>2, <2>3, <2>6 DEF buyerSide
<1>6. CASE BtcResendTooLate
  BY <1>0, <1>a, <1>b, <1>6 DEF BtcResendTooLate, SLocal, chainView, buyerSide
<1>7. CASE BtcReveal
  BY <1>0, <1>a, <1>b, <1>7 DEF BtcReveal, chainView, buyerSide
<1>8. CASE BtcClaimIsMined
  BY <1>0, <1>a, <1>b, <1>8 DEF BtcClaimIsMined, SLocal, chainView, buyerSide
<1>9. CASE SellerThrows
  BY <1>0, <1>a, <1>b, <1>9 DEF SellerThrows, chainView, buyerSide
<1> QED
  BY <1>1, <1>2, <1>3, <1>4, <1>5, <1>6, <1>7, <1>8, <1>9 DEF BtcSeller

-----------------------------------------------------------------------------

\* A send on Solana hands over at most the one transaction.
LEMMA SolSendIsFlow ==
  ASSUME ChainInv, NEW tx \in Tx, tx.kind # "other",
         UNCHANGED <<rail, now, note, head, fin, room>>,
         SolHand(tx) \/ SendsNothing
  PROVE  FlowStep
<1>1. faults' \in 0..MaxFaults /\ pool' = pool /\ (handed' = handed \/ handed' = handed \cup {tx})
  BY DEF SolHand, SendsNothing, ChainInv, ChainTyped
<1> QED
  BY <1>1, SendIsFlow

\* The next transaction on Solana is one of Tx while there is room for it.
LEMMA SolSigned ==
  ASSUME rail \in Rails, now \in Nat, handed \in SUBSET Tx, NEW kind \in Kinds, SolMaySign(kind)
  PROVE  /\ SolNext(kind) \in Tx /\ SolNext(kind).kind = kind
         /\ SolNext(kind).until = now + ValidFor
         /\ SolNext(kind).n = 1 + Cardinality(Handed(kind))
<1>1. now + ValidFor \in 0..MaxTime
  BY TermsTyped DEF SolMaySign
<1> QED
  BY <1>1, SignedTx DEF SolMaySign, SolNext

\* The Buyer's Solana steps keep BuyerInv.
LEMMA SolBuyerKeeps ==
  ASSUME ChainInv, BuyerInv, rail = "sol", SolBuyer \/ SolTakeLegB
  PROVE  BuyerInv' /\ FlowStep
<1>0. /\ NoTx \notin Tx /\ NoTx.kind = "none" /\ NoTx.kind \notin Kinds
      /\ rail \in Rails /\ handed \in SUBSET Tx
  BY TxFields DEF NoTx, ChainInv, ChainTyped, Kinds
<1>a. now \in Nat
  BY <1>0, TermsTyped DEF ChainInv, ChainTyped
<1>b. ASSUME NEW kind \in {"lock", "refund"}, SolMaySign(kind)
      PROVE  SolNext(kind) \in Tx /\ SolNext(kind).kind = kind
  <2>1. kind \in Kinds
    BY DEF Kinds
  <2> QED
    BY <1>0, <1>a, <1>b, <2>1, SolSigned
<1>k. /\ bRec.lock \in Tx \cup {NoTx} /\ bRec.lock.kind \in {"lock", "none"}
      /\ bRec.refund \in Tx \cup {NoTx} /\ bRec.refund.kind \in {"refund", "none"}
      /\ bAt \in {"send", "refund sent"} => bRec.refund # NoTx
      /\ bAt \in {"lock", "sent"} => bRec.lock # NoTx
  BY DEF BuyerInv, BuyerRecord, BuyerLoads, BuyerAt
<1> USE DEF BuyerInv, BuyerLoads, BuyerAt, BuyerRecord, BGo, BSet
<1>1. CASE SolLock
  <2> DEFINE tx == SolNext("lock")
  <2>0. tx \in Tx /\ tx.kind = "lock" /\ tx # NoTx
    BY <1>0, <1>1, <1>b DEF SolLock
  <2>1. FlowStep
    BY <1>1, LocalIsFlow DEF SolLock, PrepareLock
  <2>2. rail' = rail
    BY <2>1 DEF FlowStep
  <2> HIDE DEF tx
  <2>3. BuyerInv'
    BY <1>0, <1>1, <2>0, <2>2, Frame DEF SolLock, PrepareLock, tx
  <2> QED
    BY <2>1, <2>3
<1>2. CASE SolSendLock
  <2>0. bRec.lock \in Tx /\ bRec.lock.kind # "other"
    BY <1>0, <1>k, <1>2 DEF SolSendLock
  <2>1. FlowStep
    BY <1>2, <2>0, SolSendIsFlow DEF SolSendLock, BSends, sellerSide
  <2>2. rail' = rail
    BY <2>1 DEF FlowStep
  <2>3. BuyerInv'
    BY <1>0, <1>2, <2>0, <2>2, Frame DEF SolSendLock
  <2> QED
    BY <2>1, <2>3
<1>3. CASE SolLockSent
  <2>1. FlowStep
    BY <1>3, LocalIsFlow DEF SolLockSent
  <2>2. rail' = rail
    BY <2>1 DEF FlowStep
  <2>3. BuyerInv'
    BY <1>0, <1>3, <2>2, Frame DEF SolLockSent
  <2> QED
    BY <2>1, <2>3
<1>4. CASE SolRecoverLock
  <2> DEFINE tx == SolNext("lock")
  <2>0. SolMaySign("lock") => tx \in Tx /\ tx.kind = "lock" /\ tx # NoTx
    BY <1>0, <1>b
  <2>1. FlowStep
    BY <1>4, LocalIsFlow DEF SolRecoverLock
  <2>2. rail' = rail /\ bSaw' = bSaw /\ bRec.attempted
    BY <1>4, <2>1 DEF FlowStep, SolRecoverLock
  <2>3. \/ bAt' = "idle" /\ bRec' = [bRec EXCEPT !.locked = TRUE]
        \/ bAt' = "lock" /\ SolMaySign("lock") /\ bRec' = [bRec EXCEPT !.lock = tx]
    BY <1>4 DEF SolRecoverLock
  <2> HIDE DEF tx
  <2>4. BuyerInv'
    BY <1>0, <2>0, <2>2, <2>3, Frame, ZenonT(60)
  <2> QED
    BY <2>1, <2>4
<1>5. CASE SolRefundLegA
  <2>1. SharedBuyer
    BY <1>5 DEF SolRefundLegA, RefundLegA, SharedBuyer
  <2> QED
    BY <2>1, SharedBuyerKeeps
<1>6. CASE SolRecoverRefund
  <2>1. FlowStep
    BY <1>6, LocalIsFlow DEF SolRecoverRefund
  <2>2. rail' = rail
    BY <2>1 DEF FlowStep
  <2>3. BuyerInv'
    BY <1>0, <1>6, <2>2, Frame DEF SolRecoverRefund, Saw
  <2> QED
    BY <2>1, <2>3
<1>7. CASE SolSignRefund
  <2> DEFINE tx == SolNext("refund")
  <2>0. SolMaySign("refund") => tx \in Tx /\ tx.kind = "refund" /\ tx # NoTx
    BY <1>0, <1>b
  <2>1. FlowStep
    BY <1>7, LocalIsFlow DEF SolSignRefund
  <2>2. rail' = rail /\ bSaw' = bSaw
    BY <1>7, <2>1 DEF FlowStep, SolSignRefund
  <2>3. \/ bAt = "sign" /\ bAt' = "failed" /\ bRec' = [bRec EXCEPT !.refunding = TRUE]
        \/ /\ bAt = "sign" /\ bAt' = "send" /\ SolMaySign("refund")
           /\ bRec' = [bRec EXCEPT !.refunding = TRUE, !.refund = tx]
    BY <1>7 DEF SolSignRefund
  <2> HIDE DEF tx
  <2>4. BuyerInv'
    BY <1>0, <2>0, <2>2, <2>3, Frame, ZenonT(60)
  <2> QED
    BY <2>1, <2>4
<1>8. CASE SolSendRefund
  <2>0. bRec.refund \in Tx /\ bRec.refund.kind # "other"
    BY <1>0, <1>k, <1>8 DEF SolSendRefund
  <2>1. FlowStep
    BY <1>8, <2>0, SolSendIsFlow DEF SolSendRefund, BSends, sellerSide
  <2>2. rail' = rail
    BY <2>1 DEF FlowStep
  <2>3. BuyerInv'
    BY <1>0, <1>8, <2>0, <2>2, Frame DEF SolSendRefund
  <2> QED
    BY <2>1, <2>3
<1>9. CASE SolRefundSent
  <2>1. FlowStep
    BY <1>9, LocalIsFlow DEF SolRefundSent
  <2>2. rail' = rail
    BY <2>1 DEF FlowStep
  <2>3. BuyerInv'
    BY <1>0, <1>9, <2>2, Frame DEF SolRefundSent
  <2> QED
    BY <2>1, <2>3
<1>10. CASE SolTakeLegB
  <2>1. SharedBuyer
    BY <1>10 DEF SolTakeLegB, TakeLegB, SharedBuyer
  <2> QED
    BY <2>1, SharedBuyerKeeps
<1>11. CASE RecoverRefundA \/ RefundFailed \/ ReportRefund
  BY <1>11, SharedBuyerKeeps DEF SharedBuyer
<1> QED
  BY <1>1, <1>2, <1>3, <1>4, <1>5, <1>6, <1>7, <1>8, <1>9, <1>10, <1>11 DEF SolBuyer

\* A post to the room hands nothing over.
LEMMA RoomIsFlow ==
  ASSUME ChainInv, UNCHANGED <<rail, now, note, chainView, faults>>, MayReveal \/ UNCHANGED room
  PROVE  FlowStep
BY DEF ChainInv, ChainTyped, MayReveal, FlowStep, chainView

\* The Seller's Solana steps keep SellerInv.
LEMMA SolSellerKeeps ==
  ASSUME ChainInv, SellerInv, rail = "sol", SolSeller
  PROVE  SellerInv' /\ FlowStep
<1>0. rail \in Rails /\ handed \in SUBSET Tx
  BY DEF ChainInv, ChainTyped
<1>a. now \in Nat
  BY <1>0, TermsTyped DEF ChainInv, ChainTyped
<1> USE DEF SellerInv, SellerRecord, SGo, SSet
<1>1. CASE SolResolve
  <2>1. FlowStep
    BY <1>1, RoomIsFlow DEF SolResolve
  <2>2. rail' = rail
    BY <2>1 DEF FlowStep
  <2>4. PICK tx \in sRec.claims :
          \/ sRec' = [sRec EXCEPT !.claims = {}, !.landed = TRUE]
          \/ sRec' = [sRec EXCEPT !.claims = sRec.claims \ {tx}, !.starved = TRUE]
          \/ sRec' = [sRec EXCEPT !.claims = sRec.claims \ {tx}, !.public = TRUE]
    BY <1>1 DEF SolResolve
  <2>5. sAt = "idle" /\ UNCHANGED <<sAt, sSaw>>
    BY <1>1 DEF SolResolve
  <2>3. SellerInv'
    BY <2>2, <2>4, <2>5, Frame, ZenonT(60)
  <2> QED
    BY <2>1, <2>3
<1>2. CASE SolClaimLegA
  <2>1. FlowStep
    BY <1>2, RoomIsFlow DEF SolClaimLegA
  <2>2. rail' = rail
    BY <2>1 DEF FlowStep
  <2>3. SellerInv'
    BY <1>0, <1>2, <2>2, Frame DEF SolClaimLegA, Saw
  <2> QED
    BY <2>1, <2>3
<1>3. CASE SolSignClaim
  <2> DEFINE tx == SolNext("claim")
  <2>0. tx \in Tx /\ tx.kind = "claim"
    BY <1>0, <1>a, <1>3, SolSigned DEF SolSignClaim, Kinds
  <2>1. FlowStep
    BY <1>3, LocalIsFlow DEF SolSignClaim
  <2>2. rail' = rail
    BY <2>1 DEF FlowStep
  <2>3. sAt = "sign" /\ sAt' = "send" /\ sRec' = [sRec EXCEPT !.claims = @ \cup {tx}] /\ sSaw' = [sSaw EXCEPT !.at = tx]
    BY <1>3 DEF SolSignClaim
  <2>4. sSaw'.at = tx
    BY <2>3
  <2> HIDE DEF tx
  <2>5. SellerInv'
    BY <2>0, <2>2, <2>3, <2>4, Frame
  <2> QED
    BY <2>1, <2>5
<1>4. CASE SolClaimNotSigned
  <2>1. FlowStep
    BY <1>4, LocalIsFlow DEF SolClaimNotSigned
  <2>2. rail' = rail
    BY <2>1 DEF FlowStep
  <2>3. SellerInv'
    BY <1>0, <1>4, <2>2, Frame DEF SolClaimNotSigned, Nothing
  <2> QED
    BY <2>1, <2>3
<1>5. CASE SolSendClaim
  <2>0. sSaw.at \in Tx /\ sSaw.at.kind # "other"
    BY <1>5 DEF SolSendClaim
  <2>1. FlowStep
    BY <1>5, <2>0, SolSendIsFlow DEF SolSendClaim, SSends, buyerSide
  <2>2. rail' = rail
    BY <2>1 DEF FlowStep
  <2>3. SellerInv'
    BY <1>5, <2>2, Frame DEF SolSendClaim, Nothing
  <2> QED
    BY <2>1, <2>3
<1>6. CASE SolClaimSent
  <2>1. FlowStep
    BY <1>6, RoomIsFlow DEF SolClaimSent
  <2>2. rail' = rail
    BY <2>1 DEF FlowStep
  <2>3. SellerInv'
    BY <1>0, <1>6, <2>2, Frame, ZenonT(60) DEF SolClaimSent, SolSignAgain, SolGiveUp, Nothing, Saw
  <2> QED
    BY <2>1, <2>3
<1> QED
  BY <1>1, <1>2, <1>3, <1>4, <1>5, <1>6 DEF SolSeller

-----------------------------------------------------------------------------

\* The handle the Buyer looks up on NEAR is one of Tx.
LEMMA NearHandle ==
  ASSUME BuyerInv, rail = "near",
         bAt \in {"look", "look again", "key again", "settle", "resend", "resent"}
  PROVE  /\ Handle \in Tx /\ Handle.kind = bSaw.of /\ bSaw.of \in {"lock", "refund"}
         /\ bSaw.of = "lock" => bRec.attempted /\ Handle = bRec.lock
         /\ bSaw.of = "refund" => bRec.refund # NoTx /\ bRec.refunding /\ Handle = bRec.refund
<1>1. \/ bSaw.of = "lock" /\ bRec.attempted /\ bRec.lock # NoTx
      \/ bSaw.of = "refund" /\ bRec.refund # NoTx /\ bRec.refunding
  BY DEF BuyerInv, BuyerLoads, BuyerAt
<1>2. /\ bRec.lock \in Tx \cup {NoTx} /\ bRec.refund \in Tx \cup {NoTx}
      /\ bRec.lock.kind \in {"lock", "none"} /\ bRec.refund.kind \in {"refund", "none"}
  BY DEF BuyerInv, BuyerRecord, BuyerLoads
<1>3. \A tx \in Tx : tx.kind # "none"
  BY TxFields DEF Kinds
<1> QED
  BY <1>1, <1>2, <1>3 DEF Handle

\* One of the answers to a NEAR look-up.
NearAnswered == \E answer : NearAnswer(bAt, answer)

\* An answer changes the Buyer's place, and nothing else.
LEMMA NearAnswerKeeps ==
  ASSUME ChainInv, BuyerInv, rail = "near", rail' = rail, NearAnswered,
         bAt \in {"look", "look again", "key again", "settle", "resend", "resent"}
  PROVE  BuyerInv'
<1> PICK answer : NearAnswer(bAt, answer)
  BY DEF NearAnswered
<1>0. NoTx \notin Tx /\ NoTx' = NoTx /\ rail \in Rails /\ fin \in View
  BY TxFields DEF NoTx, ChainInv, ChainTyped
<1>1. CASE bSaw.of = "refund" /\ bAt' = "observe" /\ bSaw' = Saw("refund", answer, 0) /\ bRec' = bRec
  <2>1. bRec.refunding /\ DOMAIN bSaw' = {"of", "saw", "at"}
    BY <1>1, NearHandle DEF Saw
  <2> QED
    BY <1>0, <1>1, <2>1, Frame DEF BuyerInv, BuyerLoads, BuyerAt
<1>2. CASE /\ bSaw.of = "lock" /\ bSaw' = Nothing /\ bAt' = "lock" /\ NearMaySign("lock")
           /\ bRec' = [bRec EXCEPT !.lock = NearNext("lock")]
  <2>1. bRec.attempted /\ NearNext("lock") \in Tx /\ NearNext("lock").kind = "lock"
    BY <1>0, <1>2, NearHandle, NearSigned DEF Kinds
  <2>2. NearNext("lock") # NoTx
    BY <1>0, <2>1
  <2> HIDE DEF NearNext
  <2> QED
    BY <1>0, <1>2, <2>1, <2>2, Frame DEF BuyerInv, BuyerRecord, BuyerLoads, BuyerAt, Nothing
<1>3. CASE /\ bSaw.of = "lock" /\ bSaw' = Nothing /\ bAt' = "idle"
           /\ bRec' = [bRec EXCEPT !.locked = answer = "landed"]
  <2>1. bRec.attempted
    BY <1>3, NearHandle
  <2> QED
    BY <1>0, <1>3, <2>1, Frame DEF BuyerInv, BuyerRecord, BuyerLoads, BuyerAt, Nothing
<1> QED
  BY <1>1, <1>2, <1>3 DEF NearAnswer, BGo, BSet

\* What the Buyer learns from a read of its access key.
LEMMA NearReadKeySees ==
  ASSUME NEW tx, NEW from, NEW to, NearReadKey(tx, from, to)
  PROVE  bSaw'.of = tx.kind
<1> PICK saw : bSaw' = Saw(tx.kind, saw, now - 1)
  BY DEF NearReadKey
<1> QED
  BY DEF Saw

\* The Buyer's NEAR steps keep BuyerInv.
LEMMA NearBuyerKeeps ==
  ASSUME ChainInv, BuyerInv, rail = "near", NearBuyer
  PROVE  BuyerInv' /\ FlowStep
<1>0. /\ NoTx \notin Tx /\ NoTx.kind = "none" /\ NoTx.kind \notin Kinds
      /\ rail \in Rails /\ handed \in SUBSET Tx
  BY TxFields DEF NoTx, ChainInv, ChainTyped, Kinds
<1>b. ASSUME NEW kind \in {"lock", "refund"}, NearMaySign(kind)
      PROVE  NearNext(kind) \in Tx /\ NearNext(kind).kind = kind
  <2>1. kind \in Kinds /\ fin \in View
    BY DEF Kinds, ChainInv, ChainTyped
  <2> QED
    BY <1>0, <1>b, <2>1, NearSigned
<1>k. /\ bRec.lock \in Tx \cup {NoTx} /\ bRec.lock.kind \in {"lock", "none"}
      /\ bRec.refund \in Tx \cup {NoTx} /\ bRec.refund.kind \in {"refund", "none"}
      /\ bAt \in {"send", "refund sent"} => bRec.refund # NoTx
      /\ bAt \in {"lock", "sent"} => bRec.lock # NoTx
  BY DEF BuyerInv, BuyerRecord, BuyerLoads, BuyerAt
<1>l. bRec.lock # NoTx => bRec.lock.kind = "lock"
  BY <1>0, <1>k, TxFields
<1>r. bRec.refund # NoTx => bRec.refund.kind = "refund"
  BY <1>0, <1>k, TxFields
<1>m. faults \in 0..MaxFaults /\ MaxFaults \in Nat /\ (Fault => faults' \in 0..MaxFaults)
  <2>1. faults \in 0..MaxFaults /\ MaxFaults \in Nat
    BY TermsTyped DEF ChainInv, ChainTyped
  <2> QED
    BY <2>1 DEF Fault
<1>s. \A of, saw, at : Saw(of, saw, at).of = of /\ DOMAIN Saw(of, saw, at) = {"of", "saw", "at"}
  BY DEF Saw
<1>n. ASSUME bAt \in {"look", "look again", "key again", "settle", "resend", "resent"},
             rail' = rail, NearAnswered
      PROVE  BuyerInv'
  BY <1>n, NearAnswerKeeps
<1>h. bAt \in {"look", "look again", "key again", "settle", "resend", "resent"} =>
        Handle \in Tx /\ Handle.kind = bSaw.of /\ Handle.kind # "other"
  BY NearHandle
<1> USE DEF BuyerInv, BuyerLoads, BuyerAt, BuyerRecord, BGo, BSet
<1>1. CASE NearLock
  <2> DEFINE tx == NearNext("lock")
  <2>0. tx \in Tx /\ tx.kind = "lock" /\ tx # NoTx
    BY <1>0, <1>1, <1>b DEF NearLock
  <2>1. FlowStep
    BY <1>1, LocalIsFlow DEF NearLock, PrepareLock
  <2>2. rail' = rail
    BY <2>1 DEF FlowStep
  <2> HIDE DEF tx
  <2>3. BuyerInv'
    BY <1>0, <1>1, <2>0, <2>2, Frame DEF NearLock, PrepareLock, tx
  <2> QED
    BY <2>1, <2>3
<1>2. CASE NearSendLock
  <2>0. bRec.lock \in Tx /\ bRec.lock.kind # "other"
    BY <1>0, <1>k, <1>2 DEF NearSendLock
  <2>1. FlowStep
    <3>1. /\ faults' \in 0..MaxFaults /\ pool' = pool /\ (handed' = handed \/ handed' = handed \cup {bRec.lock})
          /\ UNCHANGED <<rail, now, note, head, fin, room>>
      BY <1>2, <1>m DEF NearSendLock, NearHand, SendsNothing, Fault, BSends
    <3> QED
      BY <2>0, <3>1, SendIsFlow
  <2>2. rail' = rail
    BY <2>1 DEF FlowStep
  <2>3. BuyerInv'
    BY <1>0, <1>2, <2>0, <2>2, Frame DEF NearSendLock
  <2> QED
    BY <2>1, <2>3
<1>3. CASE NearLockSent
  <2>1. FlowStep
    BY <1>3, LocalIsFlow DEF NearLockSent
  <2>2. rail' = rail
    BY <2>1 DEF FlowStep
  <2>3. BuyerInv'
    BY <1>0, <1>3, <2>2, Frame, ZenonT(60) DEF NearLockSent
  <2> QED
    BY <2>1, <2>3
<1>4. CASE NearRecoverLock
  <2>1. FlowStep
    BY <1>4, LocalIsFlow DEF NearRecoverLock, NearReadKey
  <2>2. rail' = rail
    BY <2>1 DEF FlowStep
  <2>3. /\ bRec' = bRec /\ bAt' = "look" /\ bRec.attempted
        /\ bSaw'.of = "lock" /\ DOMAIN bSaw' = {"of", "saw", "at"}
    BY <1>4, <1>l, <1>s DEF NearRecoverLock, NearReadKey
  <2>4. BuyerInv'
    BY <1>0, <2>2, <2>3, Frame
  <2> QED
    BY <2>1, <2>4
<1>5. CASE NearRecoverRefund
  <2>1. FlowStep
    BY <1>5, LocalIsFlow DEF NearRecoverRefund, NearReadKey
  <2>2. rail' = rail
    BY <2>1 DEF FlowStep
  <2>3. bRec' = bRec /\ bAt = "recover"
    BY <1>5 DEF NearRecoverRefund, NearReadKey
  <2>b. \/ bAt' = "observe" /\ bSaw' = Saw("refund", "no handle", 0)
        \/ /\ bAt' = "look" /\ bRec.refund # NoTx
           /\ \E saw : bSaw' = Saw(bRec.refund.kind, saw, now - 1)
    BY <1>5 DEF NearRecoverRefund, NearReadKey
  <2>c. bRec.refunding /\ bAt' \in {"observe", "look"} /\ (bAt' = "look" => bRec.refund # NoTx)
    BY <2>3, <2>b
  <2>d. DOMAIN bSaw' = {"of", "saw", "at"}
    BY <2>b DEF Saw
  <2>e. bAt' = "look" => bSaw'.of = "refund"
    BY <1>5, <1>r, <2>b, NearReadKeySees DEF NearRecoverRefund
  <2>4. BuyerInv'
    BY <1>0, <2>2, <2>3, <2>c, <2>d, <2>e, Frame
  <2> QED
    BY <2>1, <2>4
<1>6. CASE NearLook
  <2>1. FlowStep
    BY <1>6, LocalIsFlow DEF NearLook
  <2>2. rail' = rail
    BY <2>1 DEF FlowStep
  <2>3. bAt \in {"look", "look again"}
    BY <1>6 DEF NearLook
  <2>4. CASE NearAnswered
    <3> HIDE DEF BuyerInv
    <3> QED
      BY <2>1, <2>2, <2>3, <2>4, <1>n
  <2>5. CASE bAt' \in {"settle", "idle", "key again", "resend"} /\ UNCHANGED <<bRec, bSaw>>
    <3>1. BuyerInv'
      BY <1>0, <2>2, <2>3, <2>5, Frame, ZenonT(60)
    <3> QED
      BY <2>1, <3>1
  <2>6. \/ NearAnswered
        \/ bAt' \in {"settle", "idle", "key again", "resend"} /\ UNCHANGED <<bRec, bSaw>>
    BY <1>6 DEF NearLook, NearAnswered
  <2> HIDE DEF BuyerInv
  <2> QED
    BY <2>4, <2>5, <2>6
<1>7. CASE NearLookAgain
  <2>1. FlowStep
    BY <1>7, LocalIsFlow DEF NearLookAgain, NearReadKey
  <2>2. rail' = rail
    BY <2>1 DEF FlowStep
  <2>3. bAt = "key again" /\ Handle.kind = bSaw.of
    <3>1. bAt = "key again"
      BY <1>7 DEF NearLookAgain, NearReadKey
    <3> QED
      BY <3>1, <1>h
  <2>b. bRec' = bRec /\ bAt' = "look again" /\ \E saw : bSaw' = Saw(Handle.kind, saw, now - 1)
    BY <1>7 DEF NearLookAgain, NearReadKey
  <2>4. DOMAIN bSaw' = {"of", "saw", "at"}
    BY <2>b DEF Saw
  <2>c. bSaw'.of = bSaw.of
    BY <1>7, <2>3, NearReadKeySees DEF NearLookAgain
  <2>5. BuyerInv'
    BY <1>0, <2>2, <2>3, <2>b, <2>4, <2>c, Frame
  <2> QED
    BY <2>1, <2>5
<1>8. CASE NearSettle
  <2>1. FlowStep
    BY <1>8, LocalIsFlow DEF NearSettle
  <2>2. rail' = rail /\ bAt = "settle" /\ NearAnswered
    BY <1>8, <2>1 DEF NearSettle, NearAnswered, FlowStep
  <2> HIDE DEF BuyerInv
  <2> QED
    BY <2>1, <2>2, <1>n
<1>9. CASE NearResend
  <2>1. bAt = "resend"
    BY <1>9 DEF NearResend, NearAnswer
  <2>2. Handle \in Tx /\ Handle.kind # "other"
    BY <2>1, <1>h
  <2>3. FlowStep
    <3>1. CASE BLocal
      BY <3>1, LocalIsFlow
    <3>2. CASE /\ faults' = faults /\ pool' = pool /\ (handed' = handed \/ handed' = handed \cup {Handle})
               /\ UNCHANGED <<rail, now, note, head, fin, room>>
      BY <1>m, <2>2, <3>2, SendIsFlow
    <3> QED
      BY <1>9, <3>1, <3>2 DEF NearResend, NearHand, SendsNothing, BSends
  <2>4. rail' = rail
    BY <2>3 DEF FlowStep
  <2>5. CASE NearAnswered
    <3> HIDE DEF BuyerInv
    <3> QED
      BY <2>1, <2>3, <2>4, <2>5, <1>n
  <2>6. CASE /\ bAt' \in {"resent", "settle"} /\ bRec' = bRec
             /\ bSaw' = bSaw \/ bSaw' = [bSaw EXCEPT !.at = now]
    <3>1. bSaw'.of = bSaw.of /\ DOMAIN bSaw' = {"of", "saw", "at"}
      BY <2>6
    <3>2. BuyerInv'
      BY <1>0, <2>1, <2>4, <2>6, <3>1, Frame
    <3> QED
      BY <2>3, <3>2
  <2>7. \/ NearAnswered
        \/ /\ bAt' \in {"resent", "settle"} /\ bRec' = bRec
           /\ bSaw' = bSaw \/ bSaw' = [bSaw EXCEPT !.at = now]
    BY <1>9, <2>1 DEF NearResend, NearAnswered
  <2> HIDE DEF BuyerInv
  <2> QED
    BY <2>5, <2>6, <2>7
<1>10. CASE NearResent
  <2>1. FlowStep
    BY <1>10, LocalIsFlow DEF NearResent
  <2>2. rail' = rail /\ bAt = "resent" /\ NearAnswered
    BY <1>10, <2>1 DEF NearResent, NearAnswered, NearAnswer, FlowStep
  <2> HIDE DEF BuyerInv
  <2> QED
    BY <2>1, <2>2, <1>n
<1>11. CASE NearRefundLegA
  <2>1. SharedBuyer
    BY <1>11 DEF NearRefundLegA, RefundLegA, SharedBuyer
  <2> QED
    BY <2>1, SharedBuyerKeeps
<1>12. CASE NearSignRefund
  <2> DEFINE tx == NearNext("refund")
  <2>0. NearMaySign("refund") => tx \in Tx /\ tx.kind = "refund" /\ tx # NoTx
    BY <1>0, <1>b
  <2>1. FlowStep
    BY <1>12, LocalIsFlow DEF NearSignRefund
  <2>2. rail' = rail /\ bSaw' = bSaw
    BY <1>12, <2>1 DEF FlowStep, NearSignRefund
  <2>3. \/ bAt = "sign" /\ bAt' = "failed" /\ bRec' = [bRec EXCEPT !.refunding = TRUE]
        \/ /\ bAt = "sign" /\ bAt' = "send" /\ NearMaySign("refund")
           /\ bRec' = [bRec EXCEPT !.refunding = TRUE, !.refund = tx]
    BY <1>12 DEF NearSignRefund
  <2> HIDE DEF tx
  <2>4. BuyerInv'
    BY <1>0, <2>0, <2>2, <2>3, Frame, ZenonT(60)
  <2> QED
    BY <2>1, <2>4
<1>13. CASE NearSendRefund
  <2>0. bRec.refund \in Tx /\ bRec.refund.kind # "other"
    BY <1>0, <1>k, <1>13 DEF NearSendRefund
  <2>1. FlowStep
    <3>1. /\ faults' \in 0..MaxFaults /\ pool' = pool /\ (handed' = handed \/ handed' = handed \cup {bRec.refund})
          /\ UNCHANGED <<rail, now, note, head, fin, room>>
      BY <1>13, <1>m DEF NearSendRefund, NearHand, SendsNothing, Fault, BSends
    <3> QED
      BY <2>0, <3>1, SendIsFlow
  <2>2. rail' = rail
    BY <2>1 DEF FlowStep
  <2>3. BuyerInv'
    BY <1>0, <1>13, <2>0, <2>2, Frame DEF NearSendRefund
  <2> QED
    BY <2>1, <2>3
<1>14. CASE NearRefundSent
  <2>1. FlowStep
    BY <1>14, LocalIsFlow DEF NearRefundSent
  <2>2. rail' = rail
    BY <2>1 DEF FlowStep
  <2>3. BuyerInv'
    BY <1>0, <1>14, <2>2, Frame DEF NearRefundSent
  <2> QED
    BY <2>1, <2>3
<1>15. CASE RecoverRefundA \/ RefundFailed \/ ReportRefund
  BY <1>15, SharedBuyerKeeps DEF SharedBuyer
<1> QED
  BY <1>1, <1>2, <1>3, <1>4, <1>5, <1>6, <1>7, <1>8, <1>9, <1>10, <1>11, <1>12, <1>13, <1>14, <1>15
     DEF NearBuyer

\* The Seller's NEAR steps keep SellerInv.
LEMMA NearSellerKeeps ==
  ASSUME ChainInv, SellerInv, rail = "near", NearSeller
  PROVE  SellerInv' /\ FlowStep
<1>0. rail \in Rails /\ handed \in SUBSET Tx /\ fin \in View
  BY DEF ChainInv, ChainTyped
<1> USE DEF SellerInv, SellerRecord, SGo, SSet
<1>1. CASE NearClaimLegA
  <2>1. FlowStep
    BY <1>1, RoomIsFlow DEF NearClaimLegA
  <2>2. rail' = rail
    BY <2>1 DEF FlowStep
  <2>3. SellerInv'
    BY <1>0, <1>1, <2>2, Frame DEF NearClaimLegA
  <2> QED
    BY <2>1, <2>3
<1>2. CASE NearSignClaim
  <2> DEFINE tx == NearNext("claim")
  <2>0. tx \in Tx /\ tx.kind = "claim"
    BY <1>0, <1>2, NearSigned DEF NearSignClaim, Kinds
  <2>1. FlowStep
    BY <1>2, LocalIsFlow DEF NearSignClaim
  <2>2. rail' = rail
    BY <2>1 DEF FlowStep
  <2>3. sAt = "sign" /\ sAt' = "send" /\ sRec' = sRec /\ sSaw'.at = tx /\ DOMAIN sSaw' = {"of", "saw", "at"}
    BY <1>2 DEF NearSignClaim, Saw
  <2> HIDE DEF tx
  <2>4. SellerInv'
    BY <2>0, <2>2, <2>3, Frame
  <2> QED
    BY <2>1, <2>4
<1>3. CASE NearClaimNotSigned
  <2>1. FlowStep
    BY <1>3, LocalIsFlow DEF NearClaimNotSigned
  <2>2. rail' = rail
    BY <2>1 DEF FlowStep
  <2>3. SellerInv'
    BY <1>0, <1>3, <2>2, Frame DEF NearClaimNotSigned
  <2> QED
    BY <2>1, <2>3
<1>4. CASE NearSendClaim
  <2>0. sSaw.at \in Tx /\ sSaw.at.kind # "other"
    BY <1>4 DEF NearSendClaim
  <2>1. FlowStep
    <3>1. /\ faults' \in 0..MaxFaults /\ pool' = pool /\ (handed' = handed \/ handed' = handed \cup {sSaw.at})
          /\ UNCHANGED <<rail, now, note, head, fin, room>>
      BY <1>4 DEF NearSendClaim, NearHand, SendsNothing, SSends, ChainInv, ChainTyped
    <3> QED
      BY <2>0, <3>1, SendIsFlow
  <2>2. rail' = rail
    BY <2>1 DEF FlowStep
  <2>3. SellerInv'
    BY <1>4, <2>2, Frame DEF NearSendClaim, Nothing
  <2> QED
    BY <2>1, <2>3
<1>5. CASE NearClaimSent
  <2>1. FlowStep
    BY <1>5, RoomIsFlow DEF NearClaimSent
  <2>2. rail' = rail
    BY <2>1 DEF FlowStep
  <2>3. SellerInv'
    BY <1>0, <1>5, <2>2, Frame DEF NearClaimSent, Nothing
  <2> QED
    BY <2>1, <2>3
<1> QED
  BY <1>1, <1>2, <1>3, <1>4, <1>5 DEF NearSeller

-----------------------------------------------------------------------------

\* The Buyer's steps, on every rail.
BuyerStep ==
  \/ rail = "btc" /\ (BtcBuyer \/ BtcTakeLegB)
  \/ rail = "near" /\ NearBuyer
  \/ rail = "sol" /\ (SolBuyer \/ SolTakeLegB)
  \/ BuyerThrows

\* The Seller's steps, on every rail.
SellerStep ==
  \/ rail = "btc" /\ BtcSeller
  \/ rail = "near" /\ NearSeller
  \/ rail = "sol" /\ SolSeller
  \/ SellerThrows

\* Every step is the Buyer's, the Seller's or the chain's.
LEMMA StepsOfThree == LegsNext => BuyerStep \/ SellerStep \/ ChainStep
BY DEF LegsNext, On, BlockEnds, BtcNext, NearNextStep, SolNextStep, BuyerStep, SellerStep, ChainStep

\* The Buyer writes neither the Seller's side nor the room.
LEMMA BuyerLeaves == BuyerStep => UNCHANGED <<sellerSide, room>>
<1>1. BtcBuyer \/ BtcTakeLegB => UNCHANGED <<sellerSide, room>>
  BY DEF BtcBuyer, BtcLock, PrepareLock, BtcRecoverLock, BtcSendLock, BtcRefundLegA, RefundLegA,
         BtcRecoverRefund, BtcResendRefund, RecoverRefundA, BtcSignRefund, BtcSendRefund,
         RefundFailed, BtcResendIfDropped, ReportRefund, BtcTakeLegB, TakeLegB, BLocal, BSends
<1>2. NearBuyer => UNCHANGED <<sellerSide, room>>
  BY DEF NearBuyer, NearLock, PrepareLock, NearSendLock, NearLockSent, NearRecoverLock, NearReadKey,
         NearRecoverRefund, NearLook, NearLookAgain, NearSettle, NearResend, NearResent,
         NearRefundLegA, RefundLegA, RecoverRefundA, NearSignRefund, NearSendRefund,
         NearRefundSent, RefundFailed, ReportRefund, BLocal, BSends
<1>3. SolBuyer \/ SolTakeLegB => UNCHANGED <<sellerSide, room>>
  BY DEF SolBuyer, SolLock, PrepareLock, SolSendLock, SolLockSent, SolRecoverLock, SolRefundLegA,
         RefundLegA, SolRecoverRefund, RecoverRefundA, SolSignRefund, SolSendRefund,
         SolRefundSent, RefundFailed, ReportRefund, SolTakeLegB, TakeLegB, BLocal, BSends
<1>4. BuyerThrows => UNCHANGED <<sellerSide, room>>
  BY DEF BuyerThrows
<1> QED
  BY <1>1, <1>2, <1>3, <1>4 DEF BuyerStep

\* The Seller writes neither the Buyer's side nor its note.
LEMMA SellerLeaves == SellerStep => UNCHANGED <<buyerSide, note>>
<1>1. BtcSeller => UNCHANGED <<buyerSide, note>>
  BY DEF BtcSeller, BtcClaimLegA, BtcSignClaim, BtcSendClaim, BtcResumeClaim, BtcResendClaim,
         BtcResendTooLate, BtcReveal, BtcClaimIsMined, SLocal, SSends
<1>2. NearSeller => UNCHANGED <<buyerSide, note>>
  BY DEF NearSeller, NearClaimLegA, NearSignClaim, NearClaimNotSigned, NearSendClaim,
         NearClaimSent, SLocal, SSends
<1>3. SolSeller => UNCHANGED <<buyerSide, note>>
  BY DEF SolSeller, SolResolve, SolClaimLegA, SolSignClaim, SolClaimNotSigned, SolSendClaim,
         SolClaimSent, SLocal, SSends
<1>4. SellerThrows => UNCHANGED <<buyerSide, note>>
  BY DEF SellerThrows
<1> QED
  BY <1>1, <1>2, <1>3, <1>4 DEF SellerStep

\* The chain writes neither flow's side.
LEMMA ChainLeaves ==
  ASSUME ChainStep
  PROVE  /\ UNCHANGED <<rail, buyerSide, sellerSide, room>>
         /\ rail # "near" => handed' = handed
         /\ \A tx \in handed' \ handed : tx.kind = "other"
<1>1. CASE Advance \/ NoteBack \/ Fork \/ Evict
  BY <1>1 DEF Advance, NoteBack, Fork, Evict, chainView
<1>2. CASE rail = "btc" /\ \E tx \in handed : BtcMine(tx)
  BY <1>2 DEF BtcMine, BtcConfirms, ChainOnly
<1>3. CASE rail = "near" /\ NearChain
  BY <1>3 DEF NearChain, NearInclude, NearExecute, NearRuns, NearExecuteFails, NearPayout,
              NearPayoutFails, ChainOnly
<1>4. CASE rail = "near" /\ NearOther
  BY <1>4 DEF NearOther
<1>5. CASE rail = "sol" /\ \E tx \in handed : SolLand(tx) \/ SolLandFailed(tx)
  BY <1>5 DEF SolLand, SolLandFailed, ChainOnly
<1> QED
  BY <1>1, <1>2, <1>3, <1>4, <1>5 DEF ChainStep

\* What holds throughout.
LegInv ==
  /\ ChainInv /\ Told
  /\ BuyerInv /\ SellerInv
  /\ rail = "btc" => BtcOnce

\* It holds at first.
LEMMA LegInvInit == LegInit => LegInv
BY Initially, ToldInitially, BuyerInitially, SellerInitially, BtcInitially DEF LegInv

\* The Buyer keeps it.
LEMMA LegInvBuyer ==
  ASSUME LegInv, BuyerStep
  PROVE  LegInv' /\ FlowStep
<1> USE DEF LegInv
<1>1. BuyerInv' /\ FlowStep
  BY BtcBuyerKeeps, NearBuyerKeeps, SolBuyerKeeps, SharedBuyerKeeps DEF BuyerStep, SharedBuyer
<1>2. rail' = rail
  BY <1>1 DEF FlowStep
<1>3. ChainInv' /\ Told'
  BY <1>1, FlowKeepsChain, FlowKeepsTold
<1>4. SellerInv'
  BY <1>2, BuyerLeaves, SellerUnchanged
<1>5. rail = "btc" => BtcOnce'
  BY BtcBuyerOnce DEF BuyerStep
<1> QED
  BY <1>1, <1>2, <1>3, <1>4, <1>5

\* The Seller keeps it.
LEMMA LegInvSeller ==
  ASSUME LegInv, SellerStep
  PROVE  LegInv' /\ FlowStep
<1> USE DEF LegInv
<1>1. SellerInv' /\ FlowStep
  BY BtcSellerKeeps, NearSellerKeeps, SolSellerKeeps, SellerThrowsKeeps DEF SellerStep
<1>2. rail' = rail
  BY <1>1 DEF FlowStep
<1>3. ChainInv' /\ Told'
  BY <1>1, FlowKeepsChain, FlowKeepsTold
<1>4. BuyerInv'
  BY <1>2, SellerLeaves, BuyerUnchanged
<1>5. rail = "btc" => BtcOnce'
  BY BtcSellerOnce DEF SellerStep
<1> QED
  BY <1>1, <1>2, <1>3, <1>4, <1>5

\* The chain keeps it.
LEMMA LegInvChain ==
  ASSUME LegInv, ChainStep
  PROVE  LegInv'
<1> USE DEF LegInv
<1>1. ChainInv' /\ Told'
  BY ChainKeepsChain, ChainKeepsTold
<1>2. BuyerInv' /\ SellerInv'
  BY ChainLeaves, BuyerUnchanged, SellerUnchanged
<1>3. rail = "btc" => BtcOnce'
  BY ChainLeaves, BtcChainKeeps
<1> QED
  BY <1>1, <1>2, <1>3, ChainLeaves

\* So every step does.
LEMMA LegInvNext == LegInv /\ [LegsNext]_legVars => LegInv'
<1> SUFFICES ASSUME LegInv, [LegsNext]_legVars
             PROVE  LegInv'
  OBVIOUS
<1>1. CASE LegsNext
  BY <1>1, StepsOfThree, LegInvBuyer, LegInvSeller, LegInvChain
<1>2. CASE UNCHANGED legVars
  <2>1. /\ UNCHANGED <<rail, now, note, head, fin, pool, handed, faults, room, bRec, bAt, bSaw, sRec, sAt, sSaw>>
    BY <1>2 DEF legVars, chainView, buyerSide, sellerSide
  <2>2. FlowStep
    BY <2>1 DEF FlowStep, LegInv, ChainInv, ChainTyped
  <2>3. UNCHANGED <<handed, buyerSide, sellerSide>> /\ rail' = rail
    BY <2>1 DEF buyerSide, sellerSide
  <2> QED
    BY <2>2, <2>3, FlowKeepsChain, FlowKeepsTold, BuyerUnchanged, SellerUnchanged, BtcChainKeeps DEF LegInv
<1> QED
  BY <1>1, <1>2

\* The inductive invariant of the legs, on all three rails, for all terms and
\* every number of faults: chain, records and places agree.
THEOREM LegInvHolds == LegsSpec => []LegInv
BY LegInvInit, LegInvNext, PTL DEF LegsSpec

-----------------------------------------------------------------------------

\* Type correctness of the leg: what the rails and flows hold stays of its type.
THEOREM LegTypeCorrect == LegsSpec => []LegTypeOK
<1>1. LegInv => LegTypeOK
  <2> SUFFICES ASSUME LegInv PROVE LegTypeOK
    OBVIOUS
  <2> USE DEF LegInv
  <2>1. RecordsLoad
    BY DEF RecordsLoad, BuyerInv, BuyerLoads, SellerInv
  <2>2. ViewOK(head) /\ ViewOK(fin)
    BY DEF ViewOK, ChainInv, ChainTyped, ViewHolds, View, Included
  <2>3. sRec.claims \subseteq Tx /\ [sRec EXCEPT !.claims = {}] \in SellerRecord
    BY DEF SellerInv, SellerRecord
  <2> QED
    BY <2>1, <2>2, <2>3 DEF LegTypeOK, ChainInv, ChainTyped, BuyerInv
<1> QED
  BY <1>1, LegInvHolds, PTL

\* A set whose members are all equal has one member at most.
LEMMA AtMostOne ==
  ASSUME NEW S, \A a, b \in S : a = b
  PROVE  Cardinality(S) <= 1
<1>1. CASE S = {}
  BY <1>1, FS_EmptySet
<1>2. CASE S # {}
  <2>1. PICK a \in S : TRUE
    BY <1>2
  <2>2. S = {a}
    BY <2>1
  <2> QED
    BY <2>2, FS_Singleton
<1> QED
  BY <1>1, <1>2

\* The Buyer hands a Bitcoin lock and refund, and the Seller a claim, to nodes
\* in one version only: buyer.ts and seller.ts save the raw transaction before
\* they send it, and after a crash or a lost answer send the saved one again.
THEOREM NothingSentTwice == LegsSpec => []SentOnce
<1>1. LegInv => SentOnce
  <2> SUFFICES ASSUME LegInv, rail = "btc", NEW kind \in {"lock", "claim", "refund"}
               PROVE  Cardinality(Handed(kind)) <= 1
    BY DEF SentOnce
  <2>1. \A a, b \in Handed(kind) : a = b
    BY DEF Handed, LegInv, BtcOnce
  <2> QED
    BY <2>1, AtMostOne
<1> QED
  BY <1>1, LegInvHolds, PTL

-----------------------------------------------------------------------------

\* The final view only ever takes over the newest one, as the clock ticks.
LEMMA FinalOnly ==
  ASSUME ChainStep
  PROVE  \/ fin' = fin /\ now' = now
         \/ fin' = head /\ head' = head /\ now' = now + 1
<1>1. CASE Advance \/ NoteBack \/ Fork \/ Evict
  BY <1>1 DEF Advance, NoteBack, Fork, Evict, chainView
<1>2. CASE rail = "btc" /\ \E tx \in handed : BtcMine(tx)
  BY <1>2 DEF BtcMine, BtcConfirms, ChainOnly
<1>3. CASE rail = "near" /\ NearChain
  BY <1>3 DEF NearChain, NearInclude, NearExecute, NearRuns, NearExecuteFails, NearPayout,
              NearPayoutFails, ChainOnly
<1>4. CASE rail = "near" /\ NearOther
  BY <1>4 DEF NearOther
<1>5. CASE rail = "sol" /\ \E tx \in handed : SolLand(tx) \/ SolLandFailed(tx)
  BY <1>5 DEF SolLand, SolLandFailed, ChainOnly
<1> QED
  BY <1>1, <1>2, <1>3, <1>4, <1>5 DEF ChainStep

\* A refund is reported only by steps that saw it final.
LEMMA ReportNeedsFinal ==
  ASSUME BuyerInv, BuyerStep
  PROVE  bRec'.done => bRec.done \/ fin.leg = "refunded"
<1>0. DOMAIN bRec = {"attempted", "lock", "locked", "refunding", "refund", "refunded", "tookB", "done"}
  BY DEF BuyerInv, BuyerRecord
<1> USE DEF BSet
<1>1. CASE RecoverRefundA \/ RefundFailed
  BY <1>0, <1>1 DEF RecoverRefundA, RefundFailed, SeenRefunded, SeenClaimed, SeenNeither
<1>2. CASE ReportRefund
  BY <1>0, <1>2 DEF ReportRefund, SeenClaimed, SeenNeither
<1>3. CASE BuyerThrows \/ BtcTakeLegB \/ SolTakeLegB
  BY <1>0, <1>3 DEF BuyerThrows, BtcTakeLegB, SolTakeLegB, TakeLegB
<1>4. CASE BtcLock \/ SolLock \/ NearLock
  BY <1>0, <1>4 DEF BtcLock, SolLock, NearLock, PrepareLock
<1>5. CASE BtcRefundLegA \/ SolRefundLegA \/ NearRefundLegA
  BY <1>5 DEF BtcRefundLegA, SolRefundLegA, NearRefundLegA, RefundLegA
<1>6. CASE BtcRecoverLock \/ BtcSendLock
  BY <1>0, <1>6 DEF BtcRecoverLock, BtcSendLock
<1>7. CASE BtcRecoverRefund \/ BtcResendRefund \/ BtcResendIfDropped
  BY <1>7 DEF BtcRecoverRefund, BtcResendRefund, BtcResendIfDropped
<1>8. CASE BtcSignRefund \/ BtcSendRefund
  BY <1>0, <1>8 DEF BtcSignRefund, BtcSendRefund
<1>9. CASE SolSendLock \/ SolRecoverRefund
  BY <1>9 DEF SolSendLock, SolRecoverRefund
<1>10. CASE SolLockSent \/ SolRecoverLock \/ SolSignRefund \/ SolSendRefund \/ SolRefundSent
  BY <1>0, <1>10 DEF SolLockSent, SolRecoverLock, SolSignRefund, SolSendRefund, SolRefundSent
<1>11. CASE NearSendLock \/ NearRecoverLock \/ NearRecoverRefund \/ NearLookAgain
  BY <1>11 DEF NearSendLock, NearRecoverLock, NearRecoverRefund, NearLookAgain, NearReadKey
<1>12. CASE NearLockSent \/ NearSignRefund \/ NearSendRefund \/ NearRefundSent
  BY <1>0, <1>12 DEF NearLockSent, NearSignRefund, NearSendRefund, NearRefundSent
<1>a. NearAnswered => bRec'.done = bRec.done
  BY <1>0 DEF NearAnswered, NearAnswer
<1>13. CASE NearLook \/ NearSettle
  <2>1. NearAnswered \/ bRec' = bRec
    BY <1>13 DEF NearLook, NearSettle, NearAnswered
  <2> QED
    BY <2>1, <1>a
<1>14. CASE NearResend
  <2>1. NearAnswered \/ bRec' = bRec
    BY <1>14 DEF NearResend, NearAnswered, NearAnswer, BGo
  <2> QED
    BY <2>1, <1>a
<1>15. CASE NearResent
  <2>1. NearAnswered
    BY <1>15 DEF NearResent, NearAnswered, NearAnswer, BGo
  <2> QED
    BY <2>1, <1>a
<1> QED
  BY <1>1, <1>2, <1>3, <1>4, <1>5, <1>6, <1>7, <1>8, <1>9, <1>10, <1>11, <1>12, <1>13, <1>14, <1>15
     DEF BuyerStep, BtcBuyer, SolBuyer, NearBuyer

\* A stutter changes nothing the property reads.
LEMMA UnchangedLegs ==
  ASSUME UNCHANGED legVars
  PROVE  UNCHANGED <<rail, now, note, head, fin, pool, handed, faults, room, bRec, bAt, bSaw, sRec, sAt, sSaw>>
BY DEF legVars, chainView, buyerSide, sellerSide

\* A Buyer whose record says "refunded" (recoverRefundA of buyer.ts) has its
\* money back in a block that stays: no answer, fork or crash makes it wrong.
THEOREM ReportedRefundsAreFinal == LegsSpec => []RefundReportedIsFinal
<1>1. LegInit => RefundReportedIsFinal
  BY DEF LegInit, RefundReportedIsFinal
<1>2. LegInv /\ RefundReportedIsFinal /\ [LegsNext]_legVars => RefundReportedIsFinal'
  <2> SUFFICES ASSUME LegInv, RefundReportedIsFinal, [LegsNext]_legVars
               PROVE  RefundReportedIsFinal'
    OBVIOUS
  <2> USE DEF RefundReportedIsFinal
  <2>1. CASE BuyerStep
    <3>1. fin' = fin
      BY <2>1, LegInvBuyer DEF FlowStep
    <3>2. bRec'.done => bRec.done \/ fin.leg = "refunded"
      BY <2>1, ReportNeedsFinal DEF LegInv
    <3> QED
      BY <3>1, <3>2
  <2>2. CASE SellerStep
    BY <2>2, LegInvSeller, SellerLeaves DEF FlowStep, buyerSide
  <2>3. CASE ChainStep
    <3>1. bRec' = bRec /\ (fin' = fin \/ fin' = head)
      BY <2>3, ChainLeaves, FinalOnly DEF buyerSide
    <3> QED
      BY <3>1 DEF LegInv, ChainInv, Follows
  <2>4. CASE UNCHANGED legVars
    BY <2>4, UnchangedLegs
  <2> QED
    BY <2>1, <2>2, <2>3, <2>4, StepsOfThree
<1> QED
  BY <1>1, <1>2, LegInvHolds, PTL DEF LegsSpec

-----------------------------------------------------------------------------

\* What a Solana look-up tells the Seller of a claim.
LEMMA SolAnswers ==
  ASSUME NEW tx
  PROVE  /\ SolAnswer(tx) = "landed" => SolLanded(tx)
         /\ SolAnswer(tx) = "landed-failed" => ~SolLanded(tx) /\ tx \in fin.failed
         /\ SolAnswer(tx) = "never-landed" => SolExpired(tx)
<1>1. CASE SolLanded(tx)
  <2>1. SolAnswer(tx) = "landed" \/ (SolExpired(tx) /\ SolAnswer(tx) = "never-landed")
    BY <1>1 DEF SolAnswer
  <2> QED
    BY <1>1, <2>1
<1>2. CASE ~SolLanded(tx) /\ tx \in fin.failed
  <2>1. SolAnswer(tx) = "landed-failed" \/ (SolExpired(tx) /\ SolAnswer(tx) = "never-landed")
    BY <1>2 DEF SolAnswer
  <2> QED
    BY <1>2, <2>1
<1>3. CASE ~SolLanded(tx) /\ tx \notin fin.failed
  <2>1. SolAnswer(tx) = "pending" \/ (SolExpired(tx) /\ SolAnswer(tx) = "never-landed")
    BY <1>3 DEF SolAnswer
  <2> QED
    BY <1>3, <2>1
<1> QED
  BY <1>1, <1>2, <1>3

\* A claim that ran on Solana paid the Seller.
LEMMA SolPaid ==
  ASSUME Told, rail = "sol", NEW tx, tx.kind = "claim", SolAnswer(tx) = "landed"
  PROVE  fin.leg = "claimed"
BY SolAnswers DEF SolLanded, Told, ViewTold

\* A claim is written down as landed only by steps that saw it final.
LEMMA LandingNeedsFinal ==
  ASSUME Told, SellerInv, rail # "btc", SellerStep
  PROVE  sRec'.landed => sRec.landed \/ fin.leg = "claimed"
<1>0. DOMAIN sRec = {"attempted", "claims", "sent", "starved", "public", "landed"}
  BY DEF SellerInv, SellerRecord
<1>a. /\ \A tx \in sRec.claims : tx.kind = "claim"
      /\ sAt \in {"send", "claim sent"} => sSaw.at.kind = "claim"
  BY DEF SellerInv
<1> USE DEF SSet, SGo
<1>1. CASE SellerThrows \/ NearSignClaim \/ NearClaimNotSigned \/ NearSendClaim \/ SolClaimNotSigned
  BY <1>1 DEF SellerThrows, NearSignClaim, NearClaimNotSigned, NearSendClaim, SolClaimNotSigned
<1>2. CASE NearClaimLegA
  BY <1>0, <1>2 DEF NearClaimLegA
<1>3. CASE NearClaimSent
  BY <1>0, <1>a, <1>3 DEF NearClaimSent, NearDidItsWork
<1>4. CASE rail = "sol" /\ SolResolve
  <2>1. PICK tx \in sRec.claims :
          \/ SolAnswer(tx) = "landed"
          \/ sRec' = [sRec EXCEPT !.claims = sRec.claims \ {tx}, !.starved = TRUE]
          \/ sRec' = [sRec EXCEPT !.claims = sRec.claims \ {tx}, !.public = TRUE]
    BY <1>4 DEF SolResolve
  <2> QED
    BY <1>0, <1>4, <1>a, <2>1, SolPaid
<1>5. CASE SolClaimLegA
  BY <1>0, <1>5 DEF SolClaimLegA
<1>6. CASE SolSignClaim \/ SolSendClaim
  BY <1>0, <1>6 DEF SolSignClaim, SolSendClaim
<1>7. CASE rail = "sol" /\ SolClaimSent
  <2>1. \/ sAt = "claim sent" /\ SolAnswer(sSaw.at) = "landed"
        \/ sRec' = [sRec EXCEPT !.claims = sRec.claims \ {sSaw.at}, !.starved = TRUE]
        \/ sRec' = [sRec EXCEPT !.claims = sRec.claims \ {sSaw.at}, !.public = TRUE]
        \/ sRec' = sRec
    BY <1>7 DEF SolClaimSent
  <2>2. sAt = "claim sent" /\ SolAnswer(sSaw.at) = "landed" => fin.leg = "claimed"
    BY <1>7, <1>a, SolPaid
  <2> QED
    BY <1>0, <2>1, <2>2
<1> QED
  BY <1>1, <1>2, <1>3, <1>4, <1>5, <1>6, <1>7 DEF SellerStep, NearSeller, SolSeller

\* A Seller that wrote its claim down as landed (seller.ts) was paid, in a
\* block that stays.
THEOREM LandedClaimsArePaid == LegsSpec => []LandedIsPaid
<1>1. LegInit => LandedIsPaid
  BY DEF LegInit, LandedIsPaid
<1>2. LegInv /\ LandedIsPaid /\ [LegsNext]_legVars => LandedIsPaid'
  <2> SUFFICES ASSUME LegInv, LandedIsPaid, [LegsNext]_legVars
               PROVE  LandedIsPaid'
    OBVIOUS
  <2> USE DEF LandedIsPaid
  <2>1. CASE BuyerStep
    BY <2>1, LegInvBuyer, BuyerLeaves DEF FlowStep, sellerSide
  <2>2. CASE SellerStep
    <3>1. fin' = fin /\ rail' = rail
      BY <2>2, LegInvSeller DEF FlowStep
    <3> QED
      BY <2>2, <3>1, LandingNeedsFinal DEF LegInv
  <2>3. CASE ChainStep
    <3>1. rail' = rail /\ sRec' = sRec /\ (fin' = fin \/ fin' = head)
      BY <2>3, ChainLeaves, FinalOnly DEF sellerSide
    <3> QED
      BY <3>1 DEF LegInv, ChainInv, Follows
  <2>4. CASE UNCHANGED legVars
    BY <2>4, UnchangedLegs
  <2> QED
    BY <2>1, <2>2, <2>3, <2>4, StepsOfThree
<1> QED
  BY <1>1, <1>2, LegInvHolds, PTL DEF LegsSpec

-----------------------------------------------------------------------------

\* The Buyer hands over what its record holds and nothing else.
LEMMA BuyerHands == BuyerStep => handed' \subseteq handed \cup {bRec.lock, bRec.refund}
<1>1. CASE BtcBuyer
  BY <1>1 DEF BtcBuyer, BtcLock, PrepareLock, BtcRecoverLock, BtcSendLock, BtcRefundLegA, RefundLegA,
         BtcRecoverRefund, BtcResendRefund, RecoverRefundA, BtcSignRefund, BtcSendRefund,
         RefundFailed, BtcResendIfDropped, ReportRefund, BLocal, chainView,
         BtcAccepted, BtcRefused, BtcAnswerLost, SendsNothing, Hand
<1>2. CASE NearBuyer
  BY <1>2 DEF NearBuyer, NearLock, PrepareLock, NearSendLock, NearLockSent, NearRecoverLock, NearReadKey,
         NearRecoverRefund, NearLook, NearLookAgain, NearSettle, NearResend, NearResent,
         NearRefundLegA, RefundLegA, RecoverRefundA, NearSignRefund, NearSendRefund,
         NearRefundSent, RefundFailed, ReportRefund, BLocal, chainView, NearHand, SendsNothing, Handle
<1>3. CASE SolBuyer
  BY <1>3 DEF SolBuyer, SolLock, PrepareLock, SolSendLock, SolLockSent, SolRecoverLock, SolRefundLegA,
         RefundLegA, SolRecoverRefund, RecoverRefundA, SolSignRefund, SolSendRefund,
         SolRefundSent, RefundFailed, ReportRefund, BLocal, chainView, SolHand, SendsNothing
<1>4. CASE BuyerThrows \/ BtcTakeLegB \/ SolTakeLegB
  BY <1>4 DEF BuyerThrows, BtcTakeLegB, SolTakeLegB, TakeLegB, chainView
<1> SUFFICES ASSUME BuyerStep PROVE handed' \subseteq handed \cup {bRec.lock, bRec.refund}
  OBVIOUS
<1> QED
  BY <1>1, <1>2, <1>3, <1>4 DEF BuyerStep

\* On Bitcoin the Buyer notes only what the room or the chain shows it.
LEMMA BuyerNote ==
  ASSUME BuyerStep
  PROVE  \/ note' = note
         \/ rail = "btc" /\ ("reveal" \in room \/ BtcClaimKnown)
         \/ rail = "sol"
<1>1. CASE BtcBuyer
  BY <1>1 DEF BtcBuyer, BtcLock, PrepareLock, BtcRecoverLock, BtcSendLock, BtcRefundLegA, RefundLegA,
         BtcRecoverRefund, BtcResendRefund, RecoverRefundA, BtcSignRefund, BtcSendRefund,
         RefundFailed, BtcResendIfDropped, ReportRefund, BLocal, BSends
<1>2. CASE NearBuyer
  BY <1>2 DEF NearBuyer, NearLock, PrepareLock, NearSendLock, NearLockSent, NearRecoverLock, NearReadKey,
         NearRecoverRefund, NearLook, NearLookAgain, NearSettle, NearResend, NearResent,
         NearRefundLegA, RefundLegA, RecoverRefundA, NearSignRefund, NearSendRefund,
         NearRefundSent, RefundFailed, ReportRefund, BLocal, BSends
<1>3. CASE BuyerThrows
  BY <1>3 DEF BuyerThrows
<1>4. CASE rail = "btc" /\ BtcTakeLegB
  BY <1>4 DEF BtcTakeLegB, TakeLegB
<1> QED
  BY <1>1, <1>2, <1>3, <1>4 DEF BuyerStep

\* The chain only ever turns the note to "refunded".
LEMMA ChainNote ==
  ASSUME ChainStep
  PROVE  note' \in {note, "refunded"}
<1>1. CASE Advance \/ NoteBack \/ Fork \/ Evict
  BY <1>1 DEF Advance, NoteBack, Fork, Evict
<1>2. CASE rail = "btc" /\ \E tx \in handed : BtcMine(tx)
  BY <1>2 DEF BtcMine, BtcConfirms, ChainOnly
<1>3. CASE rail = "near" /\ NearChain
  BY <1>3 DEF NearChain, NearInclude, NearExecute, NearRuns, NearExecuteFails, NearPayout,
              NearPayoutFails, ChainOnly
<1>4. CASE rail = "near" /\ NearOther
  BY <1>4 DEF NearOther
<1>5. CASE rail = "sol" /\ \E tx \in handed : SolLand(tx) \/ SolLandFailed(tx)
  BY <1>5 DEF SolLand, SolLandFailed, ChainOnly
<1> QED
  BY <1>1, <1>2, <1>3, <1>4, <1>5 DEF ChainStep

\* What was handed over stays handed over.
LEMMA HandedGrows ==
  ASSUME ChainStep
  PROVE  handed \subseteq handed'
<1>1. CASE Advance \/ NoteBack \/ Fork \/ Evict
  BY <1>1 DEF Advance, NoteBack, Fork, Evict, chainView
<1>2. CASE rail = "btc" /\ \E tx \in handed : BtcMine(tx)
  BY <1>2 DEF BtcMine, BtcConfirms, ChainOnly
<1>3. CASE rail = "near" /\ NearChain
  BY <1>3 DEF NearChain, NearInclude, NearExecute, NearRuns, NearExecuteFails, NearPayout,
              NearPayoutFails, ChainOnly
<1>4. CASE rail = "near" /\ NearOther
  BY <1>4 DEF NearOther
<1>5. CASE rail = "sol" /\ \E tx \in handed : SolLand(tx) \/ SolLandFailed(tx)
  BY <1>5 DEF SolLand, SolLandFailed, ChainOnly
<1> QED
  BY <1>1, <1>2, <1>3, <1>4, <1>5 DEF ChainStep

\* No claim has left the Seller.
Unseen == \A tx \in handed : tx.kind # "claim"

\* Before a claim is handed over, no place in the code takes the secret for
\* public, and the Seller signs or sends only for a lock it saw final.
HeldInv ==
  Unseen =>
    /\ sAt \in {"sign", "send"} => fin.leg # "none"
    /\ sAt \notin {"settle", "claim sent"}
    /\ sSaw.saw \notin {"retry", "revealed"}
    /\ ~sRec.public
    /\ rail = "btc" => "reveal" \notin room /\ note # "claimed" /\ ~sRec.sent

\* A secret no claim carried is not public.
LEMMA NothingIsShown ==
  ASSUME LegInv, Unseen
  PROVE  /\ ~fin.shown /\ fin.leg \notin {"claiming", "claimed"}
         /\ fin.leg \in {"refunding", "refunded"} => now >= RefundAfter
         /\ ~BtcClaimKnown
<1>1. /\ \A tx \in fin.done \cup fin.failed : tx.kind # "claim"
      /\ \A tx \in pool \cup head.done : tx.kind # "claim"
  BY DEF LegInv, ChainInv, ChainTyped, ViewHolds, Included, Unseen
<1>2. ~BtcClaimKnown
  BY <1>1 DEF BtcClaimKnown
<1> QED
  BY <1>1, <1>2 DEF LegInv, Told, ViewTold

\* A lock that was final is still locked while a first claim may go out.
LEMMA HeldSent ==
  ASSUME LegInv, Unseen, fin.leg # "none", now < LastTimeToClaim
  PROVE  fin.leg = "locked"
<1>1. rail \in Rails /\ now \in Nat /\ fin.leg \in LegStatuses
  BY TermsTyped DEF LegInv, ChainInv, ChainTyped, View
<1>2. LastTimeToClaim <= RefundAfter /\ LastTimeToClaim \in Int /\ RefundAfter \in Int
  BY <1>1, TermsTyped DEF LastTimeToClaim, NotAfter, SolNotAfter, LandingMargin
<1>3. now < RefundAfter
  BY <1>1, <1>2
<1>4. ~(now >= RefundAfter)
  BY <1>1, <1>2, <1>3
<1> HIDE DEF LastTimeToClaim
<1> QED
  BY <1>1, <1>4, NothingIsShown DEF LegStatuses

\* The Seller's Bitcoin steps keep it back.
LEMMA HeldBtc ==
  ASSUME LegInv, HeldInv, Unseen, rail = "btc", BtcSeller
  PROVE  /\ ~Unseen' => now < NotAfter /\ fin.leg # "none"
         /\ Unseen' => HeldInv'
<1>0. /\ DOMAIN sRec = {"attempted", "claims", "sent", "starved", "public", "landed"}
      /\ DOMAIN sSaw = {"of", "saw", "at"}
      /\ \A tx \in sRec.claims : tx.kind = "claim"
  BY DEF LegInv, SellerInv, SellerRecord
<1>1. /\ fin' = fin /\ note' = note /\ rail' = rail
  BY LegInvSeller, SellerLeaves DEF SellerStep, FlowStep
<1>2. ~fin.shown /\ fin.leg \notin {"claiming", "claimed"} /\ ~BtcClaimKnown
  BY NothingIsShown
<1>3. ~BtcWalletKnows
  BY <1>0 DEF BtcWalletKnows, Unseen
<1>4. sRec.claims # {} => BtcClaim \in sRec.claims
  BY DEF BtcClaim
<1>5. BtcClaim \in sRec.claims /\ (BtcAccepted(BtcClaim) \/ BtcAnswerLost(BtcClaim)) => ~Unseen'
  <2> SUFFICES ASSUME BtcClaim \in sRec.claims, BtcAccepted(BtcClaim) \/ BtcAnswerLost(BtcClaim)
               PROVE  ~Unseen'
    OBVIOUS
  <2>1. BtcClaim.kind = "claim"
    BY <1>0
  <2>2. ~BtcKnown(BtcClaim)
    BY <1>2, <2>1 DEF BtcKnown, BtcClaimKnown
  <2>3. handed' = handed \cup {BtcClaim}
    BY <2>2 DEF BtcAccepted, BtcAnswerLost, Hand
  <2> QED
    BY <2>1, <2>3 DEF Unseen
<1>6. SendsNothing \/ BtcRefused(BtcClaim) => (Unseen' <=> Unseen)
  BY DEF SendsNothing, BtcRefused, Unseen
<1>7. sAt = "send" => BtcClaim \in sRec.claims
  BY <1>4 DEF LegInv, BtcOnce
<1>8. sAt = "resend" => BtcClaim \in sRec.claims
  BY <1>4 DEF LegInv, BtcOnce
<1>h. /\ sAt \in {"sign", "send"} => fin.leg # "none"
      /\ sAt \notin {"settle", "claim sent"}
      /\ sSaw.saw \notin {"retry", "revealed"}
      /\ ~sRec.public
      /\ "reveal" \notin room /\ note # "claimed" /\ ~sRec.sent
  BY DEF HeldInv
<1> USE DEF SGo, SSet
<1>11. CASE BtcClaimLegA
  <2>1. /\ handed' = handed /\ room' = room /\ sRec' = sRec /\ sSaw' = sSaw
        /\ sAt' = "sign" /\ fin.leg = "locked"
    BY <1>11 DEF BtcClaimLegA, SLocal, chainView, FirstClaimGuards, LockVerified
  <2> QED
    BY <1>1, <1>h, <2>1 DEF HeldInv, Unseen
<1>12. CASE BtcSignClaim
  <2>1. /\ handed' = handed /\ room' = room /\ sSaw' = sSaw
        /\ sRec'.public = sRec.public /\ sRec'.sent = sRec.sent
        /\ sAt' = "send" /\ sAt = "sign"
    BY <1>0, <1>12 DEF BtcSignClaim, SLocal, chainView
  <2> QED
    BY <1>1, <1>h, <2>1 DEF HeldInv, Unseen
<1>13. CASE BtcSendClaim
  <2>1. /\ room' = room /\ sSaw' = sSaw /\ sAt = "send"
    BY <1>13 DEF BtcSendClaim, SSends
  <2>2. CASE BtcAccepted(BtcClaim) \/ BtcAnswerLost(BtcClaim)
    <3>1. ~Unseen'
      BY <1>5, <1>7, <2>1, <2>2
    <3>2. now < NotAfter \/ (now >= NotAfter /\ SendsNothing)
      BY <1>13 DEF BtcSendClaim
    <3> QED
      BY <1>6, <1>h, <2>1, <3>1, <3>2
  <2>3. CASE /\ sAt' = "idle" /\ sRec' = [sRec EXCEPT !.claims = {}]
             /\ SendsNothing \/ BtcRefused(BtcClaim)
    <3>1. sRec'.public = sRec.public /\ sRec'.sent = sRec.sent
      BY <1>0, <2>3
    <3> QED
      BY <1>1, <1>6, <1>h, <2>1, <2>3, <3>1 DEF HeldInv
  <2> QED
    BY <1>13, <2>2, <2>3 DEF BtcSendClaim
<1>14. CASE BtcResumeClaim
  <2>1. /\ handed' = handed /\ room' = room /\ sSaw' = sSaw /\ sRec' = sRec /\ sAt' = "resend"
    BY <1>2, <1>3, <1>14 DEF BtcResumeClaim, SLocal, chainView
  <2> QED
    BY <1>1, <1>h, <2>1 DEF HeldInv, Unseen
<1>15. CASE BtcResendClaim
  <2>1. /\ room' = room /\ sSaw' = sSaw /\ sAt = "resend"
    BY <1>15 DEF BtcResendClaim, SSends
  <2>2. now < NotAfter /\ fin.leg = "locked"
    BY <1>3, <1>h, <1>15 DEF BtcResendClaim, BtcMayResend, LegBTaken, MayBeOut, FirstClaimGuards, LockVerified
  <2>3. CASE BtcAccepted(BtcClaim) \/ BtcAnswerLost(BtcClaim)
    BY <1>5, <1>8, <2>1, <2>2, <2>3
  <2>4. CASE sAt' = "idle" /\ sRec' = [sRec EXCEPT !.sent = MayBeOut] /\ BtcRefused(BtcClaim)
    <3>1. sRec'.public = sRec.public /\ ~sRec'.sent
      BY <1>0, <1>3, <1>h, <2>4 DEF MayBeOut
    <3> QED
      BY <1>1, <1>6, <1>h, <2>1, <2>2, <2>4, <3>1 DEF HeldInv
  <2> QED
    BY <1>15, <2>3, <2>4 DEF BtcResendClaim
<1>16. CASE BtcResendTooLate
  <2>1. /\ handed' = handed /\ room' = room /\ sSaw' = sSaw /\ sAt' = "idle"
        /\ sRec'.public = sRec.public /\ ~sRec'.sent
    BY <1>0, <1>3, <1>h, <1>16 DEF BtcResendTooLate, SLocal, chainView, MayBeOut
  <2> QED
    BY <1>1, <1>h, <2>1 DEF HeldInv, Unseen
<1>17. CASE BtcReveal
  BY <1>h, <1>17 DEF BtcReveal
<1>18. CASE BtcClaimIsMined
  <2>1. /\ handed' = handed /\ room' = room /\ sSaw' = sSaw /\ sAt' = "idle"
        /\ sRec'.public = sRec.public /\ sRec'.sent = sRec.sent
    BY <1>0, <1>18 DEF BtcClaimIsMined, SLocal, chainView
  <2> QED
    BY <1>1, <1>h, <2>1 DEF HeldInv, Unseen
<1> QED
  BY <1>11, <1>12, <1>13, <1>14, <1>15, <1>16, <1>17, <1>18 DEF BtcSeller

\* The Seller's NEAR steps keep it back.
LEMMA HeldNear ==
  ASSUME LegInv, HeldInv, Unseen, rail = "near", NearSeller
  PROVE  /\ ~Unseen' => now < NotAfter /\ fin.leg # "none"
         /\ Unseen' => HeldInv'
<1>0. /\ DOMAIN sRec = {"attempted", "claims", "sent", "starved", "public", "landed"}
      /\ sAt = "send" => sSaw.at.kind = "claim"
  BY DEF LegInv, SellerInv, SellerRecord
<1>1. /\ fin' = fin /\ note' = note /\ rail' = rail
  BY LegInvSeller, SellerLeaves DEF SellerStep, FlowStep
<1>2. ~fin.shown
  BY NothingIsShown
<1>h. /\ sAt \in {"sign", "send"} => fin.leg # "none"
      /\ sAt \notin {"settle", "claim sent"}
      /\ sSaw.saw \notin {"retry", "revealed"}
      /\ ~sRec.public
  BY DEF HeldInv
<1> USE DEF SGo, SSet
<1>11. CASE NearClaimLegA
  <2>1. /\ handed' = handed /\ sSaw' = sSaw /\ sAt' = "sign" /\ fin.leg = "locked"
        /\ sRec'.public = sRec.public
    BY <1>0, <1>2, <1>11 DEF NearClaimLegA, chainView, FirstClaimGuards, LockVerified
  <2> QED
    BY <1>1, <1>h, <2>1 DEF HeldInv, Unseen
<1>12. CASE NearSignClaim
  <2>1. /\ handed' = handed /\ sSaw'.saw = "secret" /\ sAt' = "send" /\ fin.leg = "locked"
        /\ sRec' = sRec
    BY <1>2, <1>12 DEF NearSignClaim, SLocal, chainView, Saw
  <2> QED
    BY <1>1, <1>h, <2>1 DEF HeldInv, Unseen
<1>13. CASE NearClaimNotSigned
  <2>1. handed' = handed /\ sSaw' = sSaw /\ sRec' = sRec /\ sAt' = "idle"
    BY <1>13 DEF NearClaimNotSigned, SLocal, chainView
  <2> QED
    BY <1>1, <1>h, <2>1 DEF HeldInv, Unseen
<1>14. CASE NearSendClaim
  <2>1. sAt = "send" /\ sRec' = sRec
    BY <1>14 DEF NearSendClaim
  <2>2. CASE NearInTime /\ NearHand(sSaw.at)
    <3>1. now < NotAfter
      BY <1>h, <2>2 DEF NearInTime
    <3>2. ~Unseen'
      BY <1>0, <2>1, <2>2 DEF NearHand, Unseen
    <3> QED
      BY <1>h, <2>1, <3>1, <3>2
  <2>3. CASE sAt' = "idle" /\ SendsNothing /\ sSaw' = Nothing
    <3>1. handed' = handed /\ sSaw'.saw = "nothing"
      BY <2>3 DEF SendsNothing, Nothing
    <3> QED
      BY <1>1, <1>h, <2>1, <2>3, <3>1 DEF HeldInv, Unseen
  <2> QED
    BY <1>14, <2>2, <2>3 DEF NearSendClaim
<1>15. CASE NearClaimSent
  BY <1>h, <1>15 DEF NearClaimSent
<1> QED
  BY <1>11, <1>12, <1>13, <1>14, <1>15 DEF NearSeller

\* The Seller's Solana steps keep it back.
LEMMA HeldSol ==
  ASSUME LegInv, HeldInv, Unseen, rail = "sol", SolSeller
  PROVE  /\ ~Unseen' => now < SolNotAfter /\ fin.leg # "none"
         /\ Unseen' => HeldInv'
<1>0. /\ DOMAIN sRec = {"attempted", "claims", "sent", "starved", "public", "landed"}
      /\ sAt = "send" => sSaw.at.kind = "claim"
      /\ \A tx \in sRec.claims : tx.kind = "claim"
      /\ DOMAIN sSaw = {"of", "saw", "at"}
  BY DEF LegInv, SellerInv, SellerRecord
<1>1. /\ fin' = fin /\ note' = note /\ rail' = rail
  BY LegInvSeller, SellerLeaves DEF SellerStep, FlowStep
<1>2. ~fin.shown /\ fin.leg # "claimed"
  BY NothingIsShown
<1>3. \A tx \in fin.done \cup fin.failed : tx.kind # "claim"
  BY DEF LegInv, ChainInv, ChainTyped, ViewHolds, Included, Unseen
<1>h. /\ sAt \in {"sign", "send"} => fin.leg # "none"
      /\ sAt \notin {"settle", "claim sent"}
      /\ sSaw.saw \notin {"retry", "revealed"}
      /\ ~sRec.public
  BY DEF HeldInv
<1> USE DEF SGo, SSet
<1>11. CASE SolResolve
  <2>1. PICK tx \in sRec.claims :
          \/ SolAnswer(tx) = "landed"
          \/ sRec' = [sRec EXCEPT !.claims = sRec.claims \ {tx}, !.starved = TRUE]
          \/ SolAnswer(tx) = "landed-failed"
    BY <1>11 DEF SolResolve
  <2>2. tx.kind = "claim"
    BY <1>0
  <2>3. SolAnswer(tx) # "landed"
    BY <1>2, <2>2, SolPaid DEF LegInv
  <2>4. SolAnswer(tx) # "landed-failed"
    BY <1>3, <2>2, SolAnswers
  <2>5. sRec'.public = sRec.public
    BY <1>0, <2>1, <2>3, <2>4
  <2>6. handed' = handed /\ sAt' = sAt /\ sSaw' = sSaw /\ sAt = "idle"
    BY <1>11 DEF SolResolve, chainView
  <2> QED
    BY <1>1, <1>h, <2>5, <2>6 DEF HeldInv, Unseen
<1>12. CASE SolClaimLegA
  <2>1. /\ handed' = handed /\ sAt' = "sign" /\ fin.leg = "locked"
        /\ sSaw' = Saw("claim", "secret", NoTx) /\ sRec'.public = sRec.public
    BY <1>0, <1>2, <1>h, <1>12 DEF SolClaimLegA, chainView, FirstClaimGuards, LockVerified
  <2>2. sSaw'.saw = "secret"
    BY <2>1 DEF Saw
  <2> QED
    BY <1>1, <1>h, <2>1, <2>2 DEF HeldInv, Unseen
<1>13. CASE SolSignClaim
  <2> DEFINE tx == SolNext("claim")
  <2>1. /\ handed' = handed /\ sAt' = "send" /\ sAt = "sign"
        /\ sRec' = [sRec EXCEPT !.claims = @ \cup {tx}]
        /\ sSaw' = [sSaw EXCEPT !.at = tx]
    BY <1>13 DEF SolSignClaim, SLocal, chainView
  <2> HIDE DEF tx
  <2>2. sSaw'.saw = sSaw.saw /\ sRec'.public = sRec.public
    BY <1>0, <2>1
  <2> QED
    BY <1>1, <1>h, <2>1, <2>2 DEF HeldInv, Unseen
<1>14. CASE SolClaimNotSigned
  <2>1. handed' = handed /\ sSaw'.saw = "nothing" /\ sRec' = sRec /\ sAt' = "idle"
    BY <1>14 DEF SolClaimNotSigned, SLocal, chainView, Nothing
  <2> QED
    BY <1>1, <1>h, <2>1 DEF HeldInv, Unseen
<1>15. CASE SolSendClaim
  <2>1. CASE sAt = "send" /\ SolMaySendClaim /\ SolHand(sSaw.at)
    <3>1. now < SolNotAfter
      BY <1>h, <2>1 DEF SolMaySendClaim, SolInTime
    <3>2. ~Unseen'
      BY <1>0, <2>1 DEF SolHand, Unseen
    <3> QED
      BY <1>h, <2>1, <3>1, <3>2
  <2>2. CASE /\ sAt' = "idle" /\ SendsNothing /\ sSaw' = Nothing
             /\ sRec' = [sRec EXCEPT !.claims = @ \ {sSaw.at}]
    <3>1. handed' = handed /\ sSaw'.saw = "nothing" /\ sRec'.public = sRec.public
      BY <1>0, <2>2 DEF SendsNothing, Nothing
    <3> QED
      BY <1>1, <1>h, <2>2, <3>1 DEF HeldInv, Unseen
  <2> QED
    BY <1>15, <2>1, <2>2 DEF SolSendClaim
<1>16. CASE SolClaimSent
  BY <1>h, <1>16 DEF SolClaimSent
<1> QED
  BY <1>11, <1>12, <1>13, <1>14, <1>15, <1>16 DEF SolSeller

\* So every step of the Seller does.
LEMMA HeldSeller ==
  ASSUME LegInv, HeldInv, SellerStep
  PROVE  /\ Unseen /\ ~Unseen' => now < LastTimeToClaim /\ fin.leg # "none"
         /\ HeldInv'
<1>1. handed \subseteq handed'
  BY LegInvSeller DEF FlowStep
<1>2. ~Unseen => ~Unseen'
  BY <1>1 DEF Unseen
<1>3. ~Unseen' => HeldInv'
  BY DEF HeldInv
<1>4. CASE Unseen /\ SellerThrows
  <2>1. handed' = handed /\ sAt' = "idle" /\ sSaw'.saw = "nothing"
        /\ UNCHANGED <<rail, note, room, sRec, fin>>
    BY <1>4 DEF SellerThrows, chainView, Nothing
  <2> QED
    BY <1>4, <2>1 DEF HeldInv, Unseen
<1>5. rail # "sol" => LastTimeToClaim = NotAfter
  BY DEF LastTimeToClaim
<1>6. rail = "sol" => LastTimeToClaim = SolNotAfter
  BY DEF LastTimeToClaim
<1>7. CASE Unseen /\ rail = "btc" /\ BtcSeller
  BY <1>3, <1>5, <1>7, HeldBtc
<1>8. CASE Unseen /\ rail = "near" /\ NearSeller
  BY <1>3, <1>5, <1>8, HeldNear
<1>9. CASE Unseen /\ rail = "sol" /\ SolSeller
  BY <1>3, <1>6, <1>9, HeldSol
<1> QED
  BY <1>2, <1>3, <1>4, <1>7, <1>8, <1>9 DEF SellerStep

\* The Buyer has no secret to show.
LEMMA HeldBuyer ==
  ASSUME LegInv, HeldInv, BuyerStep
  PROVE  Unseen => Unseen' /\ HeldInv'
<1> HAVE Unseen
<1>1. /\ UNCHANGED <<sRec, sAt, sSaw, room>>
      /\ fin' = fin /\ rail' = rail
  BY LegInvBuyer, BuyerLeaves DEF FlowStep, sellerSide
<1>2. bRec.lock.kind # "claim" /\ bRec.refund.kind # "claim"
  BY DEF LegInv, BuyerInv, BuyerLoads
<1>3. Unseen'
  BY <1>2, BuyerHands DEF Unseen
<1>4. rail = "btc" => note' = note
  BY BuyerNote, NothingIsShown DEF HeldInv
<1> QED
  BY <1>1, <1>3, <1>4 DEF HeldInv

\* Nor has the chain.
LEMMA HeldChain ==
  ASSUME LegInv, HeldInv, ChainStep
  PROVE  Unseen => Unseen' /\ HeldInv'
<1> HAVE Unseen
<1>1. UNCHANGED <<rail, sRec, sAt, sSaw, room>>
  BY ChainLeaves DEF sellerSide
<1>2. Unseen'
  BY ChainLeaves DEF Unseen
<1>3. fin.leg # "none" => fin'.leg # "none"
  BY FinalOnly DEF LegInv, ChainInv, Follows
<1>4. note' \in {note, "refunded"}
  BY ChainNote
<1> QED
  BY <1>1, <1>2, <1>3, <1>4 DEF HeldInv

\* No claim handed over, said in two ways.
LEMMA HandedNone == (Handed("claim") = {} <=> Unseen) /\ (Handed("claim")' = {} <=> Unseen')
BY DEF Handed, Unseen

\* The Seller first lets the secret out while the leg is locked in a final block
\* and the claim has the margin its rail demands of a first claim: the guards
\* before the save (seller.ts) still hold at the send, however long the calls
\* between them took and wherever a crash fell.
THEOREM SecretIsHeldBack == LegsSpec => SecretHeldBack
<1>1. LegInit => HeldInv
  BY DEF LegInit, HeldInv, Nothing
<1>2. LegInv /\ HeldInv /\ [LegsNext]_legVars =>
        HeldInv' /\ (Unseen /\ ~Unseen' => now < LastTimeToClaim /\ fin.leg = "locked")
  <2> SUFFICES ASSUME LegInv, HeldInv, [LegsNext]_legVars
               PROVE  HeldInv' /\ (Unseen /\ ~Unseen' => now < LastTimeToClaim /\ fin.leg = "locked")
    OBVIOUS
  <2>0. handed \subseteq handed' => (~Unseen => HeldInv')
    BY DEF Unseen, HeldInv
  <2>1. CASE BuyerStep
    BY <2>0, <2>1, HeldBuyer, LegInvBuyer DEF FlowStep
  <2>2. CASE SellerStep
    BY <2>2, HeldSeller, HeldSent
  <2>3. CASE ChainStep
    <3>1. ~Unseen => ~Unseen'
      BY <2>3, HandedGrows DEF Unseen
    <3>2. ~Unseen' => HeldInv'
      BY DEF HeldInv
    <3> QED
      BY <2>3, <3>1, <3>2, HeldChain
  <2>4. CASE UNCHANGED legVars
    <3>1. UNCHANGED <<rail, note, fin, handed, room, sRec, sAt, sSaw>>
      BY <2>4, UnchangedLegs
    <3> QED
      BY <3>1 DEF HeldInv, Unseen
  <2> QED
    BY <2>1, <2>2, <2>3, <2>4, StepsOfThree
<1>3. LegInv /\ HeldInv /\ [LegsNext]_legVars =>
        (Handed("claim") = {} /\ Handed("claim")' # {} => now < LastTimeToClaim /\ fin.leg = "locked")
  BY <1>2, HandedNone
<1>4. LegInv /\ HeldInv /\ [LegsNext]_legVars =>
        [Handed("claim") = {} /\ Handed("claim")' # {} => now < LastTimeToClaim /\ fin.leg = "locked"]_legVars
  BY <1>3
<1>5. LegInv /\ HeldInv /\ [LegsNext]_legVars => HeldInv'
  BY <1>2
<1> QED
  BY <1>1, <1>4, <1>5, LegInvHolds, PTL DEF LegsSpec, SecretHeldBack

-----------------------------------------------------------------------------

\* On Solana: a claim that can still run after the refund time shows nothing
\* that is not public, and a retry is made only for a secret that is.
SolHeldInv ==
  /\ \A tx \in handed : tx.kind = "claim" => tx.until < RefundAfter \/ fin.shown
  /\ sRec.public \/ sSaw.saw = "retry" => fin.shown

\* The rail is one of the three.
LEMMA LegRails == LegInv => rail \in {"btc", "near", "sol"}
BY TermsTyped DEF LegInv, ChainInv, ChainTyped

\* A claim that failed on Solana has shown the secret.
LEMMA SolFailedShows ==
  ASSUME LegInv, rail = "sol", NEW tx, tx.kind = "claim", SolAnswer(tx) = "landed-failed"
  PROVE  fin.shown
<1>1. tx \in fin.failed
  BY SolAnswers
<1> QED
  BY <1>1 DEF LegInv, Told, ViewTold

\* The Seller's Solana steps keep it.
LEMMA SolHeldSeller ==
  ASSUME LegInv, rail = "sol", SolHeldInv, SolSeller
  PROVE  SolHeldInv'
<1>0. /\ DOMAIN sRec = {"attempted", "claims", "sent", "starved", "public", "landed"}
      /\ sAt \in {"send", "claim sent"} => sSaw.at.kind = "claim" /\ sSaw.at \in Tx
      /\ \A tx \in sRec.claims : tx.kind = "claim"
      /\ DOMAIN sSaw = {"of", "saw", "at"}
  BY DEF LegInv, SellerInv, SellerRecord
<1>1. fin' = fin /\ rail' = rail /\ RefundAfter' = RefundAfter
  BY LegInvSeller, Frame DEF SellerStep, FlowStep
<1>2. rail \in Rails /\ now \in Nat /\ RefundAfter \in Nat
  BY TermsTyped DEF LegInv, ChainInv, ChainTyped
<1> USE DEF SGo, SSet
<1>11. CASE SolResolve
  <2>1. PICK tx \in sRec.claims :
          \/ SolAnswer(tx) = "landed-failed"
          \/ sRec' = [sRec EXCEPT !.claims = {}, !.landed = TRUE]
          \/ sRec' = [sRec EXCEPT !.claims = sRec.claims \ {tx}, !.starved = TRUE]
    BY <1>11 DEF SolResolve
  <2>2. sRec'.public => sRec.public \/ fin.shown
    BY <1>0, <2>1, SolFailedShows
  <2>3. handed' = handed /\ sSaw' = sSaw
    BY <1>11 DEF SolResolve, chainView
  <2> QED
    BY <1>1, <2>2, <2>3 DEF SolHeldInv
<1>12. CASE SolClaimLegA
  <2>1. handed' = handed /\ sRec'.public = sRec.public
    BY <1>0, <1>12 DEF SolClaimLegA, chainView
  <2>2. sSaw'.saw = "retry" => sSaw.saw = "retry" \/ sRec.public
    BY <1>12 DEF SolClaimLegA, Saw
  <2> QED
    BY <1>1, <2>1, <2>2 DEF SolHeldInv
<1>13. CASE SolSignClaim
  <2> DEFINE tx == SolNext("claim")
  <2>1. /\ handed' = handed
        /\ sRec' = [sRec EXCEPT !.claims = @ \cup {tx}]
        /\ sSaw' = [sSaw EXCEPT !.at = tx]
    BY <1>13 DEF SolSignClaim, SLocal, chainView
  <2> HIDE DEF tx
  <2>2. sSaw'.saw = sSaw.saw /\ sRec'.public = sRec.public
    BY <1>0, <2>1
  <2> QED
    BY <1>1, <2>1, <2>2 DEF SolHeldInv
<1>14. CASE SolClaimNotSigned
  <2>1. handed' = handed /\ sSaw'.saw = "nothing" /\ sRec' = sRec
    BY <1>14 DEF SolClaimNotSigned, SLocal, chainView, Nothing
  <2> QED
    BY <1>1, <2>1 DEF SolHeldInv
<1>15. CASE SolSendClaim
  <2>1. CASE sAt = "send" /\ SolMaySendClaim /\ SolHand(sSaw.at) /\ UNCHANGED <<sRec, sSaw>>
    <3>1. sSaw.at.until \in Nat
      BY <1>0, <1>2, <2>1, TxFields, TermsTyped
    <3>2. sSaw.saw # "retry" => sSaw.at.until < RefundAfter
      BY <1>2, <2>1, <3>1 DEF SolMaySendClaim, SolInTime, SolLastValid
    <3>3. handed' = handed \cup {sSaw.at}
      BY <2>1 DEF SolHand
    <3> QED
      BY <1>1, <2>1, <3>2, <3>3 DEF SolHeldInv
  <2>2. CASE /\ SendsNothing /\ sSaw' = Nothing
             /\ sRec' = [sRec EXCEPT !.claims = @ \ {sSaw.at}]
    <3>1. handed' = handed /\ sSaw'.saw = "nothing" /\ sRec'.public = sRec.public
      BY <1>0, <2>2 DEF SendsNothing, Nothing
    <3> QED
      BY <1>1, <3>1 DEF SolHeldInv
  <2> QED
    BY <1>15, <2>1, <2>2 DEF SolSendClaim
<1>16. CASE SolClaimSent
  <2>1. sAt = "claim sent" /\ handed' = handed
    BY <1>16 DEF SolClaimSent, chainView
  <2>2. SolAnswer(sSaw.at) = "landed-failed" => fin.shown
    BY <1>0, <2>1, SolFailedShows
  <2>3. \/ SolAnswer(sSaw.at) = "landed-failed"
        \/ /\ sRec'.public = sRec.public
           /\ sSaw' = Nothing \/ sSaw' = Saw("claim", sSaw.saw, NoTx)
    BY <1>0, <1>16 DEF SolClaimSent, SolSignAgain, SolGiveUp
  <2>4. \A saw : Saw("claim", saw, NoTx).saw = saw
    BY DEF Saw
  <2>5. Nothing.saw = "nothing"
    BY DEF Nothing
  <2> QED
    BY <1>1, <2>1, <2>2, <2>3, <2>4, <2>5 DEF SolHeldInv
<1> QED
  BY <1>11, <1>12, <1>13, <1>14, <1>15, <1>16 DEF SolSeller

\* So does every step.
LEMMA SolHeldNext ==
  ASSUME LegInv, rail = "sol" => SolHeldInv, [LegsNext]_legVars
  PROVE  (rail = "sol" => SolHeldInv)'
<1>1. CASE BuyerStep
  <2>1. fin' = fin /\ rail' = rail /\ sRec' = sRec /\ sSaw' = sSaw /\ RefundAfter' = RefundAfter
    BY <1>1, LegInvBuyer, BuyerLeaves, Frame DEF FlowStep, sellerSide
  <2>2. bRec.lock.kind # "claim" /\ bRec.refund.kind # "claim"
    BY DEF LegInv, BuyerInv, BuyerLoads
  <2>3. \A tx \in handed' : tx.kind = "claim" => tx \in handed
    BY <1>1, <2>2, BuyerHands
  <2> QED
    BY <2>1, <2>3 DEF SolHeldInv
<1>2. CASE SellerStep
  <2>1. rail' = rail
    BY <1>2, LegInvSeller DEF FlowStep
  <2>2. CASE SellerThrows /\ rail = "sol"
    <3>1. UNCHANGED <<rail, fin, handed, sRec>> /\ sSaw'.saw = "nothing"
      BY <2>2 DEF SellerThrows, chainView, Nothing
    <3> QED
      BY <2>2, <3>1, Frame DEF SolHeldInv
  <2>3. rail = "sol" => SolSeller \/ SellerThrows
    BY <1>2, LegRails DEF SellerStep
  <2> QED
    BY <2>1, <2>2, <2>3, SolHeldSeller
<1>3. CASE ChainStep
  <2>1. rail' = rail /\ sRec' = sRec /\ sSaw' = sSaw
    BY <1>3, ChainLeaves DEF sellerSide
  <2>2. RefundAfter' = RefundAfter
    BY <2>1, Frame
  <2>3. fin.shown => fin'.shown
    BY <1>3, FinalOnly DEF LegInv, ChainInv, Follows
  <2>4. rail = "sol" => handed' = handed
    BY <1>3, ChainLeaves
  <2> QED
    BY <2>1, <2>2, <2>3, <2>4 DEF SolHeldInv
<1>4. CASE UNCHANGED legVars
  <2>1. UNCHANGED <<rail, fin, handed, sRec, sSaw>>
    BY <1>4, UnchangedLegs
  <2> QED
    BY <2>1, Frame DEF SolHeldInv
<1> QED
  BY <1>1, <1>2, <1>3, <1>4, StepsOfThree

\* A transaction that fails now was handed over and is still valid.
LEMMA SolNewFailed ==
  ASSUME LegInv, rail = "sol", [LegsNext]_legVars, NEW tx \in head'.failed \ head.failed
  PROVE  tx \in handed /\ now <= tx.until
<1>1. head \in View
  BY DEF LegInv, ChainInv, ChainTyped
<1>2. CASE BuyerStep \/ SellerStep
  BY <1>2, LegInvBuyer, LegInvSeller DEF FlowStep
<1>3. CASE UNCHANGED legVars
  BY <1>3, UnchangedLegs
<1>4. CASE Advance \/ NoteBack \/ Evict
  BY <1>4 DEF Advance, NoteBack, Evict, chainView
<1>5. CASE Fork
  BY <1>5 DEF Fork, LegInv, ChainInv, Follows
<1>6. CASE \E other \in handed : SolLand(other)
  BY <1>1, <1>6 DEF SolLand, View
<1>7. CASE \E other \in handed : SolLandFailed(other)
  BY <1>1, <1>7 DEF SolLandFailed, SolMayLand, View
<1> QED
  BY <1>2, <1>3, <1>4, <1>5, <1>6, <1>7, StepsOfThree, LegRails DEF ChainStep

\* A claim that fails because the refund time came while it was on its way (Solana)
\* gives nothing away: the claim margin of seller.ts keeps a first claim from
\* landing that late.
THEOREM NoClaimFailsLate == LegsSpec => NoLateClaim
<1>1. LegInit => (rail = "sol" => SolHeldInv)
  BY DEF LegInit, SolHeldInv, Nothing
<1>2. LegInv /\ (rail = "sol" => SolHeldInv) /\ [LegsNext]_legVars => (rail = "sol" => SolHeldInv)'
  BY SolHeldNext
<1>3. LegInv /\ (rail = "sol" => SolHeldInv) /\ [LegsNext]_legVars =>
        (rail = "sol" => \A tx \in head'.failed \ head.failed :
           tx.kind = "claim" /\ now >= RefundAfter => head.shown)
  <2> SUFFICES ASSUME LegInv, SolHeldInv, [LegsNext]_legVars, rail = "sol",
                      NEW tx \in head'.failed \ head.failed, tx.kind = "claim", now >= RefundAfter
               PROVE  head.shown
    OBVIOUS
  <2>1. tx \in handed /\ now <= tx.until /\ tx \in Tx
    BY SolNewFailed DEF LegInv, ChainInv, ChainTyped
  <2>2. now \in Nat /\ RefundAfter \in Nat /\ tx.until \in Nat
    BY <2>1, TermsTyped, TxFields DEF LegInv, ChainInv, ChainTyped
  <2>3. fin.shown
    BY <2>1, <2>2 DEF SolHeldInv
  <2> QED
    BY <2>3 DEF LegInv, ChainInv, Follows
<1>4. LegInv /\ (rail = "sol" => SolHeldInv) /\ [LegsNext]_legVars =>
        [rail = "sol" => \A tx \in head'.failed \ head.failed :
           tx.kind = "claim" /\ now >= RefundAfter => head.shown]_legVars
  BY <1>3
<1> QED
  BY <1>1, <1>2, <1>4, LegInvHolds, PTL DEF LegsSpec, NoLateClaim

-----------------------------------------------------------------------------

\* A nonce is used in a view that holds a transaction of the key as late as it.
LEMMA NearUsedMeans ==
  ASSUME rail \in Rails, NEW view \in View, NEW tx \in Tx
  PROVE  NearUsed(view, tx) <=>
           \E other \in Included(view) : other.kind \in SameKey(tx.kind) /\ other.n >= tx.n
<1>1. tx.n \in Nat \ {0} /\ NearNonce(view, tx.kind) \in Nat
  BY NonceBounds, TermsTyped, TxFields
<1>2. \A other \in Included(view) : other.n \in Nat
  BY TermsTyped, TxFields DEF View, Included
<1>3. /\ \A other \in Included(view) :
           other.kind \in SameKey(tx.kind) => NearNonce(view, tx.kind) >= other.n
      /\ \/ NearNonce(view, tx.kind) = 0
         \/ \E other \in Included(view) :
              other.kind \in SameKey(tx.kind) /\ NearNonce(view, tx.kind) = other.n
  BY NonceBounds
<1> QED
  BY <1>1, <1>2, <1>3 DEF NearUsed

\* A transaction that can take no effect any more, on NEAR and on Solana.
Spent(tx) ==
  \/ rail = "sol" /\ now > tx.until
  \/ rail = "near" /\ NearUsed(fin, tx)

\* One that is settled for good: it ran in a final block, or is in no block and spent.
Dead(tx) == tx \in fin.done \cup fin.failed \/ (tx \notin Included(head) /\ Spent(tx))

\* The dead take no effect any more.
LEMMA DeadMeans ==
  ASSUME LegInv, NEW tx \in Tx, Dead(tx)
  PROVE  ~MayTakeEffect(tx)
<1>1. CASE tx \in fin.done \cup fin.failed
  BY <1>1 DEF MayTakeEffect
<1>2. CASE tx \notin Included(head) /\ rail = "sol" /\ now > tx.until
  <2>1. ~(now <= tx.until)
    BY <1>2, TermsTyped, TxFields DEF LegInv, ChainInv, ChainTyped
  <2> QED
    BY <1>2, <2>1, Zenon DEF MayTakeEffect
<1>3. CASE tx \notin Included(head) /\ rail = "near" /\ NearUsed(fin, tx)
  BY <1>3, Zenon DEF MayTakeEffect
<1> QED
  BY <1>1, <1>2, <1>3 DEF Dead, Spent

\* What a block newly holds was still valid: its nonce unused, its last valid
\* block not passed.
LEMMA NewInHead ==
  ASSUME LegInv, ChainStep, rail # "btc", NEW tx \in Included(head') \ Included(head)
  PROVE  /\ UNCHANGED <<rail, now, fin>>
         /\ rail = "sol" => now <= tx.until
         /\ rail = "near" => tx \in Tx /\ ~NearUsed(head, tx)
<1>0. rail \in Rails /\ head \in View /\ handed \subseteq Tx
  BY DEF LegInv, ChainInv, ChainTyped
<1>1. CASE Advance \/ NoteBack \/ Evict
  BY <1>1 DEF Advance, NoteBack, Evict, chainView
<1>2. CASE Fork
  BY <1>2 DEF Fork, LegInv, ChainInv, Follows
<1>3. ASSUME NEW other \in handed, NearInclude(other), rail = "near"
      PROVE  UNCHANGED <<rail, now, fin>> /\ tx \in Tx /\ ~NearUsed(head, tx)
  <2>1. Included(head') = Included(head) \cup {other}
    BY <1>0, <1>3 DEF NearInclude, View, Included
  <2> QED
    BY <1>0, <1>3, <2>1 DEF NearInclude, ChainOnly
<1>4. CASE rail = "near" /\ NearOther
  <2> DEFINE other == [kind |-> "other", n |-> NearNonce(head, "other") + 1, until |-> MaxTime]
  <2>1. /\ other.kind = "other" /\ other.n = NearNonce(head, "other") + 1
        /\ head' = [head EXCEPT !.done = @ \cup {other}] /\ other \in handed' /\ UNCHANGED <<rail, now, fin>>
    BY <1>4 DEF NearOther
  <2>2. handed' \subseteq Tx
    BY <1>4, LegInvChain, Frame, <2>1 DEF LegInv, ChainInv, ChainTyped, ChainStep
  <2> HIDE DEF other
  <2>3. Included(head') = Included(head) \cup {other}
    BY <1>0, <2>1 DEF View, Included
  <2>4. NearNonce(head, other.kind) \in Nat /\ other \in Tx
    BY <1>0, <2>1, <2>2, NonceBounds, TermsTyped
  <2>5. ~NearUsed(head, other)
    BY <2>1, <2>4 DEF NearUsed
  <2> QED
    BY <1>4, <2>1, <2>3, <2>4, <2>5
<1>5. ASSUME NEW other \in head.running, NearExecute(other) \/ NearExecuteFails(other), rail = "near"
      PROVE  FALSE
  <2>1. CASE NearExecuteFails(other)
    BY <1>0, <1>5, <2>1 DEF NearExecuteFails, View, Included
  <2>2. CASE NearExecute(other)
    <3>1. PICK leg : NearRuns(other, leg)
      BY <2>2 DEF NearExecute
    <3> QED
      BY <1>0, <1>5, <3>1 DEF NearRuns, View, Included
  <2> QED
    BY <1>5, <2>1, <2>2
<1>6. CASE NearPayout \/ NearPayoutFails
  BY <1>0, <1>6 DEF NearPayout, NearPayoutFails, View, Included
<1>7. ASSUME NEW other \in handed, SolLand(other) \/ SolLandFailed(other)
      PROVE  UNCHANGED <<rail, now, fin>> /\ now <= tx.until
  <2>a. /\ SolLand(other) => head'.done = head.done \cup {other} /\ head'.failed = head.failed
        /\ SolLandFailed(other) => head'.done = head.done /\ head'.failed = head.failed \cup {other}
        /\ head'.running = head.running
    BY <1>0, <1>7 DEF SolLand, SolLandFailed, View
  <2>1. Included(head') = Included(head) \cup {other}
    BY <1>7, <2>a DEF Included
  <2> QED
    BY <1>7, <2>1 DEF SolLand, SolLandFailed, SolMayLand, ChainOnly
<1> QED
  BY <1>1, <1>2, <1>3, <1>4, <1>5, <1>6, <1>7 DEF ChainStep, NearChain

\* The dead stay dead, whatever the chain does.
LEMMA DeadStays ==
  ASSUME LegInv, ChainStep, rail # "btc", NEW tx \in Tx, Dead(tx)
  PROVE  Dead(tx)'
<1>0. /\ rail \in Rails /\ head \in View /\ fin \in View /\ rail' = rail /\ tx.until \in Nat /\ now \in Nat
      /\ now' = now \/ now' = now + 1
      /\ fin' = fin \/ (fin' = head /\ head' = head)
  BY ChainLeaves, FinalOnly, TermsTyped, TxFields DEF LegInv, ChainInv, ChainTyped
<1>1. fin.done \subseteq head.done /\ fin.failed \subseteq head.failed /\ Included(fin) \subseteq Included(head)
  BY DEF LegInv, ChainInv, Follows
<1>2. CASE tx \in fin.done \cup fin.failed
  BY <1>0, <1>1, <1>2 DEF Dead
<1>3. ASSUME tx \notin Included(head), Spent(tx)
      PROVE  Dead(tx)'
  <2>1. rail = "near" => NearUsed(head, tx) /\ NearUsed(fin, tx)
    BY <1>0, <1>1, <1>3, NearUsedMeans DEF Spent
  <2>2. rail = "sol" => now > tx.until
    BY <1>3 DEF Spent
  <2>3. tx \notin Included(head')
    <3> SUFFICES ASSUME tx \in Included(head') PROVE FALSE
      OBVIOUS
    <3>1. /\ rail = "sol" => now <= tx.until
          /\ rail = "near" => ~NearUsed(head, tx)
      BY <1>3, NewInHead
    <3> QED
      BY <1>0, <2>1, <2>2, <3>1, LegRails
  <2>4. rail = "near" => NearUsed(fin', tx)
    BY <1>0, <2>1
  <2>5. rail = "near" => NearUsed(fin, tx)'
    <3>1. NearUsed(fin, tx)' <=> NearUsed(fin', tx)
      BY DEF NearUsed, NearNonce, SameKey, Included
    <3> QED
      BY <2>4, <3>1
  <2>6. rail = "sol" => now' > tx.until
    BY <1>0, <2>2
  <2> QED
    BY <1>0, <2>3, <2>5, <2>6, LegRails DEF Dead, Spent, Included
<1> QED
  BY <1>2, <1>3 DEF Dead

\* So they do whatever a flow does.
LEMMA DeadInFlow ==
  ASSUME UNCHANGED <<rail, now, head, fin>>, NEW tx, Dead(tx)
  PROVE  Dead(tx)'
BY DEF Dead, Spent, NearUsed, NearNonce, SameKey, Included

-----------------------------------------------------------------------------

\* What was handed over and is not on the Buyer's record is dead.
KeptInv ==
  /\ \A tx \in handed : tx.kind = "lock" => tx = bRec.lock \/ Dead(tx)
  /\ \A tx \in handed : tx.kind = "refund" => tx = bRec.refund \/ Dead(tx)
  /\ bAt = "sign" => bRec.refund = NoTx
  /\ bAt = "send" => bRec.refund \notin handed \/ Dead(bRec.refund)
  /\ bAt = "observe" /\ bSaw.saw \in {"no handle", "never-landed", "landed-failed"} =>
       bRec.refund = NoTx \/ Dead(bRec.refund)

\* What the type of the Buyer's record says of its two handles.
LEMMA BuyerTyped ==
  ASSUME LegInv
  PROVE  /\ DOMAIN bRec = {"attempted", "lock", "locked", "refunding", "refund", "refunded", "tookB", "done"}
         /\ NoTx' = NoTx /\ NoTx \notin handed /\ handed \subseteq Tx
         /\ bRec.lock = NoTx \/ (bRec.lock \in Tx /\ bRec.lock.kind = "lock")
         /\ bRec.refund = NoTx \/ (bRec.refund \in Tx /\ bRec.refund.kind = "refund")
         /\ bRec.lock # NoTx <=> bRec.attempted
         /\ ~bRec.refunding => bRec.refund = NoTx
         /\ bAt = "lock" => bRec.lock # NoTx
         /\ bAt \in {"send", "refund sent"} => bRec.refund # NoTx
         /\ DOMAIN bSaw = {"of", "saw", "at"}
<1>1. \A tx \in Tx : tx # NoTx /\ tx.kind # "none"
  BY TxFields DEF Kinds
<1>2. handed \subseteq Tx
  BY DEF LegInv, ChainInv, ChainTyped
<1> QED
  BY <1>1, <1>2 DEF NoTx, LegInv, BuyerInv, BuyerRecord, BuyerLoads, BuyerAt

\* The Buyer's steps that the rails share let go only of what is dead.
LEMMA SharedKept ==
  ASSUME LegInv, KeptInv, rail # "btc", SharedBuyer
  PROVE  KeptInv'
<1>0. /\ DOMAIN bRec = {"attempted", "lock", "locked", "refunding", "refund", "refunded", "tookB", "done"}
      /\ NoTx' = NoTx /\ NoTx \notin handed /\ (~bRec.refunding => bRec.refund = NoTx)
  BY BuyerTyped
<1>f. FlowStep
  BY SharedBuyerKeeps DEF LegInv
<1>d. \A tx : Dead(tx) => Dead(tx)'
  BY <1>f, DeadInFlow DEF FlowStep
<1> USE DEF BGo, BSet
<1> HIDE DEF Dead
<1>1. CASE RecoverRefundA
  <2>1. handed' = handed /\ bAt = "observe"
    BY <1>1 DEF RecoverRefundA, BLocal, chainView, SeenRefunded, SeenClaimed, SeenNeither
  <2>2. \/ bAt' \in {"verify", "idle"} /\ bRec'.lock = bRec.lock /\ bRec'.refund = bRec.refund
        \/ /\ FreshRefund /\ bAt' = "sign" /\ bRec'.lock = bRec.lock /\ bRec'.refund = NoTx
    BY <1>0, <1>1 DEF RecoverRefundA, SeenRefunded, SeenClaimed, SeenNeither
  <2>3. FreshRefund => bSaw.saw \in {"no handle", "never-landed", "landed-failed"}
    BY DEF FreshRefund
  <2> QED
    BY <1>0, <1>d, <2>1, <2>2, <2>3 DEF KeptInv
<1>2. CASE RefundFailed \/ ReportRefund
  <2>1. handed' = handed
    BY <1>2 DEF RefundFailed, ReportRefund, BLocal, chainView
  <2>2. bAt' \in {"verify", "idle"} /\ bRec'.lock = bRec.lock /\ bRec'.refund = bRec.refund
    BY <1>0, <1>2 DEF RefundFailed, ReportRefund, SeenRefunded, SeenClaimed, SeenNeither
  <2> QED
    BY <1>0, <1>d, <2>1, <2>2 DEF KeptInv
<1>3. CASE BuyerThrows
  <2>1. handed' = handed /\ bAt' = "idle" /\ bRec' = bRec
    BY <1>3 DEF BuyerThrows, chainView
  <2> QED
    BY <1>0, <1>d, <2>1 DEF KeptInv
<1>4. CASE TakeLegB(TRUE)
  <2>1. handed' = handed /\ bAt = "idle" /\ bAt' = bAt /\ bRec'.lock = bRec.lock /\ bRec'.refund = bRec.refund
    BY <1>0, <1>4 DEF TakeLegB, chainView
  <2> QED
    BY <1>0, <1>d, <2>1 DEF KeptInv
<1>5. ASSUME NEW after \in {"verify", "ifDropped"}, RefundLegA(FALSE, after)
      PROVE  KeptInv'
  <2>1. /\ handed' = handed /\ bRec' = bRec
        /\ bAt' \in {"verify", "ifDropped", "recover"} \/ (bAt' = "sign" /\ ~bRec.refunding)
    BY <1>5 DEF RefundLegA, BLocal, chainView
  <2> QED
    BY <1>0, <1>d, <2>1 DEF KeptInv
<1> QED
  BY <1>1, <1>2, <1>3, <1>4, <1>5 DEF SharedBuyer

\* The Seller hands over claims only.
LEMMA SellerHands ==
  ASSUME LegInv, SellerStep
  PROVE  \A tx \in handed' \ handed : tx.kind = "claim"
<1>1. CASE rail = "btc" /\ BtcSeller
  <2>1. sRec.claims # {} => BtcClaim \in sRec.claims
    BY DEF BtcClaim
  <2>2. sAt \in {"send", "resend"} => BtcClaim.kind = "claim"
    BY <1>1, <2>1 DEF LegInv, SellerInv, BtcOnce
  <2> HIDE DEF BtcClaim
  <2>3. handed' = handed \/ (sAt \in {"send", "resend"} /\ handed' = handed \cup {BtcClaim})
    BY <1>1 DEF BtcSeller, BtcClaimLegA, BtcSignClaim, BtcSendClaim, BtcResumeClaim, BtcResendClaim,
         BtcResendTooLate, BtcReveal, BtcClaimIsMined, SLocal, chainView, SGo,
         BtcAccepted, BtcRefused, BtcAnswerLost, SendsNothing, Hand
  <2> QED
    BY <2>2, <2>3
<1>2. CASE rail # "btc" /\ (NearSeller \/ SolSeller)
  <2>1. handed' = handed \/ (sAt = "send" /\ handed' = handed \cup {sSaw.at})
    BY <1>2 DEF NearSeller, NearClaimLegA, NearSignClaim, NearClaimNotSigned, NearSendClaim, NearClaimSent,
         SolSeller, SolResolve, SolClaimLegA, SolSignClaim, SolClaimNotSigned, SolSendClaim,
         SolClaimSent, SLocal, chainView, SGo, NearHand, SolHand, SendsNothing
  <2> QED
    BY <1>2, <2>1 DEF LegInv, SellerInv
<1>3. CASE SellerThrows
  BY <1>3 DEF SellerThrows, chainView
<1> QED
  BY <1>1, <1>2, <1>3 DEF SellerStep

\* The Seller and the chain leave the Buyer's handles alone.
LEMMA KeptElsewhere ==
  ASSUME LegInv, KeptInv, rail # "btc", SellerStep \/ ChainStep \/ UNCHANGED legVars
  PROVE  KeptInv'
<1>0. /\ NoTx' = NoTx /\ handed \subseteq Tx
      /\ bRec.lock = NoTx \/ (bRec.lock \in Tx /\ bRec.lock.kind = "lock")
      /\ bRec.refund = NoTx \/ (bRec.refund \in Tx /\ bRec.refund.kind = "refund")
      /\ bAt = "send" => bRec.refund # NoTx
  BY BuyerTyped
<1>1. bRec' = bRec /\ bAt' = bAt /\ bSaw' = bSaw
  BY SellerLeaves, ChainLeaves, UnchangedLegs DEF buyerSide
<1>2. \A tx \in handed' \ handed : tx.kind \in {"claim", "other"}
  BY SellerHands, ChainLeaves, UnchangedLegs
<1>3. \A tx \in Tx : Dead(tx) => Dead(tx)'
  <2>1. CASE SellerStep
    BY <2>1, LegInvSeller, DeadInFlow DEF FlowStep
  <2>2. CASE ChainStep
    BY <2>2, DeadStays
  <2>3. CASE UNCHANGED legVars
    BY <2>3, UnchangedLegs, DeadInFlow
  <2> QED
    BY <2>1, <2>2, <2>3
<1> HIDE DEF Dead
<1>4. bAt = "send" /\ bRec.refund \notin handed => bRec.refund \notin handed'
  BY <1>0, <1>2
<1>5. \A tx \in handed' : tx.kind \in {"lock", "refund"} => tx \in handed /\ tx \in Tx
  BY <1>0, <1>2
<1> QED
  BY <1>0, <1>1, <1>3, <1>4, <1>5 DEF KeptInv

-----------------------------------------------------------------------------

\* What Solana answers of a transaction it says is over is true.
LEMMA SolOver ==
  ASSUME LegInv, rail = "sol", NEW tx \in Tx, SolAnswer(tx) \in {"never-landed", "landed-failed"}
  PROVE  Dead(tx)
<1>0. now \in Nat /\ tx.until \in Nat
  BY TermsTyped, TxFields DEF LegInv, ChainInv, ChainTyped
<1>1. tx \in fin.failed \/ SolExpired(tx)
  BY DEF SolAnswer
<1> QED
  BY <1>0, <1>1 DEF SolExpired, SolLastValid, Dead, Spent

\* On Solana a record lets go only of what is dead.
LEMMA SolKept ==
  ASSUME LegInv, KeptInv, rail = "sol", SolBuyer
  PROVE  KeptInv'
<1>0. /\ DOMAIN bRec = {"attempted", "lock", "locked", "refunding", "refund", "refunded", "tookB", "done"}
      /\ NoTx' = NoTx /\ NoTx \notin handed /\ (~bRec.refunding => bRec.refund = NoTx)
      /\ bRec.lock = NoTx \/ (bRec.lock \in Tx /\ bRec.lock.kind = "lock")
      /\ bRec.refund = NoTx \/ (bRec.refund \in Tx /\ bRec.refund.kind = "refund")
      /\ bRec.lock # NoTx <=> bRec.attempted
      /\ bAt = "lock" => bRec.lock # NoTx
      /\ bAt \in {"send", "refund sent"} => bRec.refund # NoTx
      /\ DOMAIN bSaw = {"of", "saw", "at"}
  BY BuyerTyped
<1>f. FlowStep
  BY LegInvBuyer DEF BuyerStep
<1>d. \A tx : Dead(tx) => Dead(tx)'
  BY <1>f, DeadInFlow DEF FlowStep
<1>o. \A tx \in Tx : SolAnswer(tx) \in {"never-landed", "landed-failed"} => Dead(tx)
  BY SolOver
<1> USE DEF BGo, BSet
<1> HIDE DEF Dead
<1>1. CASE SolLock
  <2>1. /\ handed' = handed /\ bAt' = "lock" /\ bRec'.refund = bRec.refund /\ bRec.lock = NoTx
    BY <1>0, <1>1 DEF SolLock, PrepareLock, BLocal, chainView
  <2> QED
    BY <1>0, <1>d, <2>1 DEF KeptInv
<1>2. CASE SolSendLock
  <2>1. /\ handed' = handed \/ handed' = handed \cup {bRec.lock}
        /\ bAt' \in {"sent", "idle"} /\ bRec' = bRec /\ bAt = "lock"
    BY <1>2 DEF SolSendLock, SolHand, SendsNothing
  <2> QED
    BY <1>0, <1>d, <2>1 DEF KeptInv
<1>3. CASE SolLockSent
  <2>1. handed' = handed /\ bAt' = "idle" /\ bRec'.lock = bRec.lock /\ bRec'.refund = bRec.refund
    BY <1>0, <1>3 DEF SolLockSent, BLocal, chainView
  <2> QED
    BY <1>0, <1>d, <2>1 DEF KeptInv
<1>4. CASE SolRecoverLock
  <2>1. /\ handed' = handed /\ bAt' \in {"idle", "lock"} /\ bRec'.refund = bRec.refund
        /\ bRec'.lock = bRec.lock \/ Dead(bRec.lock)
    BY <1>0, <1>4, <1>o DEF SolRecoverLock, BLocal, chainView
  <2> QED
    BY <1>0, <1>d, <2>1 DEF KeptInv
<1>5. CASE SolRecoverRefund
  <2>1. /\ handed' = handed /\ bAt' = "observe" /\ bRec' = bRec
        /\ bSaw'.saw = IF bRec.refund = NoTx THEN "no handle" ELSE SolAnswer(bRec.refund)
    BY <1>5 DEF SolRecoverRefund, Saw, BLocal, chainView
  <2>2. SolAnswer(bRec.refund) # "no handle"
    BY DEF SolAnswer
  <2>3. bSaw'.saw \in {"no handle", "never-landed", "landed-failed"} => bRec.refund = NoTx \/ Dead(bRec.refund)
    BY <1>0, <1>o, <2>1, <2>2
  <2> QED
    BY <1>0, <1>d, <2>1, <2>3 DEF KeptInv
<1>6. CASE SolSignRefund
  <2>1. /\ handed' = handed /\ bAt = "sign" /\ bAt' \in {"send", "failed"} /\ bRec'.lock = bRec.lock
        /\ bAt' = "failed" => bRec'.refund = bRec.refund
    BY <1>0, <1>6 DEF SolSignRefund, BLocal, chainView
  <2>2. bRec.refund = NoTx /\ \A tx \in handed : tx.kind = "refund" => Dead(tx)
    BY <1>0, <2>1 DEF KeptInv
  <2>3. bAt' = "send" => bRec'.refund.kind = "refund"
    <3>1. SolNext("refund").kind = "refund"
      BY DEF SolNext, NextTx
    <3>2. bAt' = "send" => bRec'.refund = SolNext("refund")
      BY <1>0, <1>6 DEF SolSignRefund
    <3> QED
      BY <3>1, <3>2
  <2>4. bAt' = "send" => bRec'.refund \notin handed' \/ Dead(bRec'.refund)
    BY <2>1, <2>2, <2>3
  <2>5. bAt' = "send" => bRec'.refund \notin handed' \/ Dead(bRec.refund)'
    BY <1>f, <2>4 DEF FlowStep, Dead, Spent, NearUsed, NearNonce, SameKey, Included
  <2> QED
    BY <1>0, <1>d, <2>1, <2>2, <2>5 DEF KeptInv
<1>7. CASE SolSendRefund
  <2>1. bAt = "send"
    BY <1>7 DEF SolSendRefund
  <2>2. CASE bAt' = "refund sent" /\ handed' = handed \cup {bRec.refund} /\ bRec' = bRec
    BY <1>0, <1>d, <2>1, <2>2 DEF KeptInv
  <2>3. CASE bAt' = "failed" /\ handed' = handed /\ bRec'.lock = bRec.lock /\ bRec'.refund = NoTx
    BY <1>0, <1>d, <2>1, <2>3 DEF KeptInv
  <2> QED
    BY <1>0, <1>7, <2>2, <2>3 DEF SolSendRefund, SolHand, SendsNothing
<1>8. CASE SolRefundSent
  <2>1. /\ handed' = handed /\ bAt' \in {"verify", "failed"} /\ bRec'.lock = bRec.lock /\ bRec'.refund = bRec.refund
    BY <1>0, <1>8 DEF SolRefundSent, BLocal, chainView
  <2> QED
    BY <1>0, <1>d, <2>1 DEF KeptInv
<1>9. CASE SolRefundLegA \/ RecoverRefundA \/ RefundFailed \/ ReportRefund
  <2>1. SharedBuyer
    BY <1>9 DEF SharedBuyer, SolRefundLegA, RefundLegA
  <2> QED
    BY <2>1, SharedKept
<1> QED
  BY <1>1, <1>2, <1>3, <1>4, <1>5, <1>6, <1>7, <1>8, <1>9 DEF SolBuyer

-----------------------------------------------------------------------------

\* What NEAR's newest view holds beyond the final one: a nonce the final one
\* has not used; no secret that was first shown after the refund time; and
\* what is being refunded, or was, is so by a refund that is not final yet.
NearPast ==
  /\ \A tx \in Included(head) \ Included(fin) : ~NearUsed(fin, tx)
  /\ now >= RefundAfter /\ head.shown => fin.shown
  /\ head.leg \in {"refunding", "refunded"} /\ fin.leg \notin {"refunding", "refunded"} =>
       \E tx \in head.done \ (fin.done \cup fin.failed) : tx.kind = "refund"

\* It holds of an empty chain.
LEMMA NearPastInitially == LegInit => NearPast
BY DEF LegInit, NearPast, EmptyView, Included

\* It depends on the views and the time alone.
LEMMA NearPastFrame ==
  ASSUME NearPast, UNCHANGED <<rail, now, head, fin>>
  PROVE  NearPast'
BY Frame DEF NearPast, NearUsed, NearNonce, SameKey, Included

\* A NEAR node includes no transaction whose nonce the final view has used.
LEMMA NearPastUsed ==
  ASSUME LegInv, NearPast, ChainStep, rail = "near", fin' = fin
  PROVE  \A tx \in Included(head') \ Included(fin) : ~NearUsed(fin, tx)
<1> SUFFICES ASSUME NEW tx \in Included(head') \ Included(fin)
             PROVE  ~NearUsed(fin, tx)
  OBVIOUS
<1>0. rail \in Rails /\ head \in View /\ fin \in View /\ Included(fin) \subseteq Included(head)
  BY DEF LegInv, ChainInv, ChainTyped, Follows
<1>1. CASE tx \in Included(head)
  BY <1>1 DEF NearPast
<1>2. CASE tx \notin Included(head)
  <2>1. tx \in Tx /\ ~NearUsed(head, tx)
    BY <1>2, NewInHead
  <2> QED
    BY <1>0, <2>1, NearUsedMeans
<1> QED
  BY <1>1, <1>2

\* The chain's steps on NEAR keep it.
LEMMA NearPastChain ==
  ASSUME LegInv, NearPast, ChainStep, rail = "near"
  PROVE  NearPast'
<1>0. /\ head \in View /\ fin \in View /\ rail' = rail
      /\ fin.done \cup fin.failed \subseteq head.done \cup head.failed
      /\ head.running \cap (head.done \cup head.failed) = {}
      /\ head.leg \in {"claiming", "claimed"} => head.shown
  BY ChainLeaves DEF LegInv, ChainInv, ChainTyped, Follows, ViewHolds, Told, ViewTold
<1>r. \A tx \in head.running : tx.kind \in {"lock", "claim", "refund"}
  <2>1. \A tx \in head.running : tx \in handed /\ tx \in Tx
    BY DEF LegInv, ChainInv, ChainTyped, ViewHolds, Included
  <2>2. \A tx \in head.running : tx.kind # "other"
    BY <1>0, <2>1 DEF LegInv, ChainInv, OthersRan
  <2> QED
    BY <2>1, <2>2, TxFields DEF Kinds
<1>1. CASE Advance
  <2>1. fin' = head /\ head' = head
    BY <1>1 DEF Advance
  <2> QED
    BY <2>1 DEF NearPast
<1>2. CASE ~Advance
  <2>1. fin' = fin /\ now' = now /\ RefundAfter' = RefundAfter
    BY <1>0, <1>2, Frame DEF ChainStep, NoteBack, NearChain, NearInclude, NearExecute, NearRuns, NearExecuteFails,
          NearPayout, NearPayoutFails, ChainOnly, NearOther, chainView
  <2>2. (\A tx \in Included(head) \ Included(fin) : ~NearUsed(fin, tx))'
    <3>1. \A tx \in Included(head') \ Included(fin) : ~NearUsed(fin, tx)
      BY <2>1, NearPastUsed
    <3> QED
      BY <2>1, <3>1 DEF NearUsed, NearNonce, SameKey, Included
  <2>3. now >= RefundAfter /\ head'.shown => head.shown
    <3>1. ASSUME NEW tx \in head.running, NearExecute(tx), now >= RefundAfter, head'.shown
          PROVE  head.shown
      <4>1. NearAllows(tx) /\ head'.shown = (head.shown \/ tx.kind = "claim")
        BY <1>0, <3>1 DEF NearExecute, NearRuns, View
      <4>2. tx.kind = "claim" => now < RefundAfter \/ head.shown
        BY <4>1 DEF NearAllows
      <4>3. ~(now < RefundAfter)
        BY <3>1, TermsTyped DEF LegInv, ChainInv, ChainTyped
      <4> QED
        BY <3>1, <4>1, <4>2, <4>3
    <3>2. ASSUME NEW tx, NearInclude(tx) \/ NearExecuteFails(tx)
          PROVE  head'.shown = head.shown
      BY <1>0, <3>2 DEF NearInclude, NearExecuteFails, View
    <3>3. CASE NearPayout \/ NearPayoutFails \/ NearOther \/ NoteBack
      BY <1>0, <3>3 DEF NearPayout, NearPayoutFails, NearOther, NoteBack, chainView, View
    <3> QED
      BY <1>2, <3>1, <3>2, <3>3 DEF ChainStep, NearChain
  <2>4. head'.leg \in {"refunding", "refunded"} =>
          \/ head.leg \in {"refunding", "refunded"} /\ head.done \subseteq head'.done
          \/ \E tx \in head'.done \ (fin.done \cup fin.failed) : tx.kind = "refund"
    <3>1. ASSUME NEW tx \in head.running, NearExecute(tx), head'.leg \in {"refunding", "refunded"}
          PROVE  \E other \in head'.done \ (fin.done \cup fin.failed) : other.kind = "refund"
      <4>1. tx.kind = "refund" /\ tx \in head'.done
        <5>1. PICK leg \in {"locked", "claiming", "refunding"} : NearRuns(tx, leg) /\ (leg = "refunding" => tx.kind = "refund")
          BY <1>r, <3>1, NearAllowed
        <5> QED
          BY <1>0, <3>1, <5>1 DEF NearRuns, View
      <4> QED
        BY <1>0, <3>1, <4>1
    <3>2. ASSUME NEW tx, NearInclude(tx) \/ NearExecuteFails(tx)
          PROVE  head'.leg = head.leg /\ head'.done = head.done
      BY <1>0, <3>2 DEF NearInclude, NearExecuteFails, View
    <3>3. CASE NearPayout \/ NearPayoutFails \/ NearOther \/ NoteBack
      BY <1>0, <3>3 DEF NearPayout, NearPayoutFails, NearOther, NoteBack, chainView, View
    <3> QED
      BY <1>2, <3>1, <3>2, <3>3 DEF ChainStep, NearChain
  <2> QED
    BY <2>1, <2>2, <2>3, <2>4 DEF NearPast
<1> QED
  BY <1>1, <1>2

\* Where the Buyer is while it finds out what became of a NEAR transaction.
NearPlaces == {"look", "look again", "key again", "settle", "resend", "resent"}

\* What the Buyer knows of its handle on NEAR.  A refund is signed only once
\* the leg is locked, and looked up only while no secret was shown in time;
\* what was read as used is; and a lookup that waits for the chain to settle
\* has a handle that is dead, or will be at the next final block.
NearKept ==
  /\ bRec.refund # NoTx => /\ fin.leg # "none"
                           /\ fin.leg \in {"refunding", "refunded"} => Dead(bRec.refund)
  /\ bAt = "recover" \/ (bAt \in NearPlaces /\ bSaw.of # "lock") => now >= RefundAfter /\ ~fin.shown
  /\ bAt \in {"look", "look again"} /\ bSaw.saw = "used" => NearUsed(fin, Handle)
  /\ bAt = "settle" =>
       \/ Dead(Handle)
       \/ NearUsed(head, Handle) /\ Handle \notin Included(head) /\ now = bSaw.at

\* It holds at first.
LEMMA NearKeptInitially == LegInit => NearKept
BY DEF LegInit, NearKept, NearPlaces, EmptyView

\* On NEAR what the newest block holds is never taken back.
LEMMA NearHeadGrows ==
  ASSUME LegInv, ChainStep, rail = "near"
  PROVE  Included(head) \subseteq Included(head')
<1>0. head \in View
  BY DEF LegInv, ChainInv, ChainTyped
<1>1. ASSUME NEW tx, NearInclude(tx)
      PROVE  Included(head) \subseteq Included(head')
  BY <1>0, <1>1 DEF NearInclude, View, Included
<1>2. ASSUME NEW tx, NearExecute(tx)
      PROVE  Included(head) \subseteq Included(head')
  <2>1. PICK leg : NearRuns(tx, leg)
    BY <1>2 DEF NearExecute
  <2> QED
    BY <1>0, <2>1 DEF NearRuns, View, Included
<1>3. ASSUME NEW tx, NearExecuteFails(tx)
      PROVE  Included(head) \subseteq Included(head')
  BY <1>0, <1>3 DEF NearExecuteFails, View, Included
<1>4. CASE NearPayout \/ NearPayoutFails \/ NearOther \/ NoteBack \/ Advance
  BY <1>0, <1>4 DEF NearPayout, NearPayoutFails, NearOther, NoteBack, Advance, chainView, View, Included
<1> QED
  BY <1>1, <1>2, <1>3, <1>4 DEF ChainStep, NearChain

\* A transaction whose nonce is used at the final block, and not by it, is dead.
LEMMA NearUsedUp ==
  ASSUME LegInv, NearPast, rail = "near", NEW tx \in Tx, NearUsed(fin, tx), tx \notin Included(fin)
  PROVE  Dead(tx)
BY DEF NearPast, Dead, Spent

\* A nonce that is used stays used.
LEMMA NearUsedStays ==
  ASSUME rail \in Rails, NEW older \in View, NEW newer \in View, NEW tx \in Tx,
         Included(older) \subseteq Included(newer), NearUsed(older, tx)
  PROVE  NearUsed(newer, tx)
BY NearUsedMeans

\* The chain's steps on NEAR keep it.
LEMMA NearKeptChain ==
  ASSUME LegInv, KeptInv, NearPast, NearKept, ChainStep, rail = "near"
  PROVE  NearKept'
<1>0. /\ rail \in Rails /\ head \in View /\ fin \in View /\ head' \in View /\ fin' \in View
      /\ now \in Nat /\ RefundAfter \in Nat
      /\ Included(fin) \subseteq Included(head) /\ Included(head) \subseteq handed
      /\ fin.leg # "none" => head.leg # "none"
      /\ head' \in View' /\ fin' \in View'
  <2>1. ChainInv' /\ rail' = rail
    BY LegInvChain, ChainLeaves DEF LegInv
  <2>2. head' \in View' /\ fin' \in View' /\ View' = View
    BY <2>1, Frame DEF ChainInv, ChainTyped
  <2> QED
    BY <2>2, TermsTyped DEF LegInv, ChainInv, ChainTyped, Follows, ViewHolds
<1>1. /\ rail' = rail /\ bRec' = bRec /\ bAt' = bAt /\ bSaw' = bSaw /\ Handle' = Handle
      /\ NoTx' = NoTx /\ RefundAfter' = RefundAfter
  BY ChainLeaves, Frame, BuyerTyped DEF buyerSide, Handle
<1>2. \/ fin' = fin /\ now' = now
      \/ fin' = head /\ head' = head /\ now' = now + 1
  BY FinalOnly
<1>3. \A tx \in Tx : Dead(tx) => Dead(tx)'
  BY DeadStays
<1>h. bAt \in NearPlaces => Handle \in Tx
  BY NearHandle DEF NearPlaces, LegInv
<1>r. bRec.refund = NoTx \/ bRec.refund \in Tx
  BY BuyerTyped
<1>u. \A tx \in Tx : NearUsed(fin, tx) => NearUsed(fin', tx)
  BY <1>0, <1>2, NearUsedStays
<1>4. (bRec.refund # NoTx => /\ fin.leg # "none"
                             /\ fin.leg \in {"refunding", "refunded"} => Dead(bRec.refund))'
  <2> SUFFICES ASSUME bRec.refund # NoTx
               PROVE  /\ fin'.leg # "none"
                      /\ fin'.leg \in {"refunding", "refunded"} => Dead(bRec.refund)'
    BY <1>1
  <2>1. fin'.leg # "none"
    BY <1>0, <1>2 DEF NearKept
  <2>2. CASE fin.leg \in {"refunding", "refunded"}
    <3>1. Dead(bRec.refund)
      BY <2>2 DEF NearKept
    <3> HIDE DEF Dead
    <3> QED
      BY <1>r, <1>1, <1>3, <2>1, <3>1
  <2>3. CASE fin.leg \notin {"refunding", "refunded"} /\ fin'.leg \in {"refunding", "refunded"}
    <3>1. fin' = head
      BY <1>2, <2>3
    <3>2. PICK tx \in head.done \ (fin.done \cup fin.failed) : tx.kind = "refund"
      BY <2>3, <3>1 DEF NearPast
    <3>3. tx \in Included(head) /\ tx \in handed
      BY <1>0, <3>2 DEF Included
    <3>4. ~Dead(tx)
      BY <3>2, <3>3 DEF Dead
    <3>5. tx = bRec.refund
      BY <3>2, <3>3, <3>4 DEF KeptInv
    <3>6. bRec'.refund \in fin'.done
      BY <1>1, <3>1, <3>2, <3>5
    <3> QED
      BY <2>1, <3>6 DEF Dead
  <2> QED
    BY <2>1, <2>2, <2>3
<1>5. (bAt = "recover" \/ (bAt \in NearPlaces /\ bSaw.of # "lock") => now >= RefundAfter /\ ~fin.shown)'
  <2>1. now >= RefundAfter /\ ~fin.shown => now' >= RefundAfter /\ ~fin'.shown
    BY <1>0, <1>2 DEF NearPast
  <2> QED
    BY <1>1, <2>1 DEF NearKept, NearPlaces
<1>6. (bAt \in {"look", "look again"} /\ bSaw.saw = "used" => NearUsed(fin, Handle))'
  <2>1. bAt \in {"look", "look again"} /\ bSaw.saw = "used" => NearUsed(fin', Handle)
    BY <1>h, <1>u DEF NearKept, NearPlaces
  <2> QED
    BY <1>1, <2>1 DEF NearUsed, NearNonce, SameKey, Included
<1>7. (bAt = "settle" =>
        \/ Dead(Handle)
        \/ NearUsed(head, Handle) /\ Handle \notin Included(head) /\ now = bSaw.at)'
  <2> SUFFICES ASSUME bAt = "settle"
               PROVE  \/ Dead(Handle)'
                      \/ NearUsed(head, Handle)' /\ (Handle \notin Included(head))' /\ now' = bSaw'.at
    BY <1>1
  <2>0. Handle \in Tx
    BY <1>h DEF NearPlaces
  <2>1. CASE Dead(Handle)
    <3> HIDE DEF Dead, Handle
    <3> QED
      BY <1>1, <1>3, <2>0, <2>1
  <2>2. CASE NearUsed(head, Handle) /\ Handle \notin Included(head) /\ now = bSaw.at
    <3>1. Handle \notin Included(head')
      BY <2>0, <2>2, NewInHead
    <3>2. NearUsed(head', Handle)
      BY <1>0, <2>0, <2>2, NearHeadGrows, NearUsedStays
    <3>3. NearUsed(head, Handle)' /\ (Handle \notin Included(head))'
      BY <1>1, <3>1, <3>2 DEF NearUsed, NearNonce, SameKey, Included
    <3>4. CASE fin' = fin /\ now' = now
      BY <1>1, <2>2, <3>3, <3>4
    <3>5. CASE fin' = head /\ head' = head
      <4>1. NearUsed(fin, Handle)'
        BY <1>1, <2>2, <3>5 DEF NearUsed, NearNonce, SameKey, Included
      <4> QED
        BY <1>1, <3>3, <4>1 DEF Dead, Spent
    <3> QED
      BY <1>2, <3>4, <3>5
  <2> QED
    BY <2>1, <2>2 DEF NearKept
<1> QED
  BY <1>4, <1>5, <1>6, <1>7 DEF NearKept

\* A step of a flow that signs no refund and looks nothing up keeps it.
LEMMA NearKeptFrame ==
  ASSUME NearKept, FlowStep, bRec'.refund \in {bRec.refund, NoTx},
         bAt' \notin NearPlaces \cup {"recover"}
  PROVE  NearKept'
<1>1. \A tx : Dead(tx) => Dead(tx)'
  BY DeadInFlow DEF FlowStep
<1>2. NoTx' = NoTx /\ fin' = fin /\ bAt' # "settle"
  BY DEF NoTx, FlowStep, NearPlaces
<1> HIDE DEF Dead
<1> QED
  BY <1>1, <1>2 DEF NearKept, NearPlaces

\* The other flow's steps keep it.
LEMMA NearKeptElsewhere ==
  ASSUME NearKept, UNCHANGED <<rail, now, head, fin, bRec, bAt, bSaw>>
  PROVE  NearKept'
<1>1. \A tx : Dead(tx) => Dead(tx)'
  BY DeadInFlow
<1>2. /\ NoTx' = NoTx /\ RefundAfter' = RefundAfter /\ Handle' = Handle
      /\ \A tx : NearUsed(fin, tx)' = NearUsed(fin, tx)
      /\ \A tx : NearUsed(head, tx)' = NearUsed(head, tx)
      /\ Included(head)' = Included(head)
  BY Frame DEF NoTx, Handle, NearUsed, NearNonce, SameKey, Included
<1> HIDE DEF Dead, Handle, NearUsed, Included
<1>3. Dead(Handle) => Dead(Handle)'
  BY <1>1, <1>2
<1>4. Dead(bRec.refund) => Dead(bRec.refund)'
  BY <1>1
<1>5. NearUsed(fin, Handle)' = NearUsed(fin, Handle) /\ NearUsed(head, Handle)' = NearUsed(head, Handle)
  BY <1>2 DEF NearUsed, NearNonce, SameKey, Included
<1> QED
  BY <1>2, <1>3, <1>4, <1>5 DEF NearKept, NearPlaces

\* An answer that is not "never landed" or "failed" of a live handle keeps
\* what is on record.
LEMMA NearAnswerKept ==
  ASSUME LegInv, KeptInv, NearKept, rail = "near", FlowStep, handed' = handed,
         bAt \in NearPlaces, NEW answer, NearAnswer(bAt, answer), answer # "no handle",
         answer \in {"never-landed", "landed-failed"} => Dead(Handle)
  PROVE  KeptInv' /\ NearKept'
<1>0. /\ DOMAIN bRec = {"attempted", "lock", "locked", "refunding", "refund", "refunded", "tookB", "done"}
      /\ NoTx' = NoTx
  BY BuyerTyped
<1>h. /\ bSaw.of \in {"lock", "refund"}
      /\ bSaw.of = "lock" => Handle = bRec.lock
      /\ bSaw.of = "refund" => Handle = bRec.refund
  BY NearHandle DEF NearPlaces, LegInv
<1>d. \A tx : Dead(tx) => Dead(tx)'
  BY DeadInFlow DEF FlowStep
<1>1. CASE bSaw.of = "refund"
  <2>1. bRec' = bRec /\ bAt' = "observe" /\ bSaw'.saw = answer
    <3>1. bRec' = bRec /\ bAt' = "observe" /\ bSaw' = Saw("refund", answer, 0)
      BY <1>1 DEF NearAnswer, BGo
    <3>2. Saw("refund", answer, 0).saw = answer
      BY DEF Saw
    <3> QED
      BY <3>1, <3>2
  <2>2. answer \in {"never-landed", "landed-failed"} => Dead(bRec.refund)
    BY <1>h, <1>1
  <2> HIDE DEF Dead
  <2>3. KeptInv'
    BY <1>0, <1>d, <2>1, <2>2 DEF KeptInv
  <2>4. NearKept'
    BY <2>1, NearKeptFrame DEF NearPlaces
  <2> QED
    BY <2>3, <2>4
<1>2. CASE bSaw.of = "lock"
  <2>1. /\ bRec'.refund = bRec.refund /\ bAt' \in {"lock", "idle"}
        /\ bRec'.lock = bRec.lock \/ answer = "never-landed"
    BY <1>0, <1>2 DEF NearAnswer, BGo, BSet
  <2>2. bRec'.lock = bRec.lock \/ Dead(bRec.lock)
    BY <1>h, <1>2, <2>1
  <2> HIDE DEF Dead
  <2>3. KeptInv'
    BY <1>0, <1>d, <2>1, <2>2 DEF KeptInv
  <2>4. NearKept'
    BY <2>1, NearKeptFrame DEF NearPlaces
  <2> QED
    BY <2>3, <2>4
<1> QED
  BY <1>h, <1>1, <1>2

\* On NEAR a record lets go only of what is dead.
LEMMA NearBuyerKept ==
  ASSUME LegInv, KeptInv, NearPast, NearKept, rail = "near", NearBuyer
  PROVE  KeptInv' /\ NearKept'
<1>0. /\ DOMAIN bRec = {"attempted", "lock", "locked", "refunding", "refund", "refunded", "tookB", "done"}
      /\ NoTx' = NoTx /\ NoTx \notin handed /\ (~bRec.refunding => bRec.refund = NoTx)
      /\ bRec.lock = NoTx \/ (bRec.lock \in Tx /\ bRec.lock.kind = "lock")
      /\ bRec.refund = NoTx \/ (bRec.refund \in Tx /\ bRec.refund.kind = "refund")
      /\ bRec.lock # NoTx <=> bRec.attempted
      /\ bAt = "lock" => bRec.lock # NoTx
      /\ bAt \in {"send", "refund sent"} => bRec.refund # NoTx
      /\ DOMAIN bSaw = {"of", "saw", "at"}
  BY BuyerTyped
<1>f. FlowStep
  BY LegInvBuyer DEF BuyerStep
<1>d. \A tx : Dead(tx) => Dead(tx)'
  BY <1>f, DeadInFlow DEF FlowStep
<1>h. bAt \in NearPlaces =>
        /\ Handle \in Tx /\ Handle.kind = bSaw.of /\ bSaw.of \in {"lock", "refund"}
        /\ bSaw.of = "lock" => Handle = bRec.lock
        /\ bSaw.of = "refund" => Handle = bRec.refund /\ bRec.refund # NoTx
  BY NearHandle DEF NearPlaces, LegInv
<1>t. /\ rail \in Rails /\ head \in View /\ fin \in View /\ now \in Nat /\ RefundAfter \in Nat
      /\ Included(fin) \subseteq Included(head)
      /\ fin.leg \in {"claiming", "claimed"} => fin.shown
      /\ UNCHANGED <<rail, now, head, fin>> /\ RefundAfter' = RefundAfter
  BY <1>f, Frame, TermsTyped DEF LegInv, ChainInv, ChainTyped, Follows, Told, ViewTold, FlowStep
<1> USE DEF BGo, BSet
<1> HIDE DEF Dead
<1>1. CASE NearLock
  <2>1. handed' = handed /\ bAt' = "lock" /\ bRec'.refund = bRec.refund /\ bRec.lock = NoTx
    BY <1>0, <1>1 DEF NearLock, PrepareLock, BLocal, chainView
  <2>2. KeptInv'
    BY <1>0, <1>d, <2>1 DEF KeptInv
  <2> QED
    BY <1>f, <2>1, <2>2, NearKeptFrame DEF NearPlaces
<1>2. CASE NearSendLock
  <2>1. /\ handed' = handed \/ handed' = handed \cup {bRec.lock}
        /\ bAt' \in {"sent", "idle"} /\ bRec' = bRec /\ bAt = "lock"
    BY <1>2 DEF NearSendLock, NearHand, SendsNothing
  <2>2. KeptInv'
    BY <1>0, <1>d, <2>1 DEF KeptInv
  <2> QED
    BY <1>f, <2>1, <2>2, NearKeptFrame DEF NearPlaces
<1>3. CASE NearLockSent
  <2>1. handed' = handed /\ bAt' = "idle" /\ bRec'.lock = bRec.lock /\ bRec'.refund = bRec.refund
    BY <1>0, <1>3 DEF NearLockSent, BLocal, chainView
  <2>2. KeptInv'
    BY <1>0, <1>d, <2>1 DEF KeptInv
  <2> QED
    BY <1>f, <2>1, <2>2, NearKeptFrame DEF NearPlaces
<1>k. ASSUME NEW tx, NEW from, NEW to \in {"look", "look again"}, NearReadKey(tx, from, to),
             tx \in Tx, tx.kind \in {"lock", "refund"},
             tx = IF tx.kind = "lock" THEN bRec.lock ELSE bRec.refund,
             tx.kind # "lock" => now >= RefundAfter /\ ~fin.shown
      PROVE  KeptInv' /\ NearKept'
  <2>1. handed' = handed /\ bAt' = to /\ bRec' = bRec
    BY <1>k DEF NearReadKey, BLocal, chainView
  <2>2. KeptInv'
    BY <1>0, <1>d, <1>k, <2>1 DEF KeptInv
  <2>3. bSaw' = Saw(tx.kind, IF NearUsed(fin, tx) THEN "used" ELSE "fresh", now - 1)
    BY <1>k DEF NearReadKey
  <2>4. bSaw'.of = tx.kind /\ bSaw'.saw = IF NearUsed(fin, tx) THEN "used" ELSE "fresh"
    BY <2>3 DEF Saw
  <2>5. bSaw'.saw = "used" => NearUsed(fin, tx)
    BY <2>4
  <2>6. Handle' = tx
    BY <1>k, <2>1, <2>4 DEF Handle
  <2>7. bSaw'.saw = "used" => NearUsed(fin, Handle)'
    <3>1. fin' = fin
      BY <1>t
    <3> QED
      BY <2>5, <2>6, <3>1 DEF NearUsed, NearNonce, SameKey, Included
  <2>8. (bRec.refund # NoTx => /\ fin.leg # "none"
                               /\ fin.leg \in {"refunding", "refunded"} => Dead(bRec.refund))'
    BY <1>0, <1>d, <1>t, <2>1 DEF NearKept
  <2>9. bSaw'.of # "lock" => now' >= RefundAfter' /\ ~fin'.shown
    BY <1>k, <1>t, <2>4
  <2>10. bAt' \in {"look", "look again"} /\ bAt' # "settle" /\ bAt' # "recover"
    BY <1>k, <2>1
  <2> HIDE DEF NearUsed, Handle, Included
  <2>11. NearKept'
    BY <2>7, <2>8, <2>9, <2>10 DEF NearKept
  <2> QED
    BY <2>2, <2>11
<1>4. CASE NearRecoverLock
  BY <1>0, <1>k, <1>4 DEF NearRecoverLock
<1>5. CASE NearRecoverRefund
  <2>0. bAt = "recover" /\ now >= RefundAfter /\ ~fin.shown
    BY <1>5 DEF NearRecoverRefund, NearReadKey, NearKept
  <2>1. CASE bRec.refund # NoTx /\ NearReadKey(bRec.refund, "recover", "look")
    BY <1>0, <1>k, <2>0, <2>1
  <2>2. CASE bRec.refund = NoTx /\ bAt' = "observe" /\ bRec' = bRec /\ BLocal
    <3>1. handed' = handed
      BY <2>2 DEF BLocal, chainView
    <3>2. KeptInv'
      BY <1>0, <1>d, <2>2, <3>1 DEF KeptInv
    <3> QED
      BY <1>f, <2>2, <3>2, NearKeptFrame DEF NearPlaces
  <2> QED
    BY <1>5, <2>1, <2>2 DEF NearRecoverRefund
<1>m. ASSUME bAt \in NearPlaces, bRec' = bRec, bSaw'.of = bSaw.of,
             handed' = handed \/ handed' = handed \cup {Handle},
             bAt' \in {"idle", "key again", "resend", "resent", "settle"},
             bAt' = "settle" =>
               \/ Dead(Handle)
               \/ NearUsed(head, Handle) /\ Handle \notin Included(head) /\ now = bSaw'.at
      PROVE  KeptInv' /\ NearKept'
  <2>1. Handle' = Handle
    BY <1>m DEF Handle
  <2>2. KeptInv'
    BY <1>0, <1>d, <1>h, <1>m DEF KeptInv
  <2>3. (bRec.refund # NoTx => /\ fin.leg # "none"
                               /\ fin.leg \in {"refunding", "refunded"} => Dead(bRec.refund))'
    BY <1>0, <1>d, <1>t, <1>m DEF NearKept
  <2>4. bSaw'.of # "lock" => now' >= RefundAfter' /\ ~fin'.shown
    BY <1>t, <1>m DEF NearKept
  <2>5. Dead(Handle) => Dead(Handle)'
    <3> HIDE DEF Handle
    <3> QED
      BY <1>d, <2>1
  <2>6. NearUsed(head, Handle) /\ Handle \notin Included(head) =>
          NearUsed(head, Handle)' /\ (Handle \notin Included(head))'
    BY <1>t, <2>1 DEF NearUsed, NearNonce, SameKey, Included
  <2> HIDE DEF NearUsed, Handle, Included
  <2>7. NearKept'
    BY <1>m, <1>t, <2>3, <2>4, <2>5, <2>6 DEF NearKept
  <2> QED
    BY <2>2, <2>7
<1>6. CASE NearLook
  <2> DEFINE answer == NearRead(Handle)
  <2>0. bAt \in {"look", "look again"} /\ handed' = handed
    BY <1>6 DEF NearLook, BLocal, chainView
  <2>1. Handle \in Tx /\ bAt \in NearPlaces
    BY <1>h, <2>0 DEF NearPlaces
  <2>2. answer = "landed-failed" => Dead(Handle)
    <3>1. answer = "landed-failed" => NearFinished(Handle)
      BY DEF NearRead, NearRow
    <3> QED
      BY <3>1 DEF NearFinished, Dead
  <2>3. answer = "settle" => Dead(Handle)
    <3>1. answer = "settle" => Handle \notin Included(fin) /\ bSaw.saw = "used"
      BY DEF NearRead, NearRow
    <3>2. answer = "settle" => NearUsed(fin, Handle)
      BY <2>0, <3>1 DEF NearKept
    <3> QED
      BY <2>1, <3>1, <3>2, NearUsedUp
  <2> HIDE DEF answer
  <2>4. CASE answer \in {"landed", "landed-failed", "pending"} /\ NearAnswer(bAt, answer)
    BY <1>f, <2>0, <2>1, <2>2, <2>4, NearAnswerKept
  <2>5. CASE /\ bAt' \in {"settle", "idle", "key again", "resend"} /\ UNCHANGED <<bRec, bSaw>>
             /\ bAt' = "settle" => answer = "settle"
    BY <1>m, <2>0, <2>1, <2>3, <2>5
  <2>6. \/ answer \in {"landed", "landed-failed", "pending"} /\ NearAnswer(bAt, answer)
        \/ /\ bAt' \in {"settle", "idle", "key again", "resend"} /\ UNCHANGED <<bRec, bSaw>>
           /\ bAt' = "settle" => answer = "settle"
    BY <1>6 DEF NearLook, answer
  <2> QED
    BY <2>4, <2>5, <2>6
<1>7. CASE NearLookAgain
  <2>1. bAt = "key again" /\ bAt \in NearPlaces
    BY <1>7 DEF NearLookAgain, NearReadKey, NearPlaces
  <2>2. /\ Handle \in Tx /\ Handle.kind \in {"lock", "refund"}
        /\ Handle = IF Handle.kind = "lock" THEN bRec.lock ELSE bRec.refund
        /\ Handle.kind # "lock" => now >= RefundAfter /\ ~fin.shown
    BY <1>h, <2>1 DEF NearKept
  <2> HIDE DEF Handle
  <2> QED
    BY <1>7, <1>k, <2>2 DEF NearLookAgain
<1>8. CASE NearSettle
  <2>1. bAt = "settle" /\ bAt \in NearPlaces /\ handed' = handed
    BY <1>8 DEF NearSettle, BLocal, chainView, NearPlaces
  <2>2. NearSettled => Dead(Handle)
    BY <1>t, <2>1 DEF NearKept, NearSettled
  <2>3. NearRow(bSaw.of) \in {"landed", "pending", "nothing"}
    BY DEF NearRow
  <2>4. \E answer \in {"landed", "pending", "never-landed"} :
           NearAnswer(bAt, answer) /\ (answer = "never-landed" => NearSettled)
    BY <1>8, <2>1, <2>3 DEF NearSettle
  <2>5. PICK answer \in {"landed", "pending", "never-landed"} :
           NearAnswer(bAt, answer) /\ (answer = "never-landed" => NearSettled)
    BY <2>4
  <2> QED
    BY <1>f, <2>1, <2>2, <2>5, NearAnswerKept
<1>9. CASE NearResend
  <2>1. bAt = "resend" /\ bAt \in NearPlaces
    BY <1>9 DEF NearResend, NearAnswer, NearPlaces
  <2>2. CASE bSaw.of = "refund" /\ fin.leg # "locked" /\ NearAnswer(bAt, "never-landed") /\ BLocal
    <3>1. Handle = bRec.refund /\ bRec.refund # NoTx /\ fin.leg # "none" /\ ~fin.shown
      BY <1>h, <2>1, <2>2 DEF NearKept
    <3>2. fin.leg \in {"refunding", "refunded"}
      BY <1>t, <2>2, <3>1 DEF View, LegStatuses
    <3>3. Dead(Handle)
      BY <3>1, <3>2 DEF NearKept
    <3>4. handed' = handed
      BY <2>2 DEF BLocal, chainView
    <3> QED
      BY <1>f, <2>1, <2>2, <3>3, <3>4, NearAnswerKept
  <2>3. bSaw' = [bSaw EXCEPT !.at = now] => bSaw'.of = bSaw.of /\ bSaw'.at = now
    BY <1>0
  <2>4. CASE /\ bRec' = bRec /\ bAt' = "resent" /\ bSaw' \in {bSaw, [bSaw EXCEPT !.at = now]}
             /\ handed' = handed \/ handed' = handed \cup {Handle}
    BY <1>m, <2>1, <2>3, <2>4
  <2>5. CASE /\ bRec' = bRec /\ bAt' = "settle" /\ handed' = handed
             /\ bSaw' = [bSaw EXCEPT !.at = now]
             /\ NearUsed(head, Handle) /\ Handle \notin Included(head)
    BY <1>m, <2>1, <2>3, <2>5
  <2>6. \/ bSaw.of = "refund" /\ fin.leg # "locked" /\ NearAnswer(bAt, "never-landed") /\ BLocal
        \/ /\ bRec' = bRec /\ bAt' = "resent" /\ bSaw' \in {bSaw, [bSaw EXCEPT !.at = now]}
           /\ handed' = handed \/ handed' = handed \cup {Handle}
        \/ /\ bRec' = bRec /\ bAt' = "settle" /\ handed' = handed
           /\ bSaw' = [bSaw EXCEPT !.at = now]
           /\ NearUsed(head, Handle) /\ Handle \notin Included(head)
    BY <1>9, <2>1 DEF NearResend, SendsNothing, NearHand
  <2> QED
    BY <2>2, <2>4, <2>5, <2>6
<1>10. CASE NearResent
  <2>1. bAt = "resent" /\ bAt \in NearPlaces /\ handed' = handed
    BY <1>10 DEF NearResent, NearAnswer, BLocal, chainView, NearPlaces
  <2>2. NearFinished(Handle) => Dead(Handle)
    BY DEF NearFinished, Dead
  <2>3. \E answer \in {"landed", "landed-failed", "pending"} :
           NearAnswer(bAt, answer) /\ (answer = "landed-failed" => NearFinished(Handle))
    BY <1>10, <2>1 DEF NearResent
  <2>4. PICK answer \in {"landed", "landed-failed", "pending"} :
           NearAnswer(bAt, answer) /\ (answer = "landed-failed" => NearFinished(Handle))
    BY <2>3
  <2> QED
    BY <1>f, <2>1, <2>2, <2>4, NearAnswerKept
<1>11. CASE NearRefundLegA
  <2>1. SharedBuyer
    BY <1>11 DEF SharedBuyer, NearRefundLegA, RefundLegA
  <2>2. KeptInv'
    BY <2>1, SharedKept
  <2>3. /\ bRec' = bRec /\ bAt' \in {"verify", "recover", "sign"}
        /\ now >= RefundAfter /\ ~fin.shown
    BY <1>11 DEF NearRefundLegA, RefundLegA
  <2>4. (bRec.refund # NoTx => /\ fin.leg # "none"
                               /\ fin.leg \in {"refunding", "refunded"} => Dead(bRec.refund))'
    BY <1>0, <1>d, <1>t, <2>3 DEF NearKept
  <2>5. NearKept'
    BY <1>t, <2>3, <2>4 DEF NearKept, NearPlaces
  <2> QED
    BY <2>2, <2>5
<1>12. CASE NearSignRefund
  <2>1. /\ handed' = handed /\ bAt = "sign" /\ bAt' \in {"send", "failed"} /\ bRec'.lock = bRec.lock
        /\ bAt' = "failed" => bRec'.refund = bRec.refund
        /\ bAt' = "send" => fin.leg = "locked" /\ bRec'.refund = NearNext("refund")
    BY <1>0, <1>12 DEF NearSignRefund, BLocal, chainView
  <2>2. bRec.refund = NoTx /\ \A tx \in handed : tx.kind = "refund" => Dead(tx)
    BY <1>0, <2>1 DEF KeptInv
  <2>3. NearNext("refund").kind = "refund"
    BY DEF NearNext
  <2>4. bAt' = "send" => bRec'.refund \notin handed' \/ Dead(bRec'.refund)
    BY <2>1, <2>2, <2>3
  <2>5. bAt' = "send" => bRec'.refund \notin handed' \/ Dead(bRec.refund)'
    BY <1>t, <2>4 DEF Dead, Spent, NearUsed, NearNonce, SameKey, Included
  <2>6. KeptInv'
    BY <1>0, <1>d, <2>1, <2>2, <2>5 DEF KeptInv
  <2>7. CASE bAt' = "failed"
    BY <1>f, <2>1, <2>6, <2>7, NearKeptFrame DEF NearPlaces
  <2>8. CASE bAt' = "send"
    BY <1>t, <2>1, <2>6, <2>8 DEF NearKept, NearPlaces
  <2> QED
    BY <2>1, <2>7, <2>8
<1>13. CASE NearSendRefund
  <2>1. bAt = "send" /\ bAt' \in {"refund sent", "failed"}
    BY <1>13 DEF NearSendRefund
  <2>2. CASE bAt' = "refund sent" /\ handed' = handed \cup {bRec.refund} /\ bRec' = bRec
    BY <1>0, <1>d, <1>f, <2>1, <2>2, NearKeptFrame DEF KeptInv, NearPlaces
  <2>3. CASE /\ bAt' = "failed" /\ handed' = handed /\ bRec'.lock = bRec.lock
             /\ bRec'.refund \in {bRec.refund, NoTx}
    BY <1>0, <1>d, <1>f, <2>1, <2>3, NearKeptFrame DEF KeptInv, NearPlaces
  <2> QED
    BY <1>0, <1>13, <2>2, <2>3 DEF NearSendRefund, NearHand, SendsNothing
<1>14. CASE NearRefundSent
  <2>1. /\ handed' = handed /\ bAt' \in {"verify", "failed"} /\ bRec'.lock = bRec.lock /\ bRec'.refund = bRec.refund
    BY <1>0, <1>14 DEF NearRefundSent, BLocal, chainView
  <2>2. KeptInv'
    BY <1>0, <1>d, <2>1 DEF KeptInv
  <2> QED
    BY <1>f, <2>1, <2>2, NearKeptFrame DEF NearPlaces
<1>15. CASE RecoverRefundA \/ RefundFailed \/ ReportRefund
  <2>1. KeptInv'
    BY <1>15, SharedKept DEF SharedBuyer
  <2>2. bAt' \in {"verify", "idle", "sign"} /\ bRec'.refund \in {bRec.refund, NoTx}
    BY <1>0, <1>15 DEF RecoverRefundA, RefundFailed, ReportRefund, SeenRefunded, SeenClaimed, SeenNeither
  <2> QED
    BY <1>f, <2>1, <2>2, NearKeptFrame DEF NearPlaces
<1> QED
  BY <1>1, <1>2, <1>3, <1>4, <1>5, <1>6, <1>7, <1>8, <1>9, <1>10, <1>11, <1>12, <1>13, <1>14, <1>15
     DEF NearBuyer

-----------------------------------------------------------------------------

\* A claim handed over on Solana is on the Seller's record until one landed,
\* or dead; a claim that is about to be sent is on record and was never handed
\* over before, for it is numbered past those that were.
ClaimsKept ==
  /\ \A tx \in Handed("claim") : sRec.landed \/ tx \in sRec.claims \/ Dead(tx)
  /\ \A tx \in Handed("claim") : tx.n <= Cardinality(Handed("claim"))
  /\ sAt = "send" => sSaw.at \in sRec.claims /\ sSaw.at.n = 1 + Cardinality(Handed("claim"))

\* It holds at first.
LEMMA ClaimsKeptInitially == LegInit => ClaimsKept
BY DEF LegInit, ClaimsKept, Handed

\* The claims handed over are finitely many transactions.
LEMMA ClaimsFinite ==
  ASSUME LegInv
  PROVE  /\ Handed("claim") \subseteq Tx /\ IsFiniteSet(Handed("claim"))
         /\ Cardinality(Handed("claim")) \in Nat
<1>1. Handed("claim") \subseteq Tx /\ rail \in Rails
  BY DEF Handed, LegInv, ChainInv, ChainTyped
<1>2. IsFiniteSet(Handed("claim"))
  BY <1>1, TxFinite, FS_Subset
<1> QED
  BY <1>1, <1>2, FS_CardinalityType

\* The Buyer and the chain hand no claim over.
LEMMA ClaimsKeptElsewhere ==
  ASSUME LegInv, ClaimsKept, rail = "sol", BuyerStep \/ ChainStep \/ UNCHANGED legVars
  PROVE  ClaimsKept'
<1>0. /\ handed \subseteq Tx /\ handed' \subseteq Tx /\ handed \subseteq handed' /\ sRec' = sRec /\ sAt' = sAt /\ sSaw' = sSaw
  <2>1. CASE BuyerStep
    BY <2>1, LegInvBuyer, BuyerLeaves DEF FlowStep, sellerSide, LegInv, ChainInv, ChainTyped
  <2>2. CASE ChainStep
    BY <2>2, ChainLeaves DEF sellerSide, LegInv, ChainInv, ChainTyped
  <2>3. CASE UNCHANGED legVars
    BY <2>3, UnchangedLegs DEF LegInv, ChainInv, ChainTyped
  <2> QED
    BY <2>1, <2>2, <2>3
<1>1. \A tx \in handed' \ handed : tx.kind # "claim"
  <2>1. CASE BuyerStep
    <3>1. /\ bRec.lock = NoTx \/ bRec.lock.kind = "lock"
          /\ bRec.refund = NoTx \/ bRec.refund.kind = "refund"
      BY BuyerTyped
    <3>2. handed' \subseteq handed \cup {bRec.lock, bRec.refund}
      BY <2>1, BuyerHands
    <3>3. NoTx.kind # "claim"
      BY DEF NoTx
    <3> QED
      BY <3>1, <3>2, <3>3
  <2>2. CASE ChainStep \/ UNCHANGED legVars
    BY <2>2, ChainLeaves, UnchangedLegs
  <2> QED
    BY <2>1, <2>2
<1>2. Handed("claim")' = Handed("claim")
  BY <1>0, <1>1 DEF Handed
<1>3. \A tx \in Tx : Dead(tx) => Dead(tx)'
  <2>1. CASE BuyerStep
    BY <2>1, LegInvBuyer, DeadInFlow DEF FlowStep
  <2>2. CASE ChainStep
    BY <2>2, DeadStays
  <2>3. CASE UNCHANGED legVars
    BY <2>3, UnchangedLegs, DeadInFlow
  <2> QED
    BY <2>1, <2>2, <2>3
<1>4. Handed("claim") \subseteq Tx
  BY ClaimsFinite
<1> HIDE DEF Dead, Handed
<1> QED
  BY <1>0, <1>2, <1>3, <1>4 DEF ClaimsKept

\* The Seller lets go of a claim only when it is dead, never sent, or one landed.
LEMMA SolClaimsKept ==
  ASSUME LegInv, ClaimsKept, rail = "sol", SolSeller \/ SellerThrows
  PROVE  ClaimsKept'
<1>0. /\ DOMAIN sRec = {"attempted", "claims", "sent", "starved", "public", "landed"}
      /\ sRec.claims \subseteq Tx
      /\ sAt = "claim sent" => sSaw.at \in Tx
      /\ sAt = "send" => sSaw.at \in Tx /\ sSaw.at.kind = "claim"
      /\ DOMAIN sSaw = {"of", "saw", "at"}
  BY DEF LegInv, SellerInv, SellerRecord
<1>f. FlowStep
  BY LegInvSeller DEF SellerStep
<1>d. \A tx : Dead(tx) => Dead(tx)'
  BY <1>f, DeadInFlow DEF FlowStep
<1>o. \A tx \in Tx : SolAnswer(tx) \in {"never-landed", "landed-failed"} => Dead(tx)
  BY SolOver
<1>c. /\ Handed("claim") \subseteq Tx /\ IsFiniteSet(Handed("claim"))
      /\ Cardinality(Handed("claim")) \in Nat
      /\ \A tx \in Tx : tx.n \in Nat
  BY ClaimsFinite, TermsTyped, TxFields DEF LegInv, ChainInv, ChainTyped
<1>h. handed' = handed => Handed("claim")' = Handed("claim")
  BY DEF Handed
<1>r. ASSUME handed' = handed, sAt' # "send",
             \/ sRec'.landed
             \/ /\ sRec'.landed = sRec.landed
                /\ \A tx \in sRec.claims \ sRec'.claims : Dead(tx) \/ tx \notin Handed("claim")
      PROVE  ClaimsKept'
  <2> HIDE DEF Dead, Handed
  <2> QED
    BY <1>d, <1>h, <1>r DEF ClaimsKept
<1> USE DEF SGo, SSet
<1>1. CASE SolResolve
  <2>1. handed' = handed /\ sAt' # "send"
    BY <1>1 DEF SolResolve, chainView
  <2>2. PICK tx \in sRec.claims :
          \/ sRec' = [sRec EXCEPT !.claims = {}, !.landed = TRUE]
          \/ /\ SolAnswer(tx) = "never-landed"
             /\ sRec' = [sRec EXCEPT !.claims = sRec.claims \ {tx}, !.starved = TRUE]
          \/ /\ SolAnswer(tx) = "landed-failed"
             /\ sRec' = [sRec EXCEPT !.claims = sRec.claims \ {tx}, !.public = TRUE]
    BY <1>1 DEF SolResolve
  <2>3. sRec'.landed \/ (Dead(tx) /\ sRec'.landed = sRec.landed /\ sRec'.claims = sRec.claims \ {tx})
    BY <1>0, <1>o, <2>2
  <2> HIDE DEF Dead
  <2> QED
    BY <1>r, <2>1, <2>3
<1>2. CASE SolClaimLegA \/ SolClaimNotSigned \/ SellerThrows
  <2>1. /\ handed' = handed /\ sAt' \in {"idle", "sign"}
        /\ sRec'.landed \/ (sRec'.landed = sRec.landed /\ sRec'.claims = sRec.claims)
    BY <1>0, <1>2 DEF SolClaimLegA, SolClaimNotSigned, SellerThrows, SLocal, chainView
  <2> QED
    BY <1>r, <2>1
<1>3. CASE SolSignClaim
  <2> DEFINE tx == SolNext("claim")
  <2>1. /\ handed' = handed /\ sAt' = "send" /\ sSaw'.at = tx
        /\ sRec' = [sRec EXCEPT !.claims = sRec.claims \cup {tx}]
    BY <1>0, <1>3 DEF SolSignClaim, SLocal, chainView
  <2>2. tx.n = 1 + Cardinality(Handed("claim"))
    BY DEF SolNext, NextTx, Handed
  <2>3. sRec'.landed = sRec.landed /\ sRec'.claims = sRec.claims \cup {tx}
    BY <1>0, <2>1
  <2> HIDE DEF tx, Dead, Handed
  <2> QED
    BY <1>d, <1>h, <2>1, <2>2, <2>3 DEF ClaimsKept
<1>4. CASE SolSendClaim
  <2> DEFINE tx == sSaw.at
  <2>0. /\ sAt = "send" /\ tx \in Tx /\ tx.kind = "claim" /\ tx \in sRec.claims
        /\ tx.n = 1 + Cardinality(Handed("claim"))
    BY <1>0, <1>4 DEF SolSendClaim, ClaimsKept
  <2>1. tx \notin Handed("claim")
    BY <1>c, <2>0 DEF ClaimsKept
  <2>2. CASE sAt' = "claim sent" /\ handed' = handed \cup {tx} /\ sRec' = sRec
    <3>1. Handed("claim")' = Handed("claim") \cup {tx}
      BY <2>0, <2>2 DEF Handed
    <3>2. Cardinality(Handed("claim"))' = Cardinality(Handed("claim")) + 1
      BY <1>c, <2>1, <3>1, FS_AddElement
    <3> HIDE DEF tx, Dead, Handed
    <3>3. \A other \in Handed("claim")' : other.n <= Cardinality(Handed("claim"))'
      BY <1>c, <2>0, <3>1, <3>2 DEF ClaimsKept
    <3>4. \A other \in Handed("claim")' : (sRec.landed \/ other \in sRec.claims \/ Dead(other))'
      BY <1>d, <2>0, <2>2, <3>1 DEF ClaimsKept
    <3> QED
      BY <2>2, <3>3, <3>4 DEF ClaimsKept
  <2>3. CASE sAt' = "idle" /\ handed' = handed /\ sRec' = [sRec EXCEPT !.claims = sRec.claims \ {tx}]
    <3>1. sRec'.landed = sRec.landed /\ sRec'.claims = sRec.claims \ {tx}
      BY <1>0, <2>3
    <3> HIDE DEF tx, Handed
    <3> QED
      BY <1>r, <2>1, <2>3, <3>1
  <2> QED
    BY <1>4, <2>2, <2>3 DEF SolSendClaim, SolHand, SendsNothing
<1>5. CASE SolClaimSent
  <2> DEFINE tx == sSaw.at
  <2>1. handed' = handed /\ sAt' \in {"idle", "sign"} /\ tx \in Tx
    BY <1>0, <1>5 DEF SolClaimSent, SolSignAgain, SolGiveUp, chainView
  <2>2. \/ sRec' = [sRec EXCEPT !.claims = sRec.claims \ {tx}, !.landed = TRUE]
        \/ /\ SolAnswer(tx) = "never-landed"
           /\ sRec' = [sRec EXCEPT !.claims = sRec.claims \ {tx}, !.starved = TRUE]
        \/ /\ SolAnswer(tx) = "landed-failed"
           /\ sRec' = [sRec EXCEPT !.claims = sRec.claims \ {tx}, !.public = TRUE]
        \/ sRec' = sRec
    BY <1>5 DEF SolClaimSent
  <2> HIDE DEF tx
  <2>3. \/ sRec'.landed
        \/ Dead(tx) /\ sRec'.landed = sRec.landed /\ sRec'.claims = sRec.claims \ {tx}
        \/ sRec' = sRec
    BY <1>0, <1>o, <2>1, <2>2
  <2> HIDE DEF Dead
  <2> QED
    BY <1>r, <2>1, <2>3
<1> QED
  BY <1>1, <1>2, <1>3, <1>4, <1>5 DEF SolSeller

-----------------------------------------------------------------------------

\* What is kept on the two rails that sign anew.
StrayInv ==
  rail # "btc" =>
    /\ KeptInv
    /\ rail = "near" => NearPast /\ NearKept
    /\ rail = "sol" => ClaimsKept

\* It holds at first.
LEMMA StrayInitially == LegInit => StrayInv
<1>1. LegInit => KeptInv
  BY DEF LegInit, KeptInv
<1> QED
  BY <1>1, NearPastInitially, NearKeptInitially, ClaimsKeptInitially DEF StrayInv

\* Every step keeps it.
LEMMA StrayNext == LegInv /\ StrayInv /\ [LegsNext]_legVars => StrayInv'
<1> SUFFICES ASSUME LegInv, StrayInv, [LegsNext]_legVars
             PROVE  StrayInv'
  OBVIOUS
<1>0. BuyerStep \/ SellerStep \/ ChainStep \/ UNCHANGED legVars
  BY StepsOfThree
<1>1. rail' = rail
  BY <1>0, LegInvBuyer, LegInvSeller, ChainLeaves, UnchangedLegs DEF FlowStep
<1>2. CASE rail = "btc"
  BY <1>1, <1>2 DEF StrayInv
<1>3. CASE rail = "near"
  <2>0. KeptInv /\ NearPast /\ NearKept
    BY <1>3 DEF StrayInv
  <2>1. CASE BuyerStep
    <3>1. UNCHANGED <<rail, now, head, fin>>
      BY <2>1, LegInvBuyer DEF FlowStep
    <3>2. NearPast'
      BY <2>0, <3>1, NearPastFrame
    <3>3. CASE NearBuyer
      BY <1>1, <1>3, <2>0, <3>2, <3>3, NearBuyerKept DEF StrayInv
    <3>4. CASE BuyerThrows
      <4>1. FlowStep /\ KeptInv'
        BY <1>3, <2>0, <2>1, <3>4, SharedKept, LegInvBuyer DEF SharedBuyer
      <4>2. bRec' = bRec /\ bAt' = "idle"
        BY <3>4 DEF BuyerThrows
      <4>3. NearKept'
        BY <2>0, <4>1, <4>2, NearKeptFrame DEF NearPlaces
      <4> QED
        BY <1>1, <1>3, <3>2, <4>1, <4>3 DEF StrayInv
    <3> QED
      BY <1>3, <2>1, <3>3, <3>4 DEF BuyerStep
  <2>2. CASE SellerStep \/ UNCHANGED legVars
    <3>1. UNCHANGED <<rail, now, head, fin, bRec, bAt, bSaw>>
      BY <2>2, LegInvSeller, SellerLeaves, UnchangedLegs DEF FlowStep, buyerSide
    <3>2. NearPast' /\ NearKept'
      BY <2>0, <3>1, NearPastFrame, NearKeptElsewhere
    <3>3. KeptInv'
      BY <1>3, <2>0, <2>2, KeptElsewhere
    <3> QED
      BY <1>1, <1>3, <3>2, <3>3 DEF StrayInv
  <2>3. CASE ChainStep
    <3>1. NearPast' /\ NearKept' /\ KeptInv'
      BY <1>3, <2>0, <2>3, NearPastChain, NearKeptChain, KeptElsewhere
    <3> QED
      BY <1>1, <1>3, <3>1 DEF StrayInv
  <2> QED
    BY <1>0, <2>1, <2>2, <2>3
<1>4. CASE rail = "sol"
  <2>0. KeptInv /\ ClaimsKept
    BY <1>4 DEF StrayInv
  <2>1. KeptInv'
    <3>1. CASE SolBuyer
      BY <1>4, <2>0, <3>1, SolKept
    <3>2. CASE SolTakeLegB \/ BuyerThrows
      <4>1. SharedBuyer
        BY <3>2 DEF SharedBuyer, SolTakeLegB, TakeLegB
      <4> QED
        BY <1>4, <2>0, <4>1, SharedKept
    <3>3. CASE SellerStep \/ ChainStep \/ UNCHANGED legVars
      BY <1>4, <2>0, <3>3, KeptElsewhere
    <3> QED
      BY <1>0, <1>4, <3>1, <3>2, <3>3 DEF BuyerStep
  <2>2. ClaimsKept'
    <3>1. CASE BuyerStep \/ ChainStep \/ UNCHANGED legVars
      BY <1>4, <2>0, <3>1, ClaimsKeptElsewhere
    <3>2. CASE SolSeller \/ SellerThrows
      BY <1>4, <2>0, <3>2, SolClaimsKept
    <3> QED
      BY <1>0, <1>4, <3>1, <3>2 DEF SellerStep
  <2> QED
    BY <1>1, <1>4, <2>1, <2>2 DEF StrayInv
<1> QED
  BY <1>2, <1>3, <1>4, LegRails

\* The recovery rule of all three rails: what was sent and may still take effect,
\* now or after a fork, is on its flow's record, so that a flow that starts
\* again finds it before it signs another (recoverLockA, recoverRefundA,
\* resolveRecordedClaims).
THEOREM NothingGoesAstray == LegsSpec => []NoStrayTx
<1>1. LegInv /\ StrayInv => NoStrayTx
  <2> SUFFICES ASSUME LegInv, StrayInv, NEW tx \in handed, MayTakeEffect(tx), NeedsRecord(tx)
               PROVE  tx \in OnRecord
    BY DEF NoStrayTx
  <2>0. tx \in Tx
    BY DEF LegInv, ChainInv, ChainTyped
  <2>1. tx.kind \in {"lock", "claim", "refund"}
    BY <2>0, TxFields DEF Kinds, NeedsRecord
  <2>2. CASE rail = "btc"
    BY <2>1, <2>2 DEF LegInv, BtcOnce, OnRecord
  <2>3. CASE rail # "btc"
    <3>1. ~Dead(tx)
      BY <2>0, DeadMeans
    <3>2. tx.kind = "claim" => rail = "sol" /\ ~sRec.landed /\ tx \in Handed("claim")
      BY <2>3 DEF NeedsRecord, Handed
    <3> HIDE DEF Dead
    <3> QED
      BY <2>1, <2>3, <3>1, <3>2 DEF StrayInv, KeptInv, ClaimsKept, OnRecord
  <2> QED
    BY <2>2, <2>3
<1>2. LegInit => LegInv /\ StrayInv
  BY LegInvInit, StrayInitially
<1>3. LegInv /\ StrayInv /\ [LegsNext]_legVars => (LegInv /\ StrayInv)'
  BY LegInvNext, StrayNext
<1> QED
  BY <1>1, <1>2, <1>3, PTL DEF LegsSpec

=============================================================================
