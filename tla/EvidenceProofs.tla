--------------------------- MODULE EvidenceProofs ---------------------------
(***************************************************************************)
(* The evidence of a leg on each of the four rails is right about the      *)
(* blocks that no fork can replace, for every depth of forks, any number   *)
(* of blocks, and reads that lag, fail and straddle new blocks and forks.  *)
(***************************************************************************)
EXTENDS MCEvidence, SumTheorems, SequenceTheorems, TLAPS

-----------------------------------------------------------------------------
(* The chain *)

\* What is kept of a block.
Block == [height : Nat, leg : LegStates, payable : BOOLEAN]

\* The legs there are where a payout is part of the transaction.
Plain == {"none", "locked", "claimed", "refunded"}

\* How the leg of a block and that of a later one go together.
Leads(l, m) ==
  /\ l \in {"claimed", "refunded"} => m = l
  /\ l # "none" => m # "none"
  /\ rail # "near" /\ l \in Plain => m \in Plain

\* The type of the chain's variables.
WorldTypeOK ==
  /\ rail \in Rails /\ ours \in BOOLEAN /\ lines \in BOOLEAN
  /\ blocks \in Seq(Block)
  /\ chain \in Seq(Nat) /\ Tip >= 1 /\ \A h \in 1..Tip : chain[h] \in 1..Len(blocks)

\* The chain as its blocks made it: along it the leg only goes on, and no rail
\* but NEAR has a payout that is a step of its own.
WorldInv ==
  /\ WorldTypeOK
  /\ \A h, j \in 1..Tip : h <= j => Leads(BlockAt(h).leg, BlockAt(j).leg)
  /\ rail # "near" => \A h \in 1..Tip : BlockAt(h).leg \in Plain
  /\ rail \in {"btc", "evm"} => \A h \in 1..Tip : BlockAt(h).payable

\* The depth of a fork is a number.
LEMMA DepthIsNat == WorldTypeOK => Depth \in Nat
BY EvidenceAssumption DEF WorldTypeOK, Depth

\* The newest final block is on the chain, no deeper below its tip than forks
\* go.
LEMMA FinalIsOnChain ==
  ASSUME WorldTypeOK
  PROVE  Tip \in Nat /\ FinalHeight \in 1..Tip /\ FinalHeight >= Tip - Depth
<1>1. Depth \in Nat /\ Tip \in Nat /\ Tip >= 1
  BY DepthIsNat DEF WorldTypeOK, Tip
<1> QED
  BY <1>1 DEF FinalHeight, Max2

\* What one block does to the leg.
LEMMA StepLeads ==
  ASSUME NEW l \in LegStates, NEW m \in InOneBlock(l)
  PROVE  m \in LegStates /\ Leads(l, m)
BY DEF InOneBlock, OneStep, Leads, LegStates, Plain

\* What one block does to the leg adds up over a branch.
LEMMA BranchLeads ==
  ASSUME NEW l \in LegStates, NEW k \in Nat, NEW ls \in [1..k -> LegStates],
         \A i \in 1..k : ls[i] \in InOneBlock(IF i = 1 THEN l ELSE ls[i - 1])
  PROVE  /\ \A j \in 1..k : Leads(l, ls[j])
         /\ \A i, j \in 1..k : i <= j => Leads(ls[i], ls[j])
<1>1. \A i \in 1..k : i # 1 => Leads(ls[i - 1], ls[i])
  <2> SUFFICES ASSUME NEW i \in 1..k, i # 1 PROVE Leads(ls[i - 1], ls[i])
    OBVIOUS
  <2>1. ls[i - 1] \in LegStates /\ ls[i] \in InOneBlock(ls[i - 1])
    OBVIOUS
  <2> QED
    BY <2>1, StepLeads
<1>2. 1 \in 1..k => Leads(l, ls[1])
  BY StepLeads
<1>3. \A x, y, z : Leads(x, y) /\ Leads(y, z) => Leads(x, z)
  BY DEF Leads
<1>4. \A x : Leads(x, x)
  BY DEF Leads
<1>5. ASSUME NEW x, NEW i \in 1..k, Leads(x, ls[i])
      PROVE  \A j \in i..k : Leads(x, ls[j])
  <2> DEFINE wrong == {j \in i..k : ~Leads(x, ls[j])}
  <2> SUFFICES ASSUME wrong # {} PROVE FALSE
    OBVIOUS
  <2>1. wrong \in SUBSET Nat
    BY <1>5
  <2>2. PICK j \in wrong : \A n \in wrong : j <= n
    BY <2>1, LeastExists
  <2>3. j # i /\ j \in i..k /\ ~Leads(x, ls[j])
    BY <1>5, <2>2
  <2>4. j - 1 \in i..k /\ j - 1 \notin wrong /\ j \in 1..k /\ j # 1
    BY <1>5, <2>2, <2>3
  <2>5. Leads(x, ls[j - 1]) /\ Leads(ls[j - 1], ls[j])
    BY <1>1, <2>4
  <2> QED
    BY <1>3, <2>3, <2>5
<1>6. ASSUME NEW j \in 1..k PROVE Leads(l, ls[j])
  <2>1. 1 \in 1..k /\ j \in 1..k
    BY <1>6
  <2> QED
    BY <1>2, <1>5, <2>1
<1>7. ASSUME NEW i \in 1..k, NEW j \in 1..k, i <= j PROVE Leads(ls[i], ls[j])
  <2>1. j \in i..k
    BY <1>7
  <2> QED
    BY <1>4, <1>5, <1>7, <2>1
<1> QED
  BY <1>6, <1>7

\* k blocks are made on top of the block at height m.
Grown(m, k, ls, ps) ==
  /\ \A i \in 1..k : ls[i] \in InOneBlock(IF i = 1 THEN BlockAt(m).leg ELSE ls[i - 1])
  /\ rail \in {"btc", "evm"} => \A i \in 1..k : ps[i]
  /\ blocks' \in Seq(Block) /\ Len(blocks') = Len(blocks) + k
  /\ \A b \in 1..Len(blocks) : blocks'[b] = blocks[b]
  /\ chain' \in Seq(Nat) /\ Len(chain') = m + k
  /\ \A h \in 1..m : chain'[h] = chain[h]
  /\ \A i \in 1..k : chain'[m + i] = Len(blocks) + i
  /\ \A i \in 1..k : blocks'[Len(blocks) + i].leg = ls[i] /\ blocks'[Len(blocks) + i].payable = ps[i]

\* The same, whatever the blocks do to the leg.
GrowsFrom(m, k) ==
  \E ls \in [1..k -> LegStates], ps \in [1..k -> BOOLEAN] : Grown(m, k, ls, ps)

\* A chain that goes on with k new numbers.
LEMMA NumbersFollow ==
  ASSUME NEW p \in Seq(Nat), NEW k \in Nat, NEW n \in Nat
  PROVE  LET c == p \o [i \in 1..k |-> n + i] IN
         /\ c \in Seq(Nat) /\ Len(c) = Len(p) + k
         /\ \A h \in 1..Len(p) : c[h] = p[h]
         /\ \A i \in 1..k : c[Len(p) + i] = n + i
<1> DEFINE q == [i \in 1..k |-> n + i]
           c == p \o q
<1>1. q \in Seq(Nat) /\ Len(q) = k /\ \A i \in 1..k : q[i] = n + i
  OBVIOUS
<1> HIDE DEF q
<1>2. Len(p) \in Nat
  OBVIOUS
<1>3. /\ c \in Seq(Nat) /\ Len(c) = Len(p) + Len(q)
      /\ \A i \in 1..(Len(p) + Len(q)) : c[i] = IF i <= Len(p) THEN p[i] ELSE q[i - Len(p)]
  BY <1>1, ConcatProperties
<1> HIDE DEF c
<1>4. \A h \in 1..Len(p) : c[h] = p[h]
  BY <1>1, <1>2, <1>3
<1>5. ASSUME NEW i \in 1..k PROVE c[Len(p) + i] = n + i
  <2>1. Len(p) + i \in 1..(Len(p) + Len(q)) /\ ~(Len(p) + i <= Len(p)) /\ (Len(p) + i) - Len(p) = i
    BY <1>1, <1>2
  <2> QED
    BY <1>1, <1>3, <2>1
<1> QED
  BY <1>1, <1>3, <1>4, <1>5 DEF c, q

\* Grow makes k blocks on top of the prefix.
LEMMA GrowGrows ==
  ASSUME WorldTypeOK, NEW m \in 1..Tip, NEW k \in Nat, NEW prefix, Grow(prefix, k),
         prefix \in Seq(Nat), Len(prefix) = m, \A h \in 1..m : prefix[h] = chain[h]
  PROVE  GrowsFrom(m, k)
<1>1. PICK ls \in [1..k -> LegStates], ps \in [1..k -> MayPay] :
        /\ \A i \in 1..k : ls[i] \in InOneBlock(IF i = 1 THEN blocks[prefix[Len(prefix)]].leg ELSE ls[i - 1])
        /\ blocks' = blocks \o [i \in 1..k |-> [height |-> Len(prefix) + i, leg |-> ls[i], payable |-> ps[i]]]
  BY DEF Grow
<1> DEFINE new == [i \in 1..k |-> [height |-> Len(prefix) + i, leg |-> ls[i], payable |-> ps[i]]]
           ids == [i \in 1..k |-> Len(blocks) + i]
<1>2. ps \in [1..k -> BOOLEAN] /\ (rail \in {"btc", "evm"} => \A i \in 1..k : ps[i])
  BY DEF MayPay
<1>3. m \in Nat /\ Len(blocks) \in Nat /\ blocks \in Seq(Block)
  BY DEF WorldTypeOK, Tip
<1>4. /\ new \in Seq(Block) /\ Len(new) = k
      /\ \A i \in 1..k : new[i].leg = ls[i] /\ new[i].payable = ps[i]
  <2>1. \A i \in 1..k : [height |-> Len(prefix) + i, leg |-> ls[i], payable |-> ps[i]] \in Block
    BY <1>2, <1>3 DEF Block
  <2> QED
    BY <2>1
<1>6. blocks' = blocks \o new /\ chain' = prefix \o ids
  BY <1>1 DEF Grow
<1>7. BlockAt(m) = blocks[prefix[Len(prefix)]]
  <2>1. prefix[Len(prefix)] = chain[m]
    BY <1>3
  <2> QED
    BY <2>1 DEF BlockAt
<1> HIDE DEF new, ids
<1>8. /\ blocks' \in Seq(Block) /\ Len(blocks') = Len(blocks) + k
      /\ \A b \in 1..Len(blocks) : blocks'[b] = blocks[b]
      /\ \A i \in 1..k : blocks'[Len(blocks) + i] = new[i]
  <2>1. /\ blocks \o new \in Seq(Block) /\ Len(blocks \o new) = Len(blocks) + Len(new)
        /\ \A i \in 1..Len(blocks) : (blocks \o new)[i] = blocks[i]
        /\ \A i \in 1..Len(new) : (blocks \o new)[Len(blocks) + i] = new[i]
    <3>1. blocks \in Seq(Block) /\ new \in Seq(Block)
      BY <1>3, <1>4
    <3> QED
      BY <3>1
  <2> QED
    BY <1>4, <1>6, <2>1
<1>9. /\ chain' \in Seq(Nat) /\ Len(chain') = m + k
      /\ \A h \in 1..m : chain'[h] = chain[h]
      /\ \A i \in 1..k : chain'[m + i] = Len(blocks) + i
  <2>1. /\ prefix \o ids \in Seq(Nat) /\ Len(prefix \o ids) = Len(prefix) + k
        /\ \A h \in 1..Len(prefix) : (prefix \o ids)[h] = prefix[h]
        /\ \A i \in 1..k : (prefix \o ids)[Len(prefix) + i] = Len(blocks) + i
    BY <1>3, NumbersFollow DEF ids
  <2> QED
    BY <1>6, <2>1
<1>10. Grown(m, k, ls, ps)
  BY <1>1, <1>2, <1>4, <1>7, <1>8, <1>9 DEF Grown
<1> QED
  BY <1>2, <1>10 DEF GrowsFrom

\* The chain and the final blocks only grow.
WorldGrows ==
  /\ UNCHANGED leg /\ Tip' >= Tip /\ FinalHeight' >= FinalHeight
  /\ \A h \in 1..FinalHeight : chain'[h] = chain[h] /\ BlockAt(h)' = BlockAt(h)

\* New blocks on top of a final one, and no fewer than are replaced, keep the
\* invariant and every final block.
LEMMA GrownIsSound ==
  ASSUME WorldInv, NEW m \in 1..Tip, NEW k \in Nat, GrowsFrom(m, k), UNCHANGED leg,
         m >= FinalHeight, m + k >= Tip
  PROVE  WorldInv' /\ WorldGrows
<1>1. PICK ls \in [1..k -> LegStates], ps \in [1..k -> BOOLEAN] : Grown(m, k, ls, ps)
  BY DEF GrowsFrom
<1>2. /\ Tip \in Nat /\ m \in Nat /\ FinalHeight \in 1..Tip /\ Depth \in Nat /\ Len(blocks) \in Nat
      /\ Depth' = Depth /\ rail' = rail
  BY DepthIsNat, FinalIsOnChain DEF WorldInv, WorldTypeOK, Depth, leg
<1>3. Tip' = m + k
  BY <1>1 DEF Grown, Tip
<1>4. \A h \in 1..m : chain'[h] = chain[h] /\ BlockAt(h)' = BlockAt(h) /\ h \in 1..Tip
  <2> SUFFICES ASSUME NEW h \in 1..m
               PROVE  chain'[h] = chain[h] /\ BlockAt(h)' = BlockAt(h) /\ h \in 1..Tip
    OBVIOUS
  <2>1. h \in 1..Tip
    BY <1>2
  <2>2. chain[h] \in 1..Len(blocks)
    BY <2>1 DEF WorldInv, WorldTypeOK
  <2>3. chain'[h] = chain[h] /\ blocks'[chain[h]] = blocks[chain[h]]
    BY <1>1, <2>2 DEF Grown
  <2> QED
    BY <2>1, <2>3 DEF BlockAt
<1>5. \A i \in 1..k : BlockAt(m + i)'.leg = ls[i] /\ BlockAt(m + i)'.payable = ps[i]
  BY <1>1 DEF Grown, BlockAt
<1>6. \A h \in 1..(m + k) : h \in 1..m \/ \E i \in 1..k : h = m + i
  <2> SUFFICES ASSUME NEW h \in 1..(m + k), h \notin 1..m PROVE \E i \in 1..k : h = m + i
    OBVIOUS
  <2>1. h - m \in 1..k /\ h = m + (h - m)
    BY <1>2
  <2> QED
    BY <2>1
<1>7. BlockAt(m).leg \in LegStates
  <2>1. chain[m] \in 1..Len(blocks) /\ blocks \in Seq(Block)
    BY DEF WorldInv, WorldTypeOK
  <2>2. blocks[chain[m]] \in Block
    BY <2>1
  <2> QED
    BY <2>2 DEF BlockAt, Block
<1>8. /\ \A j \in 1..k : Leads(BlockAt(m).leg, ls[j])
      /\ \A i, j \in 1..k : i <= j => Leads(ls[i], ls[j])
  BY <1>1, <1>7, BranchLeads DEF Grown
<1>9. \A x, y : Leads(x, y)' <=> Leads(x, y)
  BY <1>2 DEF Leads
<1>10. WorldTypeOK'
  <2>1. blocks' \in Seq(Block) /\ chain' \in Seq(Nat)
    BY <1>1 DEF Grown
  <2>2. Tip' >= 1
    BY <1>2, <1>3
  <2>3. \A h \in 1..(m + k) : chain'[h] \in 1..Len(blocks')
    <3>1. \A h \in 1..m : chain[h] \in 1..Len(blocks)
      BY <1>4 DEF WorldInv, WorldTypeOK
    <3>2. Len(blocks') = Len(blocks) + k
      BY <1>1 DEF Grown
    <3>a. \A c \in 1..Len(blocks) : c \in 1..Len(blocks')
      BY <1>2, <3>2
    <3>b. \A i \in 1..k : Len(blocks) + i \in 1..Len(blocks')
      BY <1>2, <3>2
    <3>3. \A h \in 1..m : chain'[h] \in 1..Len(blocks')
      BY <1>4, <3>1, <3>a
    <3>4. \A i \in 1..k : chain'[m + i] \in 1..Len(blocks')
      BY <1>1, <3>b DEF Grown
    <3> QED
      BY <1>6, <3>3, <3>4
  <2> QED
    BY <1>3, <2>1, <2>2, <2>3 DEF WorldInv, WorldTypeOK, leg
<1>11. ASSUME NEW h \in 1..(m + k), NEW j \in 1..(m + k), h <= j
       PROVE  Leads(BlockAt(h)'.leg, BlockAt(j)'.leg)
  <2>1. CASE h \in 1..m /\ j \in 1..m
    BY <1>4, <1>11, <2>1 DEF WorldInv
  <2>2. CASE h \in 1..m /\ j \notin 1..m
    <3>1. PICK i \in 1..k : j = m + i
      BY <1>6, <2>2
    <3>2. Leads(BlockAt(h).leg, BlockAt(m).leg) /\ Leads(BlockAt(m).leg, ls[i])
      BY <1>2, <1>4, <1>8, <2>2 DEF WorldInv
    <3> QED
      BY <1>4, <1>5, <2>2, <3>1, <3>2 DEF Leads
  <2>3. CASE h \notin 1..m
    <3>1. PICK i \in 1..k : h = m + i
      BY <1>6, <2>3
    <3>2. PICK n \in 1..k : j = m + n
      BY <1>2, <1>6, <1>11, <2>3
    <3>3. i <= n
      BY <1>2, <1>11, <3>1, <3>2
    <3> QED
      BY <1>5, <1>8, <3>1, <3>2, <3>3
  <2> QED
    BY <2>1, <2>2, <2>3
<1>12. rail # "near" => \A h \in 1..(m + k) : BlockAt(h)'.leg \in Plain
  <2>1. rail # "near" => \A h \in 1..m : BlockAt(h)'.leg \in Plain
    BY <1>4 DEF WorldInv
  <2>2. rail # "near" => BlockAt(m).leg \in Plain
    BY <1>4 DEF WorldInv
  <2>3. rail # "near" => \A i \in 1..k : BlockAt(m + i)'.leg \in Plain
    BY <1>5, <1>8, <2>2 DEF Leads
  <2> QED
    BY <1>6, <2>1, <2>3
<1>13. rail \in {"btc", "evm"} => \A h \in 1..(m + k) : BlockAt(h)'.payable
  <2>1. rail \in {"btc", "evm"} => \A h \in 1..m : BlockAt(h)'.payable
    BY <1>4 DEF WorldInv
  <2>2. rail \in {"btc", "evm"} => \A i \in 1..k : BlockAt(m + i)'.payable
    BY <1>1, <1>5 DEF Grown
  <2> QED
    BY <1>6, <2>1, <2>2
<1>14. WorldInv'
  BY <1>2, <1>3, <1>9, <1>10, <1>11, <1>12, <1>13 DEF WorldInv
<1>15. WorldGrows
  <2>1. FinalHeight' >= FinalHeight
    BY <1>2, <1>3 DEF FinalHeight, Max2
  <2>2. 1..FinalHeight \subseteq 1..m
    BY <1>2
  <2> QED
    BY <1>2, <1>3, <1>4, <2>1, <2>2 DEF WorldGrows
<1> QED
  BY <1>14, <1>15

\* A block that is mined, and a fork, keep the invariant and every final block.
LEMMA ChainGrows ==
  ASSUME WorldInv, Mine \/ Fork
  PROVE  WorldInv' /\ WorldGrows
<1>1. /\ Tip \in Nat /\ FinalHeight \in 1..Tip /\ Depth \in Nat /\ Tip >= 1
      /\ chain \in Seq(Nat)
  BY DepthIsNat, FinalIsOnChain DEF WorldInv, WorldTypeOK
<1>2. CASE Mine
  <2>1. GrowsFrom(Tip, 1)
    BY <1>1, <1>2, GrowGrows DEF Mine, WorldInv, Tip
  <2> QED
    BY <1>1, <1>2, <2>1, GrownIsSound DEF Mine
<1>3. CASE Fork
  <2>1. PICK k \in 1..Depth : k < Tip /\ Grow(SubSeq(chain, 1, Tip - k), k)
    BY <1>3 DEF Fork
  <2> DEFINE prefix == SubSeq(chain, 1, Tip - k)
             m == Tip - k
  <2>2. m \in 1..Tip /\ k \in Nat /\ m + k = Tip
    BY <1>1, <2>1
  <2>3. prefix \in Seq(Nat) /\ Len(prefix) = m /\ \A h \in 1..m : prefix[h] = chain[h]
    <3>1. chain \in Seq(Nat) /\ m \in 1..Len(chain) /\ Len(chain) \in Nat
      BY <1>1, <2>2 DEF Tip
    <3> HIDE DEF m
    <3>2. prefix = SubSeq(chain, 1, m)
      BY DEF m
    <3> HIDE DEF prefix
    <3> QED
      BY <3>1, <3>2
  <2>4. m >= FinalHeight
    BY <1>1, <2>1 DEF FinalHeight, Max2
  <2> HIDE DEF prefix, m
  <2>5. Grow(prefix, k)
    BY <2>1 DEF prefix, m
  <2>6. GrowsFrom(m, k)
    BY <2>2, <2>3, <2>5, GrowGrows DEF WorldInv
  <2> QED
    BY <1>1, <1>3, <2>2, <2>4, <2>6, GrownIsSound DEF Fork
<1> QED
  BY <1>2, <1>3

-----------------------------------------------------------------------------
(* What was answered, and what is said *)

\* The heights of the final blocks.
F == 1..FinalHeight

\* What evidence says is true of the final blocks.
IsTrue(evidence) ==
  /\ evidence.rail \in {"claimed", "refunded"} => BlockAt(FinalHeight).leg = evidence.rail
  /\ evidence.rail = "locked" => BlockAt(FinalHeight).leg # "none"
  /\ evidence.verdict = "true" => ours /\ \E h \in F : BlockAt(h).leg = "locked" /\ BlockAt(h).payable
  /\ evidence.verdict = "false" /\ evidence.rail = "none" =>
       \E h \in F : BlockAt(h).leg \in {"locked", "revealed"} /\ (~ours \/ ~BlockAt(h).payable)

\* What a running capture was answered is of final blocks.
EvmGot ==
  /\ at \in {"idle", "block", "numbered", "locks", "decide"}
  /\ at = "numbered" => got \in [latest : 1..Tip]
  /\ at = "locks" => \E h \in F : got = [block |-> chain[h]]
  /\ at = "decide" =>
       got = [status |-> "no block"] \/ \E h \in F : got = [status |-> BlockAt(h).leg]

\* The same on NEAR, where every read is of one block.
NearGot ==
  /\ at \in {"idle", "block", "lock", "payee", "decide"}
  /\ at = "lock" => \E h \in F : got = [block |-> chain[h]]
  /\ at = "payee" => \E h \in F : got = [block |-> chain[h], status |-> BlockAt(h).leg]
  /\ at = "decide" => \E h \in F : got = [status |-> BlockAt(h).leg, payable |-> BlockAt(h).payable]

\* On Solana, where every read is of some final slot.
SolGot ==
  /\ at \in {"idle", "escrow", "vault", "payee", "decide"}
  /\ at # "idle" => "min" \in DOMAIN got /\ got["min"] \in F
  /\ at \in {"vault", "payee", "decide"} => "escrow" \in DOMAIN got /\ got["escrow"] \in F
  /\ at \in {"payee", "decide"} => "vault" \in DOMAIN got /\ got["vault"] \in F
  /\ at = "decide" => got["payee"] \in F

\* The answers of a Bitcoin capture that has found the output.
BtcRead(status) ==
  [tip : 1..Tip, funding : Nat \ {0}, confirmations : Int, unspent : BOOLEAN, scan : Nat \ {0},
   spend : [height : Nat, status : status]]

\* On Bitcoin, where answers are of any block there is: those that count as
\* confirmed are of final ones.
BtcGot ==
  /\ at \in {"idle", "tip", "funding", "output", "scan", "decide"}
  /\ at = "funding" => got \in [tip : 1..Tip]
  /\ at = "output" =>
       /\ got \in [tip : 1..Tip, funding : Nat \ {0}, confirmations : Int]
       /\ got.confirmations >= Confirmations =>
            got.funding \in F /\ BlockAt(got.funding).leg # "none"
  /\ at = "scan" => got \in BtcRead({"none"}) /\ ~got.unspent
  /\ at = "decide" /\ got.tip # 0 =>
       /\ got \in BtcRead({"none", "claimed", "refunded"})
       /\ got.unspent /\ got.confirmations >= Confirmations =>
            got.funding \in F /\ BlockAt(got.funding).leg = "locked"
       /\ ~got.unspent /\ got.spend.status # "none" /\ SpendConfirmations >= Confirmations =>
            got.spend.height \in F /\ BlockAt(got.spend.height).leg = got.spend.status

\* The answers on every rail.
GotInv ==
  /\ rail = "evm" => EvmGot
  /\ rail = "near" => NearGot
  /\ rail = "sol" => SolGot
  /\ rail = "btc" => BtcGot

\* The inductive invariant of the evidence.
EvidenceInv == WorldInv /\ GotInv /\ IsTrue(said)

\* Final blocks stay final, and stay what they are.
LEMMA FinalStays ==
  ASSUME WorldInv, WorldInv', WorldGrows
  PROVE  /\ F \subseteq F' /\ 1..Tip \subseteq 1..Tip'
         /\ rail' = rail /\ ours' = ours /\ lines' = lines /\ Confirmations' = Confirmations
         /\ \A h \in F : chain'[h] = chain[h] /\ BlockAt(h)' = BlockAt(h)
<1>1. Tip \in Nat /\ FinalHeight \in 1..Tip
  BY FinalIsOnChain DEF WorldInv
<1>2. UNCHANGED leg /\ Tip' >= Tip /\ FinalHeight' >= FinalHeight
  BY DEF WorldGrows
<1>3. rail' = rail /\ ours' = ours /\ lines' = lines
  BY <1>2 DEF leg
<1>4. Tip' \in Nat
  <2>1. chain' \in Seq(Nat)
    BY DEF WorldInv, WorldTypeOK
  <2> QED
    BY <2>1 DEF Tip
<1>5. Depth' = Depth
  BY <1>3 DEF Depth
<1>6. FinalHeight' \in Nat
  <2>1. WorldTypeOK'
    BY DEF WorldInv
  <2>2. (WorldTypeOK => FinalHeight \in 1..Tip)'
    BY FinalIsOnChain, PTL
  <2> QED
    BY <1>4, <2>1, <2>2
<1>7. F \subseteq F'
  BY <1>1, <1>2, <1>6 DEF F
<1>8. 1..Tip \subseteq 1..Tip'
  BY <1>1, <1>2, <1>4
<1>9. Confirmations' = Confirmations
  BY <1>5 DEF Confirmations
<1>10. \A h \in F : chain'[h] = chain[h] /\ BlockAt(h)' = BlockAt(h)
  BY DEF WorldGrows, F
<1> QED
  BY <1>3, <1>7, <1>8, <1>9, <1>10

\* What was answered of final blocks stays so while the chain grows.
LEMMA GotStays ==
  ASSUME WorldInv, WorldInv', GotInv, WorldGrows, UNCHANGED <<at, got>>
  PROVE  GotInv'
<1>1. /\ F \subseteq F' /\ 1..Tip \subseteq 1..Tip'
      /\ rail' = rail /\ ours' = ours /\ Confirmations' = Confirmations
      /\ \A h \in F : chain'[h] = chain[h] /\ BlockAt(h)' = BlockAt(h)
  BY FinalStays
<1>2. EvmGot => EvmGot'
  BY <1>1 DEF EvmGot
<1>3. NearGot => NearGot'
  BY <1>1 DEF NearGot
<1>4. SolGot => SolGot'
  BY <1>1 DEF SolGot
<1>5. BtcGot => BtcGot'
  <2> SUFFICES ASSUME BtcGot PROVE BtcGot'
    OBVIOUS
  <2>1. ASSUME NEW s PROVE BtcRead(s) \subseteq BtcRead(s)'
    BY <1>1 DEF BtcRead
  <2>2. SpendConfirmations' = SpendConfirmations
    BY DEF SpendConfirmations
  <2> QED
    BY <1>1, <2>1, <2>2 DEF BtcGot
<1> QED
  BY <1>1, <1>2, <1>3, <1>4, <1>5 DEF GotInv

\* Evidence that is true of the final blocks stays true.
LEMMA TrueStays ==
  ASSUME WorldInv, WorldInv', WorldGrows, NEW evidence, IsTrue(evidence)
  PROVE  IsTrue(evidence)'
<1>1. /\ F \subseteq F' /\ ours' = ours /\ rail' = rail
      /\ \A h \in F : BlockAt(h)' = BlockAt(h)
  BY FinalStays
<1>2. FinalHeight \in F /\ FinalHeight \in 1..Tip' /\ FinalHeight' \in 1..Tip' /\ FinalHeight <= FinalHeight'
  <2>1. Tip \in Nat /\ FinalHeight \in 1..Tip
    BY FinalIsOnChain DEF WorldInv
  <2>2. Tip' \in Nat /\ FinalHeight' \in 1..Tip'
    <3>1. WorldTypeOK'
      BY DEF WorldInv
    <3>2. (WorldTypeOK => Tip \in Nat /\ FinalHeight \in 1..Tip)'
      BY FinalIsOnChain, PTL
    <3> QED
      BY <3>1, <3>2
  <2>3. FinalHeight' >= FinalHeight /\ Tip' >= Tip
    BY DEF WorldGrows
  <2> QED
    BY <2>1, <2>2, <2>3 DEF F
<1> DEFINE new == BlockAt(FinalHeight)'
<1>3. Leads(BlockAt(FinalHeight).leg, new.leg)
  <2>1. \A h, j \in 1..Tip' : h <= j => Leads(blocks'[chain'[h]].leg, blocks'[chain'[j]].leg)
    BY <1>1 DEF WorldInv, BlockAt, Leads
  <2>2. BlockAt(FinalHeight).leg = blocks'[chain'[FinalHeight]].leg
    BY <1>1, <1>2 DEF BlockAt
  <2>3. new.leg = blocks'[chain'[FinalHeight']].leg
    BY DEF BlockAt
  <2> QED
    BY <1>2, <2>1, <2>2, <2>3
<1>4. new = BlockAt(FinalHeight)'
  OBVIOUS
<1> HIDE DEF new
<1>5. IsTrue(evidence)' =
        /\ evidence.rail \in {"claimed", "refunded"} => new.leg = evidence.rail
        /\ evidence.rail = "locked" => new.leg # "none"
        /\ evidence.verdict = "true" => ours' /\ \E h \in F' : BlockAt(h)'.leg = "locked" /\ BlockAt(h)'.payable
        /\ evidence.verdict = "false" /\ evidence.rail = "none" =>
             \E h \in F' : BlockAt(h)'.leg \in {"locked", "revealed"} /\ (~ours' \/ ~BlockAt(h)'.payable)
  BY <1>4 DEF IsTrue
<1> QED
  BY <1>1, <1>2, <1>3, <1>5 DEF IsTrue, Leads
-----------------------------------------------------------------------------
(* What is concluded *)

\* A step that makes no block leaves the chain and its final blocks alone.
LEMMA StillWorld ==
  ASSUME WorldInv, UNCHANGED <<leg, blocks, chain>>
  PROVE  /\ WorldInv'
         /\ F' = F /\ Tip' = Tip /\ FinalHeight' = FinalHeight /\ Confirmations' = Confirmations
         /\ rail' = rail /\ ours' = ours /\ lines' = lines
         /\ blocks' = blocks /\ chain' = chain
         /\ \A h : BlockAt(h)' = BlockAt(h)
<1>1. rail' = rail /\ ours' = ours /\ lines' = lines /\ blocks' = blocks /\ chain' = chain
  BY DEF leg
<1>2. \A h : BlockAt(h)' = BlockAt(h)
  BY <1>1 DEF BlockAt
<1>3. Tip' = Tip /\ Depth' = Depth
  BY <1>1 DEF Tip, Depth
<1>4. FinalHeight' = FinalHeight
  BY <1>3 DEF FinalHeight, Max2
<1>5. F' = F /\ Confirmations' = Confirmations
  BY <1>3, <1>4 DEF F, Confirmations
<1>6. WorldInv'
  BY <1>1, <1>2, <1>3 DEF WorldInv, WorldTypeOK, Leads
<1> QED
  BY <1>1, <1>2, <1>3, <1>4, <1>5, <1>6

\* What evidence says is about the chain alone.
LEMMA TruthIsOfTheWorld ==
  ASSUME WorldInv, UNCHANGED <<leg, blocks, chain>>, NEW evidence, IsTrue(evidence)
  PROVE  IsTrue(evidence)'
BY StillWorld DEF IsTrue

\* Every final block leads to the newest one.
LEMMA FinalBlocks ==
  ASSUME WorldInv
  PROVE  /\ F \subseteq 1..Tip /\ FinalHeight \in F
         /\ \A h \in F : /\ chain[h] \in 1..Len(blocks) /\ BlockAt(h) \in Block
                         /\ Leads(BlockAt(h).leg, BlockAt(FinalHeight).leg)
<1>1. Tip \in Nat /\ FinalHeight \in 1..Tip
  BY FinalIsOnChain DEF WorldInv
<1>2. F \subseteq 1..Tip /\ FinalHeight \in F /\ \A h \in F : h <= FinalHeight
  BY <1>1 DEF F
<1>3. \A h \in 1..Tip : chain[h] \in 1..Len(blocks) /\ BlockAt(h) \in Block
  BY DEF WorldInv, WorldTypeOK, BlockAt
<1>4. \A h \in F : Leads(BlockAt(h).leg, BlockAt(FinalHeight).leg)
  BY <1>2 DEF WorldInv
<1> QED
  BY <1>2, <1>3, <1>4

\* Evidence that says nothing is true.
LEMMA NothingIsTrue == IsTrue(NoEvidence)
BY DEF IsTrue, NoEvidence

\* What is judged of a final block with the lock is true.
LEMMA LockedIsTrue ==
  ASSUME WorldInv, NEW h \in F, BlockAt(h).leg = "locked"
  PROVE  /\ IsTrue(Judge("locked", BlockAt(h).payable))
         /\ IsTrue([Judge("locked", BlockAt(h).payable) EXCEPT !.rail = "locked"])
<1>1. BlockAt(h) \in Block /\ ours \in BOOLEAN /\ lines \in BOOLEAN /\ BlockAt(FinalHeight).leg # "none"
  BY FinalBlocks DEF WorldInv, WorldTypeOK, Leads
<1>2. BlockAt(h).payable \in BOOLEAN
  BY <1>1 DEF Block
<1> DEFINE j == Judge("locked", BlockAt(h).payable)
<1>3. /\ j \in [verdict : {"null", "true", "false"}, rail : {"none", "locked"}]
      /\ j.verdict = "true" => ours /\ BlockAt(h).payable
      /\ j.verdict = "false" => ~ours \/ ~BlockAt(h).payable
  <2>1. CASE ~lines
    BY <2>1 DEF Judge, Unverified, NoEvidence
  <2>2. CASE lines
    BY <1>1, <1>2, <2>2 DEF Judge, Verified, Refuted
  <2> QED
    BY <1>1, <2>1, <2>2
<1> HIDE DEF j
<1>4. IsTrue(j)
  BY <1>1, <1>3 DEF IsTrue
<1> DEFINE k == [j EXCEPT !.rail = "locked"]
<1>5. k.rail = "locked" /\ k.verdict = j.verdict
  BY <1>3
<1> HIDE DEF k
<1>6. IsTrue(k)
  BY <1>1, <1>3, <1>5 DEF IsTrue
<1> QED
  BY <1>4, <1>6 DEF j, k

\* What is judged of a final block with the leg settled is true.
LEMMA SettledIsTrue ==
  ASSUME WorldInv, NEW h \in F, BlockAt(h).leg \in {"claimed", "refunded"}, NEW p
  PROVE  IsTrue(Judge(BlockAt(h).leg, p))
<1>1. BlockAt(FinalHeight).leg = BlockAt(h).leg /\ ours \in BOOLEAN /\ lines \in BOOLEAN
  BY FinalBlocks DEF WorldInv, WorldTypeOK, Leads
<1>2. CASE ~lines
  BY <1>2, NothingIsTrue DEF Judge, Unverified
<1>3. CASE lines
  <2>1. CASE ours
    BY <1>1, <1>3, <2>1 DEF Judge, Refuted, IsTrue
  <2>2. CASE ~ours
    BY <1>1, <1>3, <2>2, NothingIsTrue DEF Judge, Unverified
  <2> QED
    BY <2>1, <2>2
<1> QED
  BY <1>1, <1>2, <1>3

\* Nothing is known between two captures.
LEMMA IdleIsSound == at' = "idle" => GotInv'
BY DEF GotInv, EvmGot, NearGot, SolGot, BtcGot

\* A capture that concludes what is true keeps the invariant.
LEMMA ConcludeKeeps ==
  ASSUME EvidenceInv, NEW evidence, IsTrue(evidence), Conclude(evidence)
  PROVE  EvidenceInv'
<1>1. at' = "idle" /\ said' = evidence /\ UNCHANGED <<leg, blocks, chain>>
  BY DEF Conclude, world
<1>2. WorldInv'
  BY <1>1, StillWorld DEF EvidenceInv
<1>3. IsTrue(evidence)'
  BY <1>1, TruthIsOfTheWorld DEF EvidenceInv
<1>4. IsTrue(said)'
  BY <1>1, <1>3 DEF IsTrue
<1> QED
  BY <1>1, <1>2, <1>4, IdleIsSound DEF EvidenceInv

\* So does a read whose answers are sound.
LEMMA ReadKeeps ==
  ASSUME EvidenceInv, UNCHANGED <<leg, blocks, chain, said>>, GotInv'
  PROVE  EvidenceInv'
<1>1. WorldInv'
  BY StillWorld DEF EvidenceInv
<1>2. IsTrue(said)'
  BY StillWorld DEF EvidenceInv, IsTrue
<1> QED
  BY <1>1, <1>2 DEF EvidenceInv

\* A capture starts with no answers.
LEMMA StartKeeps ==
  ASSUME EvidenceInv, NEW first, StartCapture(first),
         \/ rail = "btc" /\ first = "tip"
         \/ rail \in {"evm", "near"} /\ first = "block"
  PROVE  EvidenceInv'
<1>1. at' = first /\ UNCHANGED <<leg, blocks, chain, said>>
  BY DEF StartCapture, Reads
<1>2. rail' = rail
  BY <1>1 DEF leg
<1>3. GotInv'
  BY <1>1, <1>2 DEF GotInv, EvmGot, NearGot, SolGot, BtcGot
<1> QED
  BY <1>1, <1>3, ReadKeeps

\* A read that fails ends the capture with nothing said.
LEMMA FailKeeps ==
  ASSUME EvidenceInv, ReadFails
  PROVE  EvidenceInv'
<1>1. at' = "idle" /\ said' = NoEvidence /\ UNCHANGED <<leg, blocks, chain>>
  BY DEF ReadFails
<1>2. WorldInv'
  BY <1>1, StillWorld DEF EvidenceInv
<1>3. IsTrue(said)'
  BY <1>1 DEF IsTrue, NoEvidence
<1> QED
  BY <1>1, <1>2, <1>3, IdleIsSound DEF EvidenceInv

-----------------------------------------------------------------------------
(* EVM *)

\* What an EVM capture concludes is true (evm-evidence.ts).
LEMMA EvmConcludesTrue ==
  ASSUME EvidenceInv, rail = "evm", at = "decide"
  PROVE  IsTrue(EvmConclusion)
<1>1. EvmGot /\ WorldInv
  BY DEF EvidenceInv, GotInv
<1>2. CASE got = [status |-> "no block"]
  <2>1. got.status = "no block"
    BY <1>2
  <2> QED
    BY <2>1, NothingIsTrue DEF EvmConclusion, Unverified
<1>3. ASSUME NEW h \in F, got = [status |-> BlockAt(h).leg] PROVE IsTrue(EvmConclusion)
  <2>1. got.status = BlockAt(h).leg
    BY <1>3
  <2>2. BlockAt(h).leg \in Plain /\ BlockAt(h).payable /\ BlockAt(h) \in Block
    BY <1>1, <1>3, FinalBlocks DEF WorldInv
  <2>3. BlockAt(h).payable = TRUE
    BY <2>2 DEF Block
  <2>4. CASE got.status = "none"
    BY <2>4, NothingIsTrue DEF EvmConclusion, Unverified
  <2>5. CASE got.status = "locked"
    <3>1. IsTrue([Judge("locked", BlockAt(h).payable) EXCEPT !.rail = "locked"])
      BY <1>1, <1>3, <2>1, <2>5, LockedIsTrue
    <3> QED
      BY <2>3, <2>5, <3>1 DEF EvmConclusion
  <2>6. CASE got.status \in {"claimed", "refunded"}
    <3>1. IsTrue(Judge(got.status, TRUE))
      BY <1>1, <1>3, <2>1, <2>6, SettledIsTrue
    <3>2. EvmConclusion = Judge(got.status, TRUE)
      BY <2>6 DEF EvmConclusion
    <3> QED
      BY <3>1, <3>2
  <2> QED
    BY <2>1, <2>2, <2>4, <2>5, <2>6 DEF Plain
<1> QED
  BY <1>1, <1>2, <1>3 DEF EvmGot

\* Every read of an EVM capture keeps the invariant; a block counted from an
\* old tip is final by now.
LEMMA EvmKeeps ==
  ASSUME EvidenceInv, rail = "evm", EvmCapture
  PROVE  EvidenceInv'
<1>1. EvmGot /\ WorldInv
  BY DEF EvidenceInv, GotInv
<1>2. /\ F \subseteq 1..Tip /\ FinalHeight \in F /\ Tip \in Nat /\ Depth \in Nat
      /\ F = 1..FinalHeight /\ FinalHeight >= Tip - Depth
  BY <1>1, FinalBlocks, DepthIsNat, FinalIsOnChain DEF WorldInv, F
<1>3. ASSUME UNCHANGED <<leg, blocks, chain, said>>, EvmGot' PROVE EvidenceInv'
  <2>1. GotInv'
    BY <1>3 DEF GotInv, leg
  <2> QED
    BY <1>3, <2>1, ReadKeeps
<1>4. CASE StartCapture("block")
  BY <1>4, StartKeeps
<1>5. CASE EvmReadTagged
  <2>1. PICK h \in F : Reads("block", "locks", [block |-> chain[h]])
    BY <1>5 DEF EvmReadTagged, F
  <2>2. at' = "locks" /\ got' = [block |-> chain[h]] /\ UNCHANGED <<leg, blocks, chain, said>>
    BY <2>1 DEF Reads
  <2>3. F' = F
    BY <1>1, <2>2, StillWorld
  <2>4. EvmGot'
    BY <2>2, <2>3 DEF EvmGot
  <2> QED
    BY <1>3, <2>2, <2>4
<1>6. CASE EvmReadLatest
  <2>1. at' = "numbered" /\ got' = [latest |-> Tip] /\ UNCHANGED <<leg, blocks, chain, said>>
    BY <1>6 DEF EvmReadLatest, Reads
  <2>2. Tip' = Tip /\ Tip \in 1..Tip
    BY <1>1, <1>2, <2>1, StillWorld
  <2>3. got' \in [latest : 1..Tip']
    BY <2>1, <2>2
  <2>4. EvmGot'
    BY <2>1, <2>3 DEF EvmGot
  <2> QED
    BY <1>3, <2>1, <2>4
<1>7. CASE EvmReadNumbered
  <2> DEFINE n == got.latest - Depth
  <2>1. at = "numbered" /\ got.latest \in 1..Tip
    BY <1>1, <1>7 DEF EvmReadNumbered, EvmGot
  <2>2. CASE n < 1
    <3>1. at' = "decide" /\ got' = [status |-> "no block"] /\ UNCHANGED <<leg, blocks, chain, said>>
      BY <1>7, <2>2 DEF EvmReadNumbered, Reads
    <3>2. EvmGot'
      BY <3>1 DEF EvmGot
    <3> QED
      BY <1>3, <3>1, <3>2
  <2>3. CASE ~(n < 1)
    <3>1. at' = "locks" /\ got' = [block |-> chain[n]] /\ UNCHANGED <<leg, blocks, chain, said>>
      BY <1>7, <2>3 DEF EvmReadNumbered, Reads
    <3>2. n \in F
      BY <1>2, <2>1, <2>3
    <3>3. F' = F
      BY <1>1, <3>1, StillWorld
    <3>4. EvmGot'
      BY <3>1, <3>2, <3>3 DEF EvmGot
    <3> QED
      BY <1>3, <3>1, <3>4
  <2> QED
    BY <2>2, <2>3
<1>8. CASE EvmReadLocks
  <2>1. /\ at = "locks" /\ at' = "decide" /\ got' = [status |-> blocks[got.block].leg]
        /\ UNCHANGED <<leg, blocks, chain, said>>
    BY <1>8 DEF EvmReadLocks, Reads
  <2>2. PICK h \in F : got = [block |-> chain[h]]
    BY <1>1, <2>1 DEF EvmGot
  <2>3. got' = [status |-> BlockAt(h).leg]
    BY <2>1, <2>2 DEF BlockAt
  <2>4. F' = F /\ BlockAt(h)' = BlockAt(h)
    BY <1>1, <2>1, StillWorld
  <2>5. EvmGot'
    BY <2>1, <2>2, <2>3, <2>4 DEF EvmGot
  <2> QED
    BY <1>3, <2>1, <2>5
<1>9. CASE EvmDecide
  BY <1>9, ConcludeKeeps, EvmConcludesTrue DEF EvmDecide
<1> QED
  BY <1>4, <1>5, <1>6, <1>7, <1>8, <1>9 DEF EvmCapture

-----------------------------------------------------------------------------
(* NEAR *)

\* What a NEAR capture concludes is true (near-evidence.ts).
LEMMA NearConcludesTrue ==
  ASSUME EvidenceInv, rail = "near", at = "decide"
  PROVE  IsTrue(NearConclusion)
<1>1. NearGot /\ WorldInv
  BY DEF EvidenceInv, GotInv
<1>2. PICK h \in F : got = [status |-> BlockAt(h).leg, payable |-> BlockAt(h).payable]
  BY <1>1 DEF NearGot
<1>3. got.status = BlockAt(h).leg /\ got.payable = BlockAt(h).payable
  BY <1>2
<1>4. BlockAt(h).leg \in LegStates /\ ours \in BOOLEAN /\ lines \in BOOLEAN
  BY <1>1, FinalBlocks DEF Block, WorldInv, WorldTypeOK
<1>5. CASE got.status \in {"none", "claiming", "refunding"}
  BY <1>5, NothingIsTrue DEF NearConclusion, Unverified
<1>6. CASE got.status = "revealed"
  <2>1. CASE lines /\ ~ours
    <3>1. NearConclusion = Refuted("none")
      BY <1>6, <2>1 DEF NearConclusion
    <3> QED
      BY <1>3, <1>6, <2>1, <3>1 DEF IsTrue, Refuted
  <2>2. CASE ~(lines /\ ~ours)
    BY <1>6, <2>2, NothingIsTrue DEF NearConclusion, Unverified
  <2> QED
    BY <2>1, <2>2
<1>7. CASE got.status = "locked"
  <2>1. NearConclusion = Judge("locked", BlockAt(h).payable)
    BY <1>3, <1>7 DEF NearConclusion
  <2> QED
    BY <1>1, <1>3, <1>7, <2>1, LockedIsTrue
<1>8. CASE got.status \in {"claimed", "refunded"}
  <2>1. NearConclusion = Judge(BlockAt(h).leg, got.payable)
    BY <1>3, <1>8 DEF NearConclusion
  <2> QED
    BY <1>1, <1>3, <1>8, <2>1, SettledIsTrue
<1> QED
  BY <1>3, <1>4, <1>5, <1>6, <1>7, <1>8 DEF LegStates

\* Every read of a NEAR capture keeps the invariant.
LEMMA NearKeeps ==
  ASSUME EvidenceInv, rail = "near", NearCapture
  PROVE  EvidenceInv'
<1>1. NearGot /\ WorldInv
  BY DEF EvidenceInv, GotInv
<1>2. ASSUME UNCHANGED <<leg, blocks, chain, said>>, NearGot' PROVE EvidenceInv'
  <2>1. GotInv'
    BY <1>2 DEF GotInv, leg
  <2> QED
    BY <1>2, <2>1, ReadKeeps
<1>3. CASE StartCapture("block")
  BY <1>3, StartKeeps
<1>4. CASE NearReadBlock
  <2>1. PICK h \in F : Reads("block", "lock", [block |-> chain[h]])
    BY <1>4 DEF NearReadBlock, F
  <2>2. at' = "lock" /\ got' = [block |-> chain[h]] /\ UNCHANGED <<leg, blocks, chain, said>>
    BY <2>1 DEF Reads
  <2>3. F' = F
    BY <1>1, <2>2, StillWorld
  <2>4. NearGot'
    BY <2>2, <2>3 DEF NearGot
  <2> QED
    BY <1>2, <2>2, <2>4
<1>5. CASE NearReadLock
  <2>1. /\ at = "lock" /\ at' = "payee"
        /\ got' = [block |-> got.block, status |-> blocks[got.block].leg]
        /\ UNCHANGED <<leg, blocks, chain, said>>
    BY <1>5 DEF NearReadLock, Reads
  <2>2. PICK h \in F : got = [block |-> chain[h]]
    BY <1>1, <2>1 DEF NearGot
  <2>3. got' = [block |-> chain[h], status |-> BlockAt(h).leg]
    BY <2>1, <2>2 DEF BlockAt
  <2>4. F' = F /\ BlockAt(h)' = BlockAt(h) /\ chain' = chain
    BY <1>1, <2>1, StillWorld
  <2>5. NearGot'
    BY <2>1, <2>2, <2>3, <2>4 DEF NearGot
  <2> QED
    BY <1>2, <2>1, <2>5
<1>6. CASE NearReadPayee
  <2>1. /\ at = "payee" /\ at' = "decide"
        /\ got' = [status |-> got.status, payable |-> blocks[got.block].payable]
        /\ UNCHANGED <<leg, blocks, chain, said>>
    BY <1>6 DEF NearReadPayee, Reads
  <2>2. PICK h \in F : got = [block |-> chain[h], status |-> BlockAt(h).leg]
    BY <1>1, <2>1 DEF NearGot
  <2>3. got' = [status |-> BlockAt(h).leg, payable |-> BlockAt(h).payable]
    BY <2>1, <2>2 DEF BlockAt
  <2>4. F' = F /\ BlockAt(h)' = BlockAt(h)
    BY <1>1, <2>1, StillWorld
  <2>5. NearGot'
    BY <2>1, <2>2, <2>3, <2>4 DEF NearGot
  <2> QED
    BY <1>2, <2>1, <2>5
<1>7. CASE NearDecide
  BY <1>7, ConcludeKeeps, NearConcludesTrue DEF NearDecide
<1> QED
  BY <1>3, <1>4, <1>5, <1>6, <1>7 DEF NearCapture

-----------------------------------------------------------------------------
(* Solana *)

\* What a Solana capture concludes is true (sol-evidence.ts): accounts of one
\* slot are of one block.
LEMMA SolConcludesTrue ==
  ASSUME EvidenceInv, rail = "sol", at = "decide"
  PROVE  IsTrue(SolConclusion)
<1>1. SolGot /\ WorldInv
  BY DEF EvidenceInv, GotInv
<1> DEFINE h == got["escrow"]
<1>2. h \in F
  BY <1>1 DEF SolGot
<1>3. BlockAt(h).leg \in Plain /\ BlockAt(h) \in Block
  BY <1>1, <1>2, FinalBlocks DEF WorldInv
<1>4. BlockAt(h).payable \in BOOLEAN
  BY <1>3 DEF Block
<1>5. CASE ~OneSlot \/ BlockAt(h).leg = "none"
  BY <1>5, NothingIsTrue DEF SolConclusion, Unverified
<1>6. CASE OneSlot /\ BlockAt(h).leg = "locked"
  <2>1. got.vault = h /\ got.payee = h
    BY <1>6 DEF OneSlot
  <2>2. SolConclusion = Judge("locked", BlockAt(got.vault).leg = "locked" /\ BlockAt(got.payee).payable)
    BY <1>6 DEF SolConclusion
  <2>3. (BlockAt(got.vault).leg = "locked" /\ BlockAt(got.payee).payable) = BlockAt(h).payable
    BY <1>4, <1>6, <2>1
  <2> QED
    BY <1>1, <1>2, <1>6, <2>2, <2>3, LockedIsTrue
<1>7. CASE OneSlot /\ BlockAt(h).leg \in {"claimed", "refunded"}
  <2>1. SolConclusion = Judge(BlockAt(h).leg, TRUE)
    BY <1>7 DEF SolConclusion
  <2> QED
    BY <1>1, <1>2, <1>7, <2>1, SettledIsTrue
<1> QED
  BY <1>3, <1>5, <1>6, <1>7 DEF Plain

\* One account more, of a final slot that is not older than the first.
LEMMA SolReadAdds ==
  ASSUME EvidenceInv, rail = "sol", NEW from, NEW to, NEW label, NEW slotMoves,
         SolRead(from, to, label, slotMoves), from # "idle", label \notin {"min", "moved"}
  PROVE  /\ at = from /\ at' = to /\ UNCHANGED <<leg, blocks, chain, said>>
         /\ DOMAIN got' = DOMAIN got \cup {label} /\ got'[label] \in F
         /\ \A l \in DOMAIN got \ {label, "moved"} : got'[l] = got[l]
         /\ SolGot /\ WorldInv /\ F' = F
<1>1. SolGot /\ WorldInv /\ at = from
  BY DEF EvidenceInv, GotInv, SolRead
<1> DEFINE answer(h, moved, l) ==
             CASE l = label -> h [] l = "moved" -> got.moved \/ moved [] OTHER -> got[l]
<1>2. PICK h \in got.min..FinalHeight, moved \in slotMoves :
        Reads(from, to, [l \in DOMAIN got \cup {label} |-> answer(h, moved, l)])
  BY DEF SolRead
<1>3. got["min"] \in F /\ FinalHeight \in Nat
  BY <1>1, FinalIsOnChain DEF SolGot, WorldInv
<1>4. h \in F
  <2>1. got.min = got["min"]
    OBVIOUS
  <2> QED
    BY <1>3, <2>1 DEF F
<1>5. /\ at' = to /\ UNCHANGED <<leg, blocks, chain, said>>
      /\ got' = [l \in DOMAIN got \cup {label} |-> answer(h, moved, l)]
  BY <1>2 DEF Reads
<1>6. F' = F
  BY <1>1, <1>5, StillWorld
<1>7. answer(h, moved, label) = h /\ \A l : l \notin {label, "moved"} => answer(h, moved, l) = got[l]
  <2>1. ASSUME NEW l, l \notin {label, "moved"} PROVE answer(h, moved, l) = got[l]
    BY <2>1
  <2>2. answer(h, moved, label) = h
    OBVIOUS
  <2> QED
    BY <2>1, <2>2
<1> HIDE DEF answer
<1>8. /\ DOMAIN got' = DOMAIN got \cup {label} /\ got'[label] \in F
      /\ \A l \in DOMAIN got \ {label, "moved"} : got'[l] = got[l]
  BY <1>4, <1>5, <1>7
<1> QED
  BY <1>1, <1>5, <1>6, <1>8

\* The slot a capture begins at is final.
LEMMA SolSlotIsFinal ==
  ASSUME EvidenceInv, rail = "sol", NEW tries, SolReadSlot(tries), UNCHANGED <<leg, blocks, chain, said>>
  PROVE  EvidenceInv'
<1>1. PICK h \in F : got' = [tries |-> tries, min |-> h, moved |-> FALSE] /\ at' = "escrow"
  BY DEF SolReadSlot, F
<1>2. F' = F /\ rail' = rail
  BY StillWorld DEF EvidenceInv
<1>3. "min" \in DOMAIN got' /\ got'["min"] \in F'
  BY <1>1, <1>2
<1>4. GotInv'
  BY <1>1, <1>2, <1>3 DEF GotInv, SolGot
<1> QED
  BY <1>4, ReadKeeps

\* Every read of a Solana capture keeps the invariant.
LEMMA SolKeeps ==
  ASSUME EvidenceInv, rail = "sol", SolCapture
  PROVE  EvidenceInv'
<1>1. ASSUME UNCHANGED <<leg, blocks, chain, said>>, SolGot' PROVE EvidenceInv'
  <2>1. GotInv'
    BY <1>1 DEF GotInv, leg
  <2> QED
    BY <1>1, <2>1, ReadKeeps
<1>2. CASE SolStart
  BY <1>2, SolSlotIsFinal DEF SolStart
<1>3. CASE SolReadEscrow
  <2>0. SolRead("escrow", "vault", "escrow", {FALSE}) /\ "escrow" # "idle" /\ "escrow" \notin {"min", "moved"}
    BY <1>3 DEF SolReadEscrow
  <2>1. /\ at' = "vault" /\ UNCHANGED <<leg, blocks, chain, said>>
        /\ DOMAIN got' = DOMAIN got \cup {"escrow"} /\ got'["escrow"] \in F
        /\ \A l \in DOMAIN got \ {"escrow", "moved"} : got'[l] = got[l]
        /\ SolGot /\ at = "escrow" /\ F' = F
    BY <2>0, SolReadAdds
  <2>2. SolGot'
    BY <2>1 DEF SolGot
  <2> QED
    BY <1>1, <2>1, <2>2
<1>4. CASE SolReadVault
  <2>0. SolRead("vault", "payee", "vault", BOOLEAN) /\ "vault" # "idle" /\ "vault" \notin {"min", "moved"}
    BY <1>4 DEF SolReadVault
  <2>1. /\ at' = "payee" /\ UNCHANGED <<leg, blocks, chain, said>>
        /\ DOMAIN got' = DOMAIN got \cup {"vault"} /\ got'["vault"] \in F
        /\ \A l \in DOMAIN got \ {"vault", "moved"} : got'[l] = got[l]
        /\ SolGot /\ at = "vault" /\ F' = F
    BY <2>0, SolReadAdds
  <2>2. SolGot'
    BY <2>1 DEF SolGot
  <2> QED
    BY <1>1, <2>1, <2>2
<1>5. CASE SolReadPayee
  <2>0. SolRead("payee", "decide", "payee", BOOLEAN) /\ "payee" # "idle" /\ "payee" \notin {"min", "moved"}
    BY <1>5 DEF SolReadPayee
  <2>1. /\ at' = "decide" /\ UNCHANGED <<leg, blocks, chain, said>>
        /\ DOMAIN got' = DOMAIN got \cup {"payee"} /\ got'["payee"] \in F
        /\ \A l \in DOMAIN got \ {"payee", "moved"} : got'[l] = got[l]
        /\ SolGot /\ at = "payee" /\ F' = F
    BY <2>0, SolReadAdds
  <2>2. SolGot'
    BY <2>1 DEF SolGot
  <2> QED
    BY <1>1, <2>1, <2>2
<1>6. CASE SolAgain
  <2>1. SolReadSlot(got.tries + 1) /\ UNCHANGED <<leg, blocks, chain, said>>
    BY <1>6 DEF SolAgain
  <2> QED
    BY <2>1, SolSlotIsFinal
<1>7. CASE SolDecide
  BY <1>7, ConcludeKeeps, SolConcludesTrue DEF SolDecide
<1> QED
  BY <1>2, <1>3, <1>4, <1>5, <1>6, <1>7 DEF SolCapture

-----------------------------------------------------------------------------
(* Bitcoin *)

\* The output is looked up in a block that has it.
LEMMA FundingIsMade ==
  ASSUME WorldInv
  PROVE  \/ FundingHeight = 0
         \/ FundingHeight \in 1..Tip /\ FundingHeight # 0 /\ BlockAt(FundingHeight).leg # "none"
<1> DEFINE made == {h \in 1..Tip : BlockAt(h).leg # "none"}
<1>1. FundingHeight = IF made = {} THEN 0 ELSE CHOOSE h \in made : \A k \in made : h <= k
  BY DEF FundingHeight
<1>2. Tip \in Nat
  BY FinalIsOnChain DEF WorldInv
<1>3. made \in SUBSET Nat
  BY <1>2
<1>4. CASE made # {}
  <2> HIDE DEF made
  <2>1. \E h \in made : \A k \in made : h <= k
    BY <1>3, <1>4, LeastExists
  <2>2. FundingHeight \in made
    BY <1>1, <1>4, <2>1
  <2> QED
    BY <1>2, <2>2 DEF made
<1>5. CASE made = {}
  BY <1>1, <1>5
<1> QED
  BY <1>4, <1>5

\* A block that has so many confirmations is final.
LEMMA ConfirmedIsFinal ==
  ASSUME WorldInv, NEW t \in 1..Tip, NEW h \in Nat \ {0}, t - h + 1 >= Confirmations
  PROVE  h \in F
<1>1. Tip \in Nat /\ Depth \in Nat /\ FinalHeight \in 1..Tip /\ FinalHeight >= Tip - Depth
  BY FinalIsOnChain, DepthIsNat DEF WorldInv
<1> QED
  BY <1>1 DEF F, Confirmations

\* The scan goes on with the next block.
LEMMA ScanNext ==
  ASSUME NEW r \in BtcRead({"none"})
  PROVE  LET q == [r EXCEPT !.scan = @ + 1] IN q \in BtcRead({"none"}) /\ q.unspent = r.unspent
BY DEF BtcRead

\* A scan that has found nothing yet is a scan.
LEMMA ReadIsRead == BtcRead({"none"}) \subseteq BtcRead({"none", "claimed", "refunded"})
BY DEF BtcRead

\* What a Bitcoin capture concludes is true (btc-evidence.ts).
LEMMA BtcConcludesTrue ==
  ASSUME EvidenceInv, rail = "btc", at = "decide"
  PROVE  IsTrue(BtcConclusion)
<1>1. BtcGot /\ WorldInv
  BY DEF EvidenceInv, GotInv
<1>2. CASE got.tip = 0
  BY <1>2, NothingIsTrue DEF BtcConclusion, Unverified
<1>3. CASE got.tip # 0
  <2>1. /\ got \in BtcRead({"none", "claimed", "refunded"})
        /\ got.unspent /\ got.confirmations >= Confirmations =>
             got.funding \in F /\ BlockAt(got.funding).leg = "locked"
        /\ ~got.unspent /\ got.spend.status # "none" /\ SpendConfirmations >= Confirmations =>
             got.spend.height \in F /\ BlockAt(got.spend.height).leg = got.spend.status
    BY <1>1, <1>3 DEF BtcGot
  <2>2. /\ got.tip \in 1..Tip /\ got.funding \in Nat /\ got.confirmations \in Int /\ got.unspent \in BOOLEAN
        /\ got.spend.height \in Nat /\ got.spend.status \in {"none", "claimed", "refunded"}
    BY <2>1 DEF BtcRead
  <2>3. Tip \in Nat /\ Confirmations \in Nat
    BY <1>1, FinalIsOnChain, DepthIsNat DEF WorldInv, Confirmations
  <2>4. CASE got.funding > got.tip
    <3>1. ~(got.funding <= got.tip)
      BY <2>2, <2>3, <2>4
    <3>2. BtcConclusion = NoEvidence
      BY <1>3, <2>4, <3>1, Zenon DEF BtcConclusion, Unverified
    <3> QED
      BY <3>2, NothingIsTrue
  <2>5. CASE got.funding <= got.tip /\ got.unspent
    <3>1. BtcConclusion = IF got.confirmations < Confirmations THEN NoEvidence ELSE Judge("locked", TRUE)
      <4>1. ~(got.funding > got.tip)
        BY <2>2, <2>3, <2>5
      <4> QED
        BY <1>3, <2>5, <4>1, Zenon DEF BtcConclusion, Unverified
    <3>2. CASE got.confirmations < Confirmations
      BY <3>1, <3>2, NothingIsTrue
    <3>3. CASE ~(got.confirmations < Confirmations)
      <4>1. got.funding \in F /\ BlockAt(got.funding).leg = "locked"
        BY <2>1, <2>2, <2>3, <2>5, <3>3
      <4>2. BlockAt(got.funding).payable /\ BlockAt(got.funding) \in Block
        BY <1>1, <4>1, FinalBlocks DEF WorldInv
      <4>3. BlockAt(got.funding).payable = TRUE
        BY <4>2 DEF Block
      <4> QED
        BY <1>1, <3>1, <3>3, <4>1, <4>3, LockedIsTrue
    <3> QED
      BY <3>2, <3>3
  <2>6. CASE got.funding <= got.tip /\ ~got.unspent
    <3>1. SpendConfirmations \in Int
      BY <2>2, <2>3 DEF SpendConfirmations
    <3>2. BtcConclusion = IF got.spend.status = "none" \/ SpendConfirmations < Confirmations
                          THEN NoEvidence ELSE Judge(got.spend.status, TRUE)
      <4>1. ~(got.funding > got.tip)
        BY <2>2, <2>3, <2>6
      <4> QED
        BY <1>3, <2>6, <4>1, Zenon DEF BtcConclusion, Unverified
    <3>3. CASE got.spend.status = "none" \/ SpendConfirmations < Confirmations
      BY <3>2, <3>3, NothingIsTrue
    <3>4. CASE ~(got.spend.status = "none" \/ SpendConfirmations < Confirmations)
      <4>1. got.spend.height \in F /\ BlockAt(got.spend.height).leg = got.spend.status
        BY <2>1, <2>3, <2>6, <3>1, <3>4
      <4>2. IsTrue(Judge(BlockAt(got.spend.height).leg, TRUE))
        BY <1>1, <2>2, <3>4, <4>1, SettledIsTrue
      <4> QED
        BY <3>2, <3>4, <4>1, <4>2
    <3> QED
      BY <3>3, <3>4
  <2> QED
    BY <2>2, <2>3, <2>4, <2>5, <2>6
<1> QED
  BY <1>2, <1>3

\* Every read of a Bitcoin capture keeps the invariant: confirmations are
\* counted up to a tip that was read before, so that they may be too few and
\* are never too many.
LEMMA BtcKeeps ==
  ASSUME EvidenceInv, rail = "btc", BtcCapture
  PROVE  EvidenceInv'
<1>1. BtcGot /\ WorldInv
  BY DEF EvidenceInv, GotInv
<1>2. Tip \in Nat /\ Tip \in 1..Tip /\ F \subseteq 1..Tip /\ Confirmations \in Nat
  BY <1>1, FinalIsOnChain, FinalBlocks, DepthIsNat DEF WorldInv, Confirmations
<1>3. ASSUME UNCHANGED <<leg, blocks, chain, said>>, BtcGot' PROVE EvidenceInv'
  <2>1. GotInv'
    BY <1>3 DEF GotInv, leg
  <2> QED
    BY <1>3, <2>1, ReadKeeps
<1>4. ASSUME UNCHANGED <<leg, blocks, chain, said>>
      PROVE  /\ F' = F /\ Tip' = Tip /\ Confirmations' = Confirmations
             /\ \A h : BlockAt(h)' = BlockAt(h)
             /\ \A s : BtcRead(s)' = BtcRead(s)
  <2>1. F' = F /\ Tip' = Tip /\ Confirmations' = Confirmations /\ \A h : BlockAt(h)' = BlockAt(h)
    BY <1>1, <1>4, StillWorld
  <2> QED
    BY <2>1 DEF BtcRead
<1>5. CASE StartCapture("tip")
  BY <1>5, StartKeeps
<1>6. CASE BtcReadTip
  <2>1. at' = "funding" /\ got' = [tip |-> Tip] /\ UNCHANGED <<leg, blocks, chain, said>>
    BY <1>6 DEF BtcReadTip, Reads
  <2>2. got' \in [tip : 1..Tip']
    BY <1>2, <1>4, <2>1
  <2>3. BtcGot'
    BY <2>1, <2>2 DEF BtcGot
  <2> QED
    BY <1>3, <2>1, <2>3
<1>7. CASE BtcReadFunding
  <2>1. at = "funding" /\ UNCHANGED <<leg, blocks, chain, said>> /\ got \in [tip : 1..Tip]
    BY <1>1, <1>7 DEF BtcReadFunding, Reads, BtcGot
  <2>2. CASE FundingHeight = 0
    <3>1. at' = "decide" /\ got' = [got EXCEPT !.tip = 0]
      BY <1>7, <2>2 DEF BtcReadFunding, Reads
    <3>2. got'.tip = 0
      BY <2>1, <3>1
    <3>3. BtcGot'
      BY <3>1, <3>2 DEF BtcGot
    <3> QED
      BY <1>3, <2>1, <3>3
  <2>3. CASE FundingHeight # 0
    <3>1. /\ at' = "output"
          /\ got' = [tip |-> got.tip, funding |-> FundingHeight, confirmations |-> Tip - FundingHeight + 1]
      BY <1>7, <2>3 DEF BtcReadFunding, Reads
    <3>2. FundingHeight \in 1..Tip /\ BlockAt(FundingHeight).leg # "none"
      BY <1>1, <2>3, FundingIsMade
    <3>3. /\ got' \in [tip : 1..Tip, funding : Nat \ {0}, confirmations : Int]
          /\ got'.funding = FundingHeight /\ got'.confirmations = Tip - FundingHeight + 1
      BY <1>2, <2>1, <3>1, <3>2
    <3>4. Tip - FundingHeight + 1 >= Confirmations => FundingHeight \in F
      BY <1>1, <1>2, <3>2, ConfirmedIsFinal
    <3>5. Tip' = Tip /\ F' = F /\ Confirmations' = Confirmations
      BY <1>4, <2>1
    <3>6. BlockAt(got.funding)'.leg # "none"
      <4>1. BlockAt(got.funding)' = BlockAt(FundingHeight)
        BY <2>1, <3>3 DEF BlockAt
      <4> QED
        BY <3>2, <4>1
    <3>7. BtcGot'
      BY <3>1, <3>3, <3>4, <3>5, <3>6 DEF BtcGot
    <3> QED
      BY <1>3, <2>1, <3>7
  <2> QED
    BY <2>2, <2>3
<1>8. CASE BtcReadOutput
  <2> DEFINE unspent == BlockAt(Tip).leg = "locked"
             known == [tip |-> got.tip, funding |-> got.funding, confirmations |-> got.confirmations,
                       unspent |-> unspent, scan |-> ScanFrom(got.funding),
                       spend |-> [height |-> 0, status |-> "none"]]
  <2>1. /\ at = "output" /\ at' = (IF known.unspent THEN "decide" ELSE "scan") /\ got' = known
        /\ UNCHANGED <<leg, blocks, chain, said>>
    BY <1>8 DEF BtcReadOutput, Reads
  <2>2. /\ got \in [tip : 1..Tip, funding : Nat \ {0}, confirmations : Int]
        /\ got.confirmations >= Confirmations => got.funding \in F /\ BlockAt(got.funding).leg # "none"
    BY <1>1, <2>1 DEF BtcGot
  <2>3. known \in BtcRead({"none"})
    BY <2>2 DEF BtcRead, ScanFrom
  <2>4. /\ known.unspent = unspent /\ known.confirmations = got.confirmations
        /\ known.funding = got.funding
    OBVIOUS
  <2>5. unspent /\ got.confirmations >= Confirmations => BlockAt(got.funding).leg = "locked"
    <3>1. \A h \in F : Leads(BlockAt(h).leg, BlockAt(Tip).leg) /\ BlockAt(h).leg \in Plain
      BY <1>1, <1>2 DEF WorldInv
    <3> QED
      BY <2>2, <3>1 DEF Leads, Plain
  <2> HIDE DEF known
  <2>6. /\ Tip' = Tip /\ F' = F /\ Confirmations' = Confirmations
        /\ \A s : BtcRead(s)' = BtcRead(s)
    BY <1>4, <2>1
  <2>7. BlockAt(got.funding)' = BlockAt(got.funding)
    BY <2>1, <2>4 DEF BlockAt
  <2>8. got' \in BtcRead({"none"})' /\ got' \in BtcRead({"none", "claimed", "refunded"})'
    BY <2>1, <2>3, <2>6, ReadIsRead
  <2>9. got'.confirmations = got.confirmations /\ got'.funding = got.funding /\ got'.unspent = unspent
    BY <2>1, <2>4
  <2>10. at' = IF unspent THEN "decide" ELSE "scan"
    BY <2>1, <2>4
  <2>11. BtcGot'
    <3>1. CASE unspent
      BY <2>2, <2>5, <2>6, <2>7, <2>8, <2>9, <2>10, <3>1 DEF BtcGot
    <3>2. CASE ~unspent
      BY <2>8, <2>9, <2>10, <3>2 DEF BtcGot
    <3> QED
      BY <3>1, <3>2
  <2> QED
    BY <1>3, <2>1, <2>11
<1>9. CASE BtcScan
  <2>1. at = "scan" /\ UNCHANGED <<leg, blocks, chain, said>> /\ got \in BtcRead({"none"}) /\ ~got.unspent
    BY <1>1, <1>9 DEF BtcScan, Reads, BtcGot
  <2>2. /\ got.tip \in 1..Tip /\ got.funding \in Nat /\ got.scan \in Nat \ {0} /\ got.spend.status = "none"
    BY <2>1 DEF BtcRead
  <2>3. /\ Tip' = Tip /\ F' = F /\ Confirmations' = Confirmations
        /\ \A s : BtcRead(s)' = BtcRead(s)
    BY <1>4, <2>1
  <2>4. CASE got.scan > ScanEnd(got.tip, got.funding)
    <3>1. at' = "decide" /\ got' = got
      BY <1>9, <2>4 DEF BtcScan, Reads
    <3>2. got' \in BtcRead({"none", "claimed", "refunded"})' /\ ~got'.unspent /\ got'.spend.status = "none"
      BY <2>1, <2>2, <2>3, <3>1, ReadIsRead
    <3>3. BtcGot'
      BY <3>1, <3>2 DEF BtcGot
    <3> QED
      BY <1>3, <2>1, <3>3
  <2>5. CASE ~(got.scan > ScanEnd(got.tip, got.funding)) /\ SpentAt(got.scan)
    <3> DEFINE h == got.scan
               status == BlockAt(h).leg
    <3>1. at' = "decide" /\ got' = [got EXCEPT !.spend = [height |-> h, status |-> status]]
      BY <1>9, <2>5 DEF BtcScan, Reads
    <3>2. status \in {"claimed", "refunded"}
      BY <2>5 DEF SpentAt
    <3>3. /\ got' \in BtcRead({"none", "claimed", "refunded"})
          /\ got'.tip = got.tip /\ got'.unspent = got.unspent
          /\ got'.spend.height = h /\ got'.spend.status = status
      <4>1. h \in Nat
        BY <2>2
      <4>2. got \in BtcRead({"none"})
        BY <2>1
      <4> HIDE DEF h, status
      <4> DEFINE q == got'
      <4>3. q = [got EXCEPT !.spend = [height |-> h, status |-> status]]
        BY <3>1
      <4> HIDE DEF q
      <4>4. /\ q \in BtcRead({"none", "claimed", "refunded"})
            /\ q.tip = got.tip /\ q.unspent = got.unspent
            /\ q.spend.height = h /\ q.spend.status = status
        BY <3>2, <4>1, <4>2, <4>3 DEF BtcRead
      <4> QED
        BY <4>4 DEF q
    <3>4. SpendConfirmations' = got.tip - h + 1
      BY <3>3 DEF SpendConfirmations
    <3>5. SpendConfirmations' >= Confirmations => h \in F
      BY <1>1, <2>2, <3>4, ConfirmedIsFinal
    <3>6. BlockAt(got.spend.height)'.leg = got'.spend.status
      BY <2>1, <3>3 DEF BlockAt
    <3>7. BtcGot'
      BY <2>1, <2>3, <3>1, <3>3, <3>5, <3>6 DEF BtcGot
    <3> QED
      BY <1>3, <2>1, <3>7
  <2>6. CASE ~(got.scan > ScanEnd(got.tip, got.funding)) /\ ~SpentAt(got.scan)
    <3>1. at' = "scan" /\ got' = [got EXCEPT !.scan = @ + 1]
      BY <1>9, <2>6 DEF BtcScan, Reads
    <3>2. got' \in BtcRead({"none"})' /\ ~got'.unspent
      BY <2>1, <2>3, <3>1, ScanNext
    <3>3. BtcGot'
      BY <3>1, <3>2 DEF BtcGot
    <3> QED
      BY <1>3, <2>1, <3>3
  <2> QED
    BY <2>4, <2>5, <2>6
<1>10. CASE BtcDecide
  BY <1>10, ConcludeKeeps, BtcConcludesTrue DEF BtcDecide
<1> QED
  BY <1>5, <1>6, <1>7, <1>8, <1>9, <1>10 DEF BtcCapture

-----------------------------------------------------------------------------
(* Every behaviour *)

\* At first there is one block, nothing is read and nothing is said.
LEMMA InitIsSound == EvidenceInit => EvidenceInv
<1> SUFFICES ASSUME EvidenceInit PROVE EvidenceInv
  OBVIOUS
<1> DEFINE first == [height |-> 1, leg |-> "none", payable |-> TRUE]
<1>1. /\ rail \in Rails /\ ours \in BOOLEAN /\ lines \in BOOLEAN
      /\ blocks = <<first>> /\ chain = <<1>> /\ at = "idle" /\ said = NoEvidence
  BY DEF EvidenceInit
<1>2. first \in Block /\ first.leg = "none" /\ first.payable = TRUE
  BY DEF Block, LegStates
<1> HIDE DEF first
<1>3. Tip = 1 /\ chain \in Seq(Nat) /\ blocks \in Seq(Block) /\ Len(blocks) = 1 /\ chain[1] = 1
  BY <1>1, <1>2 DEF Tip
<1>4. \A h \in 1..Tip : h = 1 /\ BlockAt(h) = first
  BY <1>1, <1>3 DEF BlockAt
<1>5. WorldTypeOK
  BY <1>1, <1>3, <1>4 DEF WorldTypeOK
<1>6. WorldInv
  BY <1>2, <1>4, <1>5 DEF WorldInv, Leads, Plain
<1>7. GotInv
  BY <1>1 DEF GotInv, EvmGot, NearGot, SolGot, BtcGot
<1> QED
  BY <1>1, <1>6, <1>7, NothingIsTrue DEF EvidenceInv

\* Every step keeps the invariant.
LEMMA StepIsSound == EvidenceInv /\ [EvidenceNext]_evidenceVars => EvidenceInv'
<1> SUFFICES ASSUME EvidenceInv, [EvidenceNext]_evidenceVars PROVE EvidenceInv'
  OBVIOUS
<1>1. CASE Mine \/ Fork
  <2>1. WorldInv' /\ WorldGrows
    BY <1>1, ChainGrows DEF EvidenceInv
  <2>2. UNCHANGED <<at, got, said>>
    BY <1>1 DEF Mine, Fork
  <2>3. GotInv'
    BY <2>1, <2>2, GotStays DEF EvidenceInv
  <2>4. IsTrue(said)'
    <3> DEFINE evidence == said
    <3>1. \A e : IsTrue(e) => IsTrue(e)'
      BY <2>1, TrueStays DEF EvidenceInv
    <3> QED
      BY <2>2, <3>1 DEF EvidenceInv, IsTrue
  <2> QED
    BY <2>1, <2>3, <2>4 DEF EvidenceInv
<1>2. CASE ReadFails
  BY <1>2, FailKeeps
<1>3. CASE Capture
  BY <1>3, BtcKeeps, EvmKeeps, NearKeeps, SolKeeps DEF Capture
<1>4. CASE UNCHANGED evidenceVars
  <2>1. UNCHANGED <<leg, blocks, chain, said>> /\ UNCHANGED <<rail, at, got>>
    BY <1>4 DEF evidenceVars, world, leg
  <2>2. GotInv'
    <3>1. /\ F' = F /\ Tip' = Tip /\ Confirmations' = Confirmations
          /\ \A h : BlockAt(h)' = BlockAt(h)
      BY <2>1, StillWorld DEF EvidenceInv
    <3>2. \A s : BtcRead(s)' = BtcRead(s)
      BY <3>1 DEF BtcRead
    <3> QED
      BY <2>1, <3>1, <3>2 DEF EvidenceInv, GotInv, EvmGot, NearGot, SolGot, BtcGot, SpendConfirmations
  <2> QED
    BY <2>1, <2>2, ReadKeeps
<1> QED
  BY <1>1, <1>2, <1>3, <1>4 DEF EvidenceNext

\* EvidenceInv holds in every reachable state, on every rail, for every depth
\* of forks and any number of blocks, faults and reads.
THEOREM EvidenceInvHolds == EvidenceSpec => []EvidenceInv
BY InitIsSound, StepIsSound, PTL DEF EvidenceSpec

\* The invariant says that what is final is so.
LEMMA SoundIsFinal == EvidenceInv => FinalIsFinal
BY DEF EvidenceInv, IsTrue, FinalIsFinal

\* The invariant says that a verdict is about one final block.
LEMMA SoundIsOfOneBlock == EvidenceInv => VerdictIsOfOneBlock
<1> SUFFICES ASSUME EvidenceInv PROVE VerdictIsOfOneBlock
  OBVIOUS
<1>1. IsTrue(said)
  BY DEF EvidenceInv
<1> QED
  BY <1>1 DEF IsTrue, VerdictIsOfOneBlock, OneFinalBlock, F

\* Evidence that calls a state of the leg final is right about the blocks that
\* no fork can replace, and stays right (RailObservation.final).
THEOREM EvidenceIsFinal == EvidenceSpec => []FinalIsFinal
BY EvidenceInvHolds, SoundIsFinal, PTL

\* What a lock is vouched for or refuted on held in one final block, although
\* it was put together from several reads (railVerified).
THEOREM VerdictsAreOfOneBlock == EvidenceSpec => []VerdictIsOfOneBlock
BY EvidenceInvHolds, SoundIsOfOneBlock, PTL
=============================================================================
