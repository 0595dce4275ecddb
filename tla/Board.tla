------------------------------- MODULE Board -------------------------------
(***************************************************************************)
(* From the lines of the rooms to the board: which leg B and which accepts *)
(* belong to a leg A (buildBoard, src/board.ts), and the status of the     *)
(* swap (foldSwap, src/swap.ts).  The operators take the lines as they     *)
(* were read.  Offers are well formed and on the rails of their leg; what  *)
(* is only said in the reasons of a view is left out.                      *)
(***************************************************************************)
EXTENDS Rooms

First(indices) == CHOOSE i \in indices : \A j \in indices : i <= j

\* Lines of an offer: an accept counts after its offer and not from its maker.
OfferOf(lines, id) == {i \in DOMAIN lines : lines[i].type = "offer" /\ lines[i].id = id}
LegBs(lines) == {i \in DOMAIN lines : lines[i].type = "offer" /\ lines[i].ref = "A"}

Accepts(lines, id) ==
  {i \in DOMAIN lines :
     /\ lines[i].type = "accept" /\ lines[i].ref = id
     /\ \E j \in OfferOf(lines, id) : j < i /\ lines[j].from # lines[i].from}

From(lines, indices, who) == {i \in indices : lines[i].from = who}

ContractOf(accept) == <<accept.ref, accept.from, accept.statement>>

-----------------------------------------------------------------------------
(* Pairing *)

\* Leg B offers by a party that has accepted leg A.
ByAccepters(lines) ==
  {b \in LegBs(lines) : From(lines, Accepts(lines, "A"), lines[b].from) # {}}

\* And accepted by the Buyer in turn.
Crossing(lines) ==
  {b \in ByAccepters(lines) : From(lines, Accepts(lines, lines[b].id), "buyer") # {}}

AcceptedAt(lines, b) == First(From(lines, Accepts(lines, "A"), lines[b].from))

\* Of leg Bs that cross, the one whose maker accepted leg A first.  The mutant
\* takes the one that was offered first, as among those that do not cross.
OfferedFirst(lines) == First(Crossing(lines))
AcceptedFirst(lines) ==
  First({b \in Crossing(lines) :
           \A c \in Crossing(lines) : AcceptedAt(lines, b) <= AcceptedAt(lines, c)})

\* The leg B of leg A; 0 if it has none.
LegBOf(lines) ==
  CASE LegBs(lines) = {} \/ OfferOf(lines, "A") = {} -> 0
    [] LegBs(lines) # {} /\ OfferOf(lines, "A") # {} ->
         IF Accepts(lines, "A") = {} THEN First(LegBs(lines))
         ELSE IF Crossing(lines) # {} THEN AcceptedFirst(lines)
         ELSE IF ByAccepters(lines) # {} THEN First(ByAccepters(lines)) ELSE 0

\* The counterparty's accept before any other one.
ChooseAccept(lines, offer, counterparty) ==
  LET all == Accepts(lines, offer)
      own == From(lines, all, counterparty) IN
  IF own # {} THEN ContractOf(lines[First(own)])
  ELSE IF all # {} THEN ContractOf(lines[First(all)]) ELSE <<>>

Pairing(lines) ==
  LET b == LegBOf(lines) IN
  [seller |-> IF b = 0 THEN "" ELSE lines[b].from,
   a |-> ChooseAccept(lines, "A", IF b = 0 THEN "" ELSE lines[b].from),
   b |-> IF b = 0 THEN <<>> ELSE ChooseAccept(lines, lines[b].id, "buyer")]

\* pairKey, and the key of a leg A without a pair.
KeyOf(p) == IF p.a # <<>> /\ p.b # <<>> THEN <<p.a, p.b>> ELSE <<>>

-----------------------------------------------------------------------------
(* The status of a swap *)

\* The rule that applies is the first whose condition holds.
FirstRule(rules) ==
  rules[CHOOSE i \in DOMAIN rules : rules[i][1] /\ \A j \in 1..(i - 1) : ~rules[j][1]][2]

\* Evidence counts for the lock that the accepted lock frame names.
Bound(deal, evidence) == IF deal.ref = "agreed" THEN evidence ELSE NoEvidence

\* A refund frame is not enough, except on paper without a note; a refund on
\* the chain needs no frame.
RefundedFold(deal, evidence) ==
  \/ evidence.rail = "refunded"
  \/ deal.status = "refunded" /\ paper /\ evidence.rail = "none"

LegAAlone(a, evA) ==
  <<<<a.status = "proposed", "bid">>,
    <<a.status = "accepted", "accepted">>,
    <<a.status = "cancelled", "abandoned">>,
    <<a.status = "refunded" /\ RefundedFold(a, evA), "refunded-a">>,
    <<TRUE, "unpaired">>>>

\* Payer and payee cross, and the statement is the same.
Crosses(pair) == pair.a[2] = pair.seller /\ pair.b[2] = "buyer" /\ pair.a[3] = pair.b[3]

NotPaired(pair, a, b) ==
  <<<<a.status = "proposed", IF b.status = "proposed" THEN "bid" ELSE "unpaired">>,
    <<a.status = "accepted" /\ b.status = "proposed", "accepted">>,
    <<b.status = "proposed" \/ ~Crosses(pair), "unpaired">>>>

\* Mutant: what the frames say is taken for settled.
ClaimedByFrames(a, b, evA, evB) == a.status = "claimed" /\ b.status = "claimed"
ClaimedBoth(a, b, evA, evB) ==
  a.status = "claimed" /\ b.status = "claimed" /\ evA.rail = "claimed" /\ evB.rail = "claimed"

Ended(a, b, evA, evB) ==
  <<<<"cancelled" \in {a.status, b.status}, "abandoned">>,
    <<RefundedFold(a, evA) /\ RefundedFold(b, evB), "refunded">>,
    <<RefundedFold(a, evA), "refunded-a">>,
    <<RefundedFold(b, evB), "refunded-b">>,
    <<ClaimedBoth(a, b, evA, evB), "settled">>,
    <<"claimed" \in {a.status, b.status}, "revealed">>>>

Locking(a, b, evA, evB, now) ==
  <<<<b.status # "locked", IF now >= 1 THEN "abandoned" ELSE "paired">>,
    <<evB.verdict # "true", "paired">>,
    <<a.status # "locked", IF now >= 2 THEN "abandoned" ELSE "b-locked">>,
    <<evA.verdict # "true", "b-locked">>,
    <<TRUE, "a-locked">>>>

FoldSwap(pair, a, b, evA, evB, now) ==
  IF pair.seller = "" THEN FirstRule(LegAAlone(a, evA))
  ELSE FirstRule(NotPaired(pair, a, b) \o Ended(a, b, evA, evB) \o Locking(a, b, evA, evB, now))

PairedOrLater ==
  {"paired", "b-locked", "a-locked", "revealed", "settled",
   "refunded", "refunded-a", "refunded-b", "abandoned"}
=============================================================================
