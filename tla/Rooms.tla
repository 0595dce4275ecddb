------------------------------- MODULE Rooms -------------------------------
(***************************************************************************)
(* What the watcher reads: the offers room of the venue, the deal rooms of *)
(* the two legs of a swap, and the legs on their chains.                   *)
(*                                                                         *)
(* offers is the sequence of the lines of the offers room; a line is as    *)
(* good as its signature, so a line is what its sender posted.  Of a deal  *)
(* room only the state is kept that tclk's transcript machine (a library)  *)
(* is in after its frames: a frame the machine does not accept leaves no   *)
(* mark.  A contract is named by the offer, the accepter and the statement *)
(* (the hash lock) of the accept.                                          *)
(***************************************************************************)
EXTENDS Integers, Sequences, FiniteSets

VARIABLES
  offers,   \* the offers room
  deals,    \* [leg -> the state of its deal room]
  escrow,   \* [leg -> what its chain says of it, for good]
  paper,    \* the legs are rehearsed on tclk's paper rail
  clock     \* 1 when leg A's offer has expired, 2 past its claim deadline

roomVars == <<offers, deals, escrow, paper, clock>>

Legs == {"A", "B"}

OfferA == [type |-> "offer", from |-> "buyer", id |-> "A", ref |-> "", statement |-> ""]
OfferB(who) ==
  [type |-> "offer", from |-> who, id |-> IF who = "seller" THEN "B" ELSE "C", ref |-> "A", statement |-> ""]
Accept(who, offer, statement) ==
  [type |-> "accept", from |-> who, id |-> "", ref |-> offer, statement |-> statement]

\* The lines of the swap of the Buyer and the Seller, in the order they agree.
SwapLines ==
  <<OfferA, Accept("seller", "A", "s"), OfferB("seller"), Accept("buyer", "B", "s")>>

\* What else is posted: another Seller accepts leg A and offers a leg B, which
\* the Buyer accepts as well, and accepts the first Seller's.
OtherLines ==
  {Accept("other", "A", "o"), OfferB("other"), Accept("buyer", "C", "o"), Accept("other", "B", "o")}

Deal == [status : {"proposed", "accepted", "locked", "claimed", "refunded", "cancelled"},
         ref : {"none", "agreed", "another"}]
Proposed == [status |-> "proposed", ref |-> "none"]
Opened == [status |-> "accepted", ref |-> "none"]

\* Whoever posted a line may post it again.
Post(line) ==
  /\ offers' = Append(offers, line)
  /\ UNCHANGED <<deals, escrow, paper, clock>>

\* A frame that the machine accepts: lock names the rail's reference, which may
\* be another one than the lock that was made for this leg.
Frame(leg) ==
  /\ \E next \in Deal :
       /\ deals' = [deals EXCEPT ![leg] = next]
       /\ \/ deals[leg] = Opened /\ next.status = "locked" /\ next.ref # "none"
          \/ deals[leg] = Opened /\ next = [Opened EXCEPT !.status = "cancelled"]
          \/ /\ deals[leg].status = "locked" /\ next.ref = deals[leg].ref
             /\ next.status \in {"claimed", "refunded"}
  /\ UNCHANGED <<offers, escrow, paper, clock>>

\* ours: made with the terms of the contract.
Settle(leg) ==
  /\ \/ /\ escrow[leg].state = "none"
        /\ \E ours \in BOOLEAN : escrow' = [escrow EXCEPT ![leg] = [state |-> "locked", ours |-> ours]]
     \/ /\ escrow[leg].state = "locked"
        /\ \E s \in {"claimed", "refunded"} : escrow' = [escrow EXCEPT ![leg].state = s]
  /\ UNCHANGED <<offers, deals, paper, clock>>

Tick ==
  /\ clock < 2
  /\ clock' = clock + 1
  /\ UNCHANGED <<offers, deals, escrow, paper>>

-----------------------------------------------------------------------------
(* Evidence of a leg, as the captures of its chain end up in it *)

NoEvidence == [verdict |-> "null", rail |-> "none"]

Evidence(leg) ==
  LET e == escrow[leg] IN
  CASE e.state = "none" -> NoEvidence
    [] e.state = "locked" -> IF e.ours THEN [verdict |-> "true", rail |-> "locked"]
                             ELSE [verdict |-> "false", rail |-> "none"]
    [] OTHER -> IF e.ours THEN [verdict |-> "false", rail |-> e.state] ELSE NoEvidence
=============================================================================
