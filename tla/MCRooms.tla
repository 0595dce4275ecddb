------------------------------ MODULE MCRooms ------------------------------
(***************************************************************************)
(* What is written in the rooms and what is read from them.  A behaviour   *)
(* is of one scene: "pairs", lines of the offers room in any order, of     *)
(* which the board makes pairs; "watched", sweeps over one swap in any     *)
(* stage while its parties go on; "journal", the journals that post a      *)
(* Seller's lines.                                                         *)
(***************************************************************************)
EXTENDS Watcher, FlowJournal, Functions, TLC

CONSTANTS
  MaxLines,  \* in scene "pairs",
  MaxRepeats,\* of which so many have been there before
  MaxEvents  \* what the parties do while the watcher sweeps

VARIABLES scene, events

allVars == <<scene, events, roomVars, watcherVars, journalVars>>

NoLock == [state |-> "none", ours |-> TRUE]
NewLegs == deals = [l \in Legs |-> Opened] /\ escrow = [l \in Legs |-> NoLock]

-----------------------------------------------------------------------------
(* Stages of a swap: each of its lines may be the last one, or the Buyer's     *)
(* accept is of another statement; frames and chains do not go together.       *)
(* Leg A may be locked with other terms, or under another reference.  Paper    *)
(* and a late clock are tried where the fold looks at them: at a refund frame, *)
(* and while a leg is not locked.                                              *)

Stages ==
  {SubSeq(SwapLines, 1, k) : k \in 0..4} \cup
    {SubSeq(SwapLines, 1, 3) \o <<Accept("buyer", "B", "o")>>}

Agreed(leg) == \E i \in DOMAIN offers : offers[i] = SwapLines[IF leg = "A" THEN 2 ELSE 4]

DealStages(leg) ==
  {Opened, [Opened EXCEPT !.status = "cancelled"]} \cup
    [status : {"locked", "claimed", "refunded"}, ref : IF leg = "A" THEN {"agreed", "another"} ELSE {"agreed"}]

EscrowStages(leg) ==
  [state : {"none", "locked", "claimed", "refunded"}, ours : {TRUE}] \cup
    (IF leg = "A" THEN {[state |-> "locked", ours |-> FALSE]} ELSE {})

Watched ==
  /\ scene = "watched"
  /\ offers \in Stages
  /\ deals \in [Legs -> UNION {DealStages(l) : l \in Legs}]
  /\ escrow \in [Legs -> UNION {EscrowStages(l) : l \in Legs}]
  /\ paper \in BOOLEAN /\ clock \in {0, 2}
  /\ \A l \in Legs : IF Agreed(l) THEN deals[l] \in DealStages(l) /\ escrow[l] \in EscrowStages(l)
                     ELSE deals[l] = Opened /\ escrow[l] = NoLock
  /\ paper => \E l \in Legs : deals[l].status = "refunded"
  /\ clock = 2 => ~paper /\ \E l \in Legs : deals[l] = Opened

Unwatched ==
  /\ scene \in {"pairs", "journal"}
  /\ offers = <<>> /\ NewLegs /\ paper = FALSE /\ clock = 0

RoomsInit == events = 0 /\ WatcherInit /\ JournalInit /\ (Watched \/ Unwatched)

\* What the parties do while the watcher reads.
Event ==
  /\ scene = "watched" /\ events < MaxEvents
  /\ events' = events + 1
  /\ \/ \E l \in Legs : Agreed(l) /\ (Frame(l) \/ Settle(l))
     \/ Tick
     \/ Len(offers) < 4 /\ Post(SwapLines[Len(offers) + 1])
     \/ offers # <<>> /\ Post(offers[Len(offers)])
  /\ UNCHANGED <<scene, watcherVars, journalVars>>

AnyLine ==
  /\ scene = "pairs" /\ Len(offers) < MaxLines
  /\ \E line \in OtherLines \cup {SwapLines[k] : k \in 1..4} :
       /\ line \in Range(offers) => Len(offers) - Cardinality(Range(offers)) < MaxRepeats
       /\ Post(line)
  /\ UNCHANGED <<scene, events, watcherVars, journalVars>>

RoomsNext ==
  \/ Event \/ AnyLine
  \/ scene = "watched" /\ Sweep /\ UNCHANGED <<scene, events, roomVars, journalVars>>
  \/ scene = "journal" /\ Journal /\ UNCHANGED <<scene, events, roomVars, watcherVars>>

RoomsSpec == RoomsInit /\ [][RoomsNext]_allVars

\* Only the journals tell flow objects apart, and they do not prefer one.
FlowSymmetry == Permutations(Flows)

-----------------------------------------------------------------------------
(* Properties *)

\* What the board says has happened has happened on the chains, to the locks
\* of these very contracts: legs settled, locked or refunded.  Frames that ran
\* ahead, locks of other terms or references, and reads of different times do
\* not bring a status about (foldSwap; a paper refund is a rehearsal).
SettledIsTrue ==
  \A e \in board :
    LET in(l, states) == escrow[l].ours /\ escrow[l].state \in states IN
    /\ e.status = "settled" => \A l \in Legs : in(l, {"claimed"})
    /\ e.status = "a-locked" => \A l \in Legs : in(l, {"locked", "claimed", "refunded"})
    /\ e.status = "b-locked" => in("B", {"locked", "claimed", "refunded"})
    /\ ~paper /\ e.status = "refunded" => \A l \in Legs : in(l, {"refunded"})
    /\ ~paper /\ e.status = "refunded-a" => in("A", {"refunded"})
    /\ ~paper /\ e.status = "refunded-b" => in("B", {"refunded"})

\* Every status that a sweep published and ended well with has a line in
\* swaps.jsonl, and HIT is there once a swap was paired, wherever earlier
\* sweeps were cut off (sweepOnce writes its files one after the other) and
\* whatever was made of state.json.  What is missing is what swaps.jsonl had
\* when a later sweep could not read it.
EveryStatusHasALine ==
  step = "idle" =>
    /\ complete \subseteq published \cup lost
    /\ (\E e \in complete : e.status \in PairedOrLater) => hit

\* Once a leg B crosses a leg A, no line of anyone but the Buyer and that leg
\* B's maker changes the pair or its contracts (buildBoard).
StrangersDoNotRepair ==
  [][/\ offers' # offers /\ Crossing(offers) # {}
     /\ offers'[Len(offers')].from \notin {"buyer", Pairing(offers).seller}
     => Pairing(offers') = Pairing(offers)]_allVars

\* Every line that is in a room, or may still come into one, has the text that
\* the stored record has for its kind, and no two accepts of one offer are out,
\* whatever overlaps, is resumed or arrives late (ensurePosted, beginSeller).
PostedIsRecorded ==
  LET posted == {room[i] : i \in DOMAIN room} \cup flying IN
  /\ \A l \in posted : store[l.key].ledger[l.kind].text = l.text
  /\ \A l, m \in posted : l.key = m.key
=============================================================================
