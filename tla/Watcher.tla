------------------------------ MODULE Watcher ------------------------------
(***************************************************************************)
(* Sweeps of the watcher (sweepOnce, src/watcher.ts).  A sweep reads the   *)
(* offers room, the deal rooms and the chains one after the other while    *)
(* the parties go on, folds what it read, and writes the files of its root *)
(* directory, each as a whole: board.json, swaps.jsonl, HIT, state.json.   *)
(* It may end between any two of these steps, and is then run anew by its  *)
(* scheduler; sweeps do not overlap.                                       *)
(*                                                                         *)
(* A key names a pair, or a leg A without one.  The keys of state files of *)
(* earlier versions, and the archive of raw answers, are left out.         *)
(***************************************************************************)
EXTENDS Board

CONSTANTS MaxSweeps, MaxWatcherFaults

ASSUME WatcherAssumption == MaxSweeps \in Nat /\ MaxWatcherFaults \in Nat

VARIABLES
  step,      \* the next step of the sweep
  view,      \* what it has read so far
  board,     \* board.json: the status of a key
  published, \* swaps.jsonl, as the set of the keys and statuses in it
  lost,      \* the lines it once had and has no more; no step reads this
  hit,       \* HIT exists
  saved,     \* state.json: keys with their statuses, and hitCreated
  complete,  \* the boards of the sweeps that ended well
  sweeps, watcherFaults

files == <<board, published, lost, hit, saved, complete>>
watcherVars == <<step, view, files, sweeps, watcherFaults>>

NoView == [offers |-> <<>>]
Entry(key, status) == [key |-> key, status |-> status]

\* The files, in the order they are written.  The mutant has state.json before
\* swaps.jsonl.
StateFirst == [board |-> "compare", compare |-> "state", state |-> "lines", lines |-> "HIT", HIT |-> "idle"]
After == [board |-> "compare", compare |-> "lines", lines |-> "HIT", HIT |-> "state", state |-> "idle"]

Step(from, to) == step = from /\ step' = to
Fault == watcherFaults < MaxWatcherFaults /\ watcherFaults' = watcherFaults + 1

-----------------------------------------------------------------------------
(* Reading *)

ReadOffers ==
  /\ sweeps < MaxSweeps
  /\ sweeps' = sweeps + 1
  /\ Step("idle", "room A")
  /\ view' = [offers |-> offers, now |-> clock,
              deals |-> [l \in Legs |-> Opened], fetched |-> {},
              evidence |-> [l \in Legs |-> NoEvidence]]
  /\ UNCHANGED <<files, watcherFaults>>

ContractOfLeg(leg) == ContractOf(SwapLines[IF leg = "A" THEN 2 ELSE 4])

\* findSwapLegCandidates: every accept of a swap offer makes a contract, and a
\* deal room.
Candidate(leg) ==
  LET offer == IF leg = "A" THEN "A" ELSE "B" IN
  ContractOfLeg(leg) \in {ContractOf(view.offers[i]) : i \in Accepts(view.offers, offer)}

RoomStep(leg) == IF leg = "A" THEN "room A" ELSE "room B"
ChainStep(leg) == IF leg = "A" THEN "chain A" ELSE "chain B"

\* A room that cannot be read counts as empty, and its leg is not looked up.
ReadRoom(leg) ==
  /\ Step(RoomStep(leg), IF leg = "A" THEN "room B" ELSE "chain A")
  /\ \/ /\ Candidate(leg)
        /\ view' = [view EXCEPT !.deals[leg] = deals[leg], !.fetched = @ \cup {leg}]
        /\ UNCHANGED watcherFaults
     \/ ~Candidate(leg) /\ UNCHANGED <<view, watcherFaults>>
     \/ Candidate(leg) /\ Fault /\ UNCHANGED view
  /\ UNCHANGED <<files, sweeps>>

\* The leg is captured by the reference of the lock frame that was accepted;
\* a failed capture is no evidence.
Accepted(leg) == leg \in view.fetched /\ view.deals[leg].ref = "agreed"

Capture(leg) ==
  /\ Step(ChainStep(leg), IF leg = "A" THEN "chain B" ELSE "board")
  /\ \/ /\ Accepted(leg)
        /\ view' = [view EXCEPT !.evidence[leg] = Evidence(leg)]
        /\ UNCHANGED watcherFaults
     \/ ~Accepted(leg) /\ UNCHANGED <<view, watcherFaults>>
     \/ Accepted(leg) /\ Fault /\ UNCHANGED view
  /\ UNCHANGED <<files, sweeps>>

-----------------------------------------------------------------------------
(* Folding and writing *)

DealOf(leg, contract) ==
  IF contract = <<>> THEN Proposed
  ELSE IF contract = ContractOfLeg(leg) THEN view.deals[leg] ELSE Opened

EvidenceOf(leg, contract) ==
  IF contract = ContractOfLeg(leg) THEN Bound(DealOf(leg, contract), view.evidence[leg]) ELSE NoEvidence

\* foldCaptured and buildBoard.
Folded ==
  LET pair == Pairing(view.offers) IN
  Entry(KeyOf(pair),
        FoldSwap(pair, DealOf("A", pair.a), DealOf("B", pair.b),
                 EvidenceOf("A", pair.a), EvidenceOf("B", pair.b), view.now))

\* Without an offer of a leg A the board is empty.
WriteBoard ==
  /\ Step("board", After["board"])
  /\ board' = IF OfferOf(view.offers, "A") = {} THEN {} ELSE {Folded}
  /\ UNCHANGED <<view, published, lost, hit, saved, complete, sweeps, watcherFaults>>

NothingSaved == [statuses |-> {}, hitCreated |-> FALSE]

\* state.json is read, and the entries that changed are found.  A file that
\* cannot be read is taken for an empty one.
CompareState ==
  /\ Step("compare", After["compare"])
  /\ \E state \in {saved, NothingSaved} :
       /\ view' = [known |-> state.statuses, new |-> board \ state.statuses,
                   hitCreated |-> state.hitCreated]
       /\ IF state = saved THEN UNCHANGED watcherFaults ELSE Fault
  /\ UNCHANGED <<files, sweeps>>

\* So is swaps.jsonl, which is written again as a whole: when the read fails,
\* with the new lines alone.
AppendLines ==
  /\ Step("lines", After["lines"])
  /\ \/ published' = published \cup view.new /\ UNCHANGED watcherFaults
     \/ view.new # {} /\ published' = view.new /\ Fault
  /\ lost' = (lost \cup published) \ published'
  /\ UNCHANGED <<view, board, hit, saved, complete, sweeps>>

MakeHit ==
  LET reached == \E e \in board : e.status \in PairedOrLater
      makes == reached /\ ~view.hitCreated /\ ~hit IN
  /\ Step("HIT", After["HIT"])
  /\ hit' = (hit \/ makes)
  /\ view' = [view EXCEPT !.hitCreated = @ \/ makes]
  /\ UNCHANGED <<board, published, lost, saved, complete, sweeps, watcherFaults>>

\* The entries that did not change are kept.
SaveState ==
  /\ Step("state", After["state"])
  /\ saved' = [statuses |-> {e \in view.known : \A n \in view.new : n.key # e.key} \cup view.new,
               hitCreated |-> view.hitCreated]
  /\ complete' = complete \cup board
  /\ UNCHANGED <<view, board, published, lost, hit, sweeps, watcherFaults>>

\* The offers room cannot be read, a file cannot be written, or the process
\* ends.
SweepEnds ==
  /\ step # "idle" /\ Fault
  /\ step' = "idle" /\ view' = NoView
  /\ UNCHANGED <<files, sweeps>>

WatcherInit ==
  /\ step = "idle" /\ view = NoView
  /\ board = {} /\ published = {} /\ lost = {} /\ hit = FALSE
  /\ saved = NothingSaved
  /\ complete = {}
  /\ sweeps = 0 /\ watcherFaults = 0

Sweep ==
  \/ ReadOffers
  \/ \E leg \in Legs : ReadRoom(leg) \/ Capture(leg)
  \/ WriteBoard \/ CompareState \/ AppendLines \/ MakeHit \/ SaveState
  \/ SweepEnds
=============================================================================
