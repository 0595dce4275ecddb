---------------------------- MODULE FlowJournal ----------------------------
(***************************************************************************)
(* The Seller's journals (FlowJournal, src/client/flow-resume.ts) on one   *)
(* store, which compares before it swaps.  A flow object begins a record   *)
(* of its own, or resumes a stored one; several may be on one record, in   *)
(* one process or in many.  A line is posted after its text is saved, and  *)
(* marked with its place in the room after it landed.  Posts of different  *)
(* kinds and other saves of a flow overlap.                                *)
(*                                                                         *)
(* Each kind of line has a room of its own.  The text of an accept is that *)
(* of its record (the hash of its secret); any other line may be built     *)
(* anew, and differently, by a flow that was resumed.                      *)
(***************************************************************************)
EXTENDS Integers, Sequences, FiniteSets

CONSTANTS
  Flows,      \* flow objects; also the keys (and texts) of what they mint
  None,
  MaxSaves,   \* saves of a record
  MaxPosts,   \* posts in all
  MaxJournalFaults

ASSUME JournalAssumption ==
  /\ None \notin Flows
  /\ MaxSaves \in Nat /\ MaxPosts \in Nat /\ MaxJournalFaults \in Nat

VARIABLES
  store,      \* the records, by key
  room,       \* the lines that landed, in their order
  flying,     \* lines whose post timed out and that may still land
  beginning,  \* how far a flow's begin is
  key, cur,   \* the record a flow is on, and what of it it last saved
  failed,     \* a save of it was refused
  ops,        \* its posts, by kind
  journalFaults

journalVars == <<store, room, flying, beginning, key, cur, failed, ops, journalFaults>>

Kinds == {"accept", "lock"}
NoEntry == [text |-> None, landed |-> 0]
\* version stands for the bytes of a record, as their digest does.
NoRecord == [version |-> 0, ledger |-> [k \in Kinds |-> NoEntry]]
Idle == [at |-> "idle", text |-> None, isNew |-> FALSE, seq |-> 0, ensure |-> FALSE]

Recorded(f, k) == cur[f].ledger[k]
Usable(f) == key[f] # None /\ ~failed[f]
Go(f, k, op) == ops' = [ops EXCEPT ![f][k] = op]
JournalFault == journalFaults < MaxJournalFaults /\ journalFaults' = journalFaults + 1
NoFault == UNCHANGED journalFaults

\* A party never posts a second, different frame.  Mutant: a new text replaces
\* the one that was recorded.
NeverConflicts(entry, text) == FALSE
Conflicts(entry, text) == entry.text \notin {None, text}

withLedgerIntent(ledger, k, text) ==
  IF ledger[k].text = text THEN ledger ELSE [ledger EXCEPT ![k] = [text |-> text, landed |-> 0]]

-----------------------------------------------------------------------------
(* Saves *)

\* commit: the record goes to the store if it is still the one this flow saved
\* last.  A refused save fails the flow; one that throws may have been made.
Saved(f, ledger) ==
  LET next == [version |-> cur[f].version + 1, ledger |-> ledger] IN
  /\ cur[f].version < MaxSaves
  /\ store[key[f]] = cur[f]
  /\ store' = [store EXCEPT ![key[f]] = next]
  /\ cur' = [cur EXCEPT ![f] = next]
  /\ NoFault /\ UNCHANGED failed

Refused(f, ledger) ==
  /\ failed' = [failed EXCEPT ![f] = TRUE]
  /\ UNCHANGED cur
  /\ \/ store[key[f]] # cur[f] /\ NoFault /\ UNCHANGED store
     \/ /\ JournalFault
        /\ store' \in {store, [store EXCEPT ![key[f]] = [version |-> cur[f].version + 1, ledger |-> ledger]]}
        /\ store[key[f]] # cur[f] => UNCHANGED store

\* Whatever else the flow records.
Update(f) ==
  /\ Usable(f)
  /\ Saved(f, cur[f].ledger) \/ Refused(f, cur[f].ledger)
  /\ UNCHANGED <<room, flying, beginning, key, ops>>

-----------------------------------------------------------------------------
(* Begin and resume *)

\* beginSeller: one at a time on a store, from the scan to the first save.
\* Mutant: the section is left out.
NoSection == TRUE
SectionIsFree == \A f \in Flows : beginning[f] = "no"

EnterBegin(f) ==
  /\ key[f] = None /\ SectionIsFree
  /\ beginning[f] = "no" /\ beginning' = [beginning EXCEPT ![f] = "scan"]
  /\ UNCHANGED <<store, room, flying, key, cur, failed, ops, journalFaults>>

\* findStoredSellerOffer; a record for the offer refuses the accept.
Scan(f) ==
  /\ beginning[f] = "scan"
  /\ beginning' = [beginning EXCEPT ![f] = IF \E k \in Flows : store[k] # NoRecord THEN "no" ELSE "mint"]
  /\ UNCHANGED <<store, room, flying, key, cur, failed, ops, journalFaults>>

\* The secret is minted, and the record is created under its own new key; a
\* create that throws may have been made.
Begin(f) ==
  /\ beginning[f] = "mint" /\ beginning' = [beginning EXCEPT ![f] = "no"]
  /\ LET first == [version |-> 1, ledger |-> withLedgerIntent(NoRecord.ledger, "accept", f)] IN
     \/ /\ store' = [store EXCEPT ![f] = first]
        /\ key' = [key EXCEPT ![f] = f]
        /\ cur' = [cur EXCEPT ![f] = first]
        /\ NoFault
     \/ /\ store' \in {store, [store EXCEPT ![f] = first]}
        /\ JournalFault /\ UNCHANGED <<key, cur>>
  /\ UNCHANGED <<room, flying, failed, ops>>

\* FlowJournal.open, by a new flow object.
Open(f) ==
  /\ beginning[f] = "no"
  /\ key[f] = None
  /\ \E k \in Flows :
       /\ store[k] # NoRecord
       /\ key' = [key EXCEPT ![f] = k]
       /\ cur' = [cur EXCEPT ![f] = store[k]]
  /\ UNCHANGED <<store, room, flying, beginning, failed, ops, journalFaults>>

\* The object is dropped: its process ended, or a save of it was refused.  A
\* post that was under way may still arrive.
Drop(f) ==
  /\ key[f] # None \/ beginning[f] # "no"
  /\ IF failed[f] THEN NoFault ELSE JournalFault
  /\ key' = [key EXCEPT ![f] = None]
  /\ cur' = [cur EXCEPT ![f] = NoRecord]
  /\ failed' = [failed EXCEPT ![f] = FALSE]
  /\ ops' = [ops EXCEPT ![f] = [k \in Kinds |-> Idle]]
  /\ beginning' = [beginning EXCEPT ![f] = "no"]
  /\ UNCHANGED <<store, room, flying>>

-----------------------------------------------------------------------------
(* ensurePosted *)

LineOf(f, k, text) == [key |-> key[f], kind |-> k, text |-> text]
TextsOf(f, k) == IF k = "accept" THEN {key[f]} ELSE Flows

\* A line recorded with another text is refused, one that landed is answered
\* from the record.  What is new, and has no guard, is posted without a look
\* at the room.  A call while the kind is being posted shares that attempt.
EnsurePosted(f, k) ==
  /\ Usable(f) /\ ops[f][k] = Idle
  /\ Recorded(f, k).landed = 0
  /\ \E text \in TextsOf(f, k), guarded \in BOOLEAN :
       LET isNew == Recorded(f, k).text # text IN
       /\ ~Conflicts(Recorded(f, k), text)
       /\ Go(f, k, [Idle EXCEPT !.at = IF isNew /\ ~guarded THEN "intent" ELSE "read",
                                !.text = text, !.isNew = isNew])
  /\ UNCHANGED <<store, room, flying, beginning, key, cur, failed, journalFaults>>

\* The offers room is a short ring: a line that landed may be gone from it.
LookInRoom(f, k) ==
  LET op == ops[f][k]
      own == {i \in DOMAIN room : room[i] = LineOf(f, k, op.text)} IN
  /\ op.at = "read"
  /\ \/ \E i \in own : Go(f, k, [op EXCEPT !.at = "mark", !.seq = i, !.ensure = TRUE]) /\ NoFault
     \/ /\ IF own = {} THEN NoFault ELSE JournalFault
        /\ Go(f, k, [op EXCEPT !.at = IF op.isNew THEN "intent" ELSE "post"])
     \/ Go(f, k, Idle) /\ JournalFault
  /\ UNCHANGED <<store, room, flying, beginning, key, cur, failed>>

\* The text is saved, in the record as it is by now; meanwhile nothing but this
\* attempt writes the entry.
SaveIntent(f, k) ==
  LET op == ops[f][k]
      ledger == withLedgerIntent(cur[f].ledger, k, op.text) IN
  /\ op.at = "intent"
  /\ \/ /\ failed[f] \/ Conflicts(Recorded(f, k), op.text)
        /\ Go(f, k, Idle)
        /\ UNCHANGED <<store, cur, failed, journalFaults>>
     \/ /\ ~failed[f] /\ ~Conflicts(Recorded(f, k), op.text)
        /\ \/ Saved(f, ledger) /\ Go(f, k, [op EXCEPT !.at = "post"])
           \/ Refused(f, ledger) /\ Go(f, k, Idle)
  /\ UNCHANGED <<room, flying, beginning, key>>

\* A post that is not answered has landed, will land, or is lost.
PostLine(f, k) ==
  LET op == ops[f][k]
      line == LineOf(f, k, op.text) IN
  /\ op.at = "post"
  /\ \/ /\ failed[f]
        /\ Go(f, k, Idle) /\ UNCHANGED <<room, flying, journalFaults>>
     \/ /\ ~failed[f] /\ Len(room) + Cardinality(flying) < MaxPosts
        /\ \/ /\ room' = Append(room, line)
              /\ \/ Go(f, k, [op EXCEPT !.at = "mark", !.seq = Len(room) + 1]) /\ NoFault
                 \/ Go(f, k, Idle) /\ JournalFault
              /\ UNCHANGED flying
           \/ /\ flying' = flying \cup {line}
              /\ Go(f, k, Idle) /\ JournalFault
              /\ UNCHANGED room
  /\ UNCHANGED <<store, beginning, key, cur, failed>>

Arrive ==
  /\ \E line \in flying : room' = Append(room, line) /\ flying' = flying \ {line}
  /\ UNCHANGED <<store, beginning, key, cur, failed, ops, journalFaults>>

\* markLanded: a mark is never replaced by another place in the room.
MarkLanded(f, k) ==
  LET op == ops[f][k]
      from == IF op.ensure THEN withLedgerIntent(cur[f].ledger, k, op.text) ELSE cur[f].ledger
      ledger == [from EXCEPT ![k].landed = op.seq] IN
  /\ op.at = "mark"
  /\ Go(f, k, Idle)
  /\ IF \/ failed[f]
        \/ op.ensure /\ Conflicts(Recorded(f, k), op.text)
        \/ from[k].landed # 0
     THEN UNCHANGED <<store, cur, failed, journalFaults>>
     ELSE Saved(f, ledger) \/ Refused(f, ledger)
  /\ UNCHANGED <<room, flying, beginning, key>>

\* adopt: the flow found a line of its own in the room by itself.
Adopt(f) ==
  /\ Usable(f) /\ ops[f]["lock"] = Idle
  /\ \E i \in DOMAIN room :
       /\ room[i].key = key[f] /\ room[i].kind = "lock"
       /\ Go(f, "lock", [Idle EXCEPT !.at = "mark", !.text = room[i].text, !.seq = i, !.ensure = TRUE])
  /\ UNCHANGED <<store, room, flying, beginning, key, cur, failed, journalFaults>>

JournalInit ==
  /\ store = [k \in Flows |-> NoRecord]
  /\ room = <<>> /\ flying = {} /\ beginning = [f \in Flows |-> "no"]
  /\ key = [f \in Flows |-> None]
  /\ cur = [f \in Flows |-> NoRecord]
  /\ failed = [f \in Flows |-> FALSE]
  /\ ops = [f \in Flows |-> [k \in Kinds |-> Idle]]
  /\ journalFaults = 0

Journal ==
  \/ \E f \in Flows :
       \/ Update(f) \/ EnterBegin(f) \/ Scan(f) \/ Begin(f) \/ Open(f) \/ Drop(f) \/ Adopt(f)
       \/ \E k \in Kinds :
            EnsurePosted(f, k) \/ LookInRoom(f, k) \/ SaveIntent(f, k) \/ PostLine(f, k) \/ MarkLanded(f, k)
  \/ Arrive
=============================================================================
