---------------------------- MODULE RoomsProofs -----------------------------
(***************************************************************************)
(* The rooms, the journals of the flows that post in them, and the watcher *)
(* that reads them and the chains: a line that is posted is on record, the *)
(* files of the watcher tell what its state says was told, the board says  *)
(* what is so, and a stranger's line does not change the pair. All of it   *)
(* holds for any number of flows, lines and sweeps.                        *)
(***************************************************************************)
EXTENDS MCRooms, SumTheorems, SequenceTheorems, TLAPS

-----------------------------------------------------------------------------
(* The journals *)

\* What the files of a flow hold. A key and a text are flows' own.
Texts == Flows \cup {None}
LedgerEntry == [text : Texts, landed : Nat]
Ledger == [Kinds -> LedgerEntry]
Record == [version : Nat, ledger : Ledger]
Line == [key : Flows, kind : Kinds, text : Flows]
Operation ==
  [at : {"idle", "read", "intent", "post", "mark"}, text : Texts, isNew : BOOLEAN,
   seq : Nat, ensure : BOOLEAN]

\* The type of the journals' variables (flow-resume.ts, flow-store.ts).
JournalTypeOK ==
  /\ store \in [Flows -> Record]
  /\ room \in Seq(Line) /\ flying \in SUBSET Line
  /\ beginning \in [Flows -> {"no", "scan", "mint"}]
  /\ key \in [Flows -> Texts]
  /\ cur \in [Flows -> Record]
  /\ failed \in [Flows -> BOOLEAN]
  /\ ops \in [Flows -> [Kinds -> Operation]]

\* What a record has a text for, its successors have the same text for.
Grows(older, newer) == \A k \in Kinds : older.ledger[k].text \in {None, newer.ledger[k].text}

\* There is one record at most.  A flow's copy of it is an earlier version.
StoreInv ==
  /\ \A k, l \in Flows : store[k] # NoRecord /\ store[l] # NoRecord => k = l
  /\ \A f \in Flows : key[f] # None => store[key[f]] # NoRecord /\ Grows(cur[f], store[key[f]])

\* A text is in the flow's own copy before it is posted.
OpsInv ==
  \A f \in Flows, k \in Kinds :
    LET op == ops[f][k] IN
    /\ op.at # "idle" => key[f] # None /\ op.text # None
    /\ op.at = "post" \/ (op.at = "read" /\ ~op.isNew) => cur[f].ledger[k].text = op.text

\* A line in the room, or on its way to it, is one the record of its key has.
PostedInv ==
  \A l \in {room[i] : i \in DOMAIN room} \cup flying : store[l.key].ledger[l.kind].text = l.text

\* One flow at a time looks for a record and creates its own, and what it has
\* not found is still not there.
BeginInv ==
  /\ \A f, g \in Flows : beginning[f] # "no" /\ beginning[g] # "no" => f = g
  /\ \A f, k \in Flows : beginning[f] = "mint" => store[k] = NoRecord

\* The inductive invariant of the journals.
JournalInv == JournalTypeOK /\ StoreInv /\ BeginInv /\ OpsInv /\ PostedInv

\* The lines in the room and on their way have the type of a line.
LEMMA LinesTyped ==
  ASSUME JournalTypeOK
  PROVE  \A l \in {room[i] : i \in DOMAIN room} \cup flying : l \in Line
<1>1. \A i \in DOMAIN room : room[i] \in Line
  BY DEF JournalTypeOK
<1>2. flying \subseteq Line
  BY DEF JournalTypeOK
<1> QED
  BY <1>1, <1>2

\* A room with one line more.
LEMMA AppendLine ==
  ASSUME NEW lines \in Seq(Line), NEW line \in Line
  PROVE  /\ Append(lines, line) \in Seq(Line)
         /\ \A i \in DOMAIN Append(lines, line) :
              (i \in DOMAIN lines /\ Append(lines, line)[i] = lines[i]) \/ Append(lines, line)[i] = line
OBVIOUS

\* An operation whose line is in the room goes on to note where it landed.
LEMMA OpMarks ==
  ASSUME NEW op \in Operation, NEW seq \in Nat
  PROVE  LET marks == [op EXCEPT !.at = "mark", !.seq = seq, !.ensure = TRUE]
             landed == [op EXCEPT !.at = "mark", !.seq = seq] IN
         /\ marks \in Operation /\ marks.at = "mark" /\ marks.text = op.text
         /\ landed \in Operation /\ landed.text = op.text /\ landed.at = "mark"
BY DEF Operation

\* An operation that is decided goes on to save its text, or to post it.
LEMMA OpMoves ==
  ASSUME NEW op \in Operation
  PROVE  LET posts == [op EXCEPT !.at = IF op.isNew THEN "intent" ELSE "post"]
             posting == [op EXCEPT !.at = "post"] IN
         /\ posts \in Operation /\ posts.text = op.text
         /\ posts.at = IF op.isNew THEN "intent" ELSE "post"
         /\ posting \in Operation /\ posting.text = op.text /\ posting.at = "post"
BY DEF Operation

\* A text that is noted takes the place of none.
LEMMA IntentGrows ==
  ASSUME NEW ledger \in Ledger, NEW k \in Kinds, NEW text \in Flows,
         ~Conflicts(ledger[k], text)
  PROVE  /\ withLedgerIntent(ledger, k, text) \in Ledger
         /\ withLedgerIntent(ledger, k, text)[k].text = text
         /\ \A j \in Kinds : ledger[j].text \in {None, withLedgerIntent(ledger, k, text)[j].text}
BY DEF withLedgerIntent, Conflicts, Ledger, LedgerEntry, Texts

\* What a save of flow f does to the store and to the flow's copy.
SaveOf(f, ledger) ==
  /\ \A k \in Flows :
       \/ store'[k] = store[k]
       \/ k = key[f] /\ store[k] = cur[f] /\ store'[k].version > 0 /\ store'[k].ledger = ledger
  /\ cur' = cur \/ (cur' = [cur EXCEPT ![f] = store'[key[f]]] /\ store'[key[f]].ledger = ledger)
  /\ store' \in [Flows -> Record] /\ cur' \in [Flows -> Record] /\ failed' \in [Flows -> BOOLEAN]

\* A save that succeeds and one that is refused both leave the record as it was
\* or one version newer.
LEMMA SavesSo ==
  ASSUME JournalTypeOK, NEW f \in Flows, key[f] # None, NEW ledger \in Ledger,
         Saved(f, ledger) \/ Refused(f, ledger)
  PROVE  SaveOf(f, ledger)
<1> DEFINE next == [version |-> cur[f].version + 1, ledger |-> ledger]
<1>1. next \in Record /\ next.version > 0 /\ next.ledger = ledger /\ key[f] \in Flows
  BY DEF JournalTypeOK, Record, Texts
<1> HIDE DEF next
<1>2. CASE Saved(f, ledger)
  <2>1. /\ store[key[f]] = cur[f] /\ store' = [store EXCEPT ![key[f]] = next]
        /\ cur' = [cur EXCEPT ![f] = next] /\ failed' = failed
    BY <1>2 DEF Saved, next
  <2> QED
    BY <1>1, <2>1 DEF SaveOf, JournalTypeOK
<1>3. CASE Refused(f, ledger)
  <2>1. /\ cur' = cur /\ failed' = [failed EXCEPT ![f] = TRUE]
        /\ store' = store \/ (store[key[f]] = cur[f] /\ store' = [store EXCEPT ![key[f]] = next])
    BY <1>3 DEF Refused, next
  <2> QED
    BY <1>1, <2>1 DEF SaveOf, JournalTypeOK
<1> QED
  BY <1>2, <1>3

\* A save never takes away a text, of its own record or of the copies of
\* others.
LEMMA SaveKeepsRecords ==
  ASSUME JournalInv, NEW f \in Flows, key[f] # None, NEW ledger \in Ledger,
         SaveOf(f, ledger), UNCHANGED <<room, flying, key>>,
         \A k \in Kinds : cur[f].ledger[k].text \in {None, ledger[k].text}
  PROVE  /\ StoreInv' /\ PostedInv'
         /\ \A k \in Flows : store'[k] # NoRecord => store[k] # NoRecord
         /\ \A g \in Flows, k \in Kinds : cur[g].ledger[k].text \in {None, cur'[g].ledger[k].text}
<1> USE DEF JournalInv, JournalTypeOK
<1>1. key[f] \in Flows
  BY DEF Texts
<1>2. \A k \in Flows : Grows(store[k], store'[k])
  BY DEF SaveOf, Grows
<1>3. \A k \in Flows : store'[k] # NoRecord => store[k] # NoRecord
  BY DEF SaveOf, StoreInv
<1>4. \A k \in Flows : store[k] # NoRecord => store'[k] # NoRecord
  BY DEF SaveOf, NoRecord
<1>5. \A g \in Flows : g # f => cur'[g] = cur[g]
  BY DEF SaveOf
<1>6. cur'[f] = cur[f] \/ (cur'[f] = store'[key[f]] /\ store'[key[f]].ledger = ledger)
  BY DEF SaveOf
<1>7. \A g \in Flows, k \in Kinds : cur[g].ledger[k].text \in {None, cur'[g].ledger[k].text}
  BY <1>5, <1>6
<1>8. StoreInv'
  <2>1. ASSUME NEW g \in Flows, key[g] # None
        PROVE  store'[key[g]] # NoRecord /\ Grows(cur'[g], store'[key[g]])
    <3>1. key[g] \in Flows /\ store[key[g]] # NoRecord /\ Grows(cur[g], store[key[g]])
      BY <2>1 DEF StoreInv, Texts
    <3>2. Grows(cur[g], store'[key[g]])
      BY <1>2, <3>1 DEF Grows
    <3> QED
      BY <1>4, <1>5, <1>6, <3>1, <3>2 DEF Grows
  <2> QED
    BY <1>3, <2>1 DEF StoreInv
<1>9. PostedInv'
  <2>1. ASSUME NEW l \in {room[i] : i \in DOMAIN room} \cup flying
        PROVE  store'[l.key].ledger[l.kind].text = l.text
    <3>1. l \in Line /\ l.text # None
      <4>1. l \in Line
        BY LinesTyped
      <4> QED
        BY <4>1, JournalAssumption DEF Line
    <3>2. store[l.key].ledger[l.kind].text = l.text
      BY DEF PostedInv
    <3> QED
      BY <1>2, <3>1, <3>2 DEF Grows, Line
  <2> QED
    BY <2>1 DEF PostedInv
<1> QED
  BY <1>3, <1>7, <1>8, <1>9

\* A step of flow f that saves nothing and posts nothing.
LEMMA OpKeepsJournal ==
  ASSUME JournalInv, NEW f \in Flows, NEW k \in Kinds, NEW op \in Operation,
         UNCHANGED <<store, room, flying, beginning, key, cur, failed>>,
         ops' = [ops EXCEPT ![f][k] = op],
         op.at # "idle" => key[f] # None /\ op.text # None,
         op.at = "post" \/ (op.at = "read" /\ ~op.isNew) => cur[f].ledger[k].text = op.text
  PROVE  JournalInv'
<1> USE DEF JournalInv, JournalTypeOK
<1>1. ops' \in [Flows -> [Kinds -> Operation]] /\ ops'[f][k] = op
  OBVIOUS
<1>2. \A g \in Flows, j \in Kinds : ops'[g][j] = ops[g][j] \/ (g = f /\ j = k)
  OBVIOUS
<1>3. OpsInv'
  BY <1>1, <1>2 DEF OpsInv
<1> QED
  BY <1>1, <1>3 DEF StoreInv, BeginInv, PostedInv

\* No operation has the type of one.
LEMMA IdleTyped == Idle \in Operation
BY DEF Idle, Operation, Texts

\* A save of flow f whose operation k is over, or goes on to post what it saved.
LEMMA SaveKeepsJournal ==
  ASSUME JournalInv, NEW f \in Flows, key[f] # None, NEW ledger \in Ledger,
         SaveOf(f, ledger), UNCHANGED <<room, flying, beginning, key>>,
         \A j \in Kinds : cur[f].ledger[j].text \in {None, ledger[j].text},
         NEW k \in Kinds, NEW op \in Operation,
         ops' = ops \/ ops' = [ops EXCEPT ![f][k] = op],
         op = Idle \/ (op.at = "post" /\ op.text # None /\ cur'[f].ledger[k].text = op.text)
  PROVE  JournalInv'
<1> USE DEF JournalInv
<1>1. /\ StoreInv' /\ PostedInv'
      /\ \A j \in Flows : store'[j] # NoRecord => store[j] # NoRecord
      /\ \A g \in Flows, j \in Kinds : cur[g].ledger[j].text \in {None, cur'[g].ledger[j].text}
  BY SaveKeepsRecords
<1>2. ops' \in [Flows -> [Kinds -> Operation]]
  <2>1. ops \in [Flows -> [Kinds -> Operation]]
    BY DEF JournalTypeOK
  <2>2. CASE ops' = [ops EXCEPT ![f][k] = op]
    BY <2>1, <2>2
  <2> QED
    BY <2>1, <2>2
<1>3. JournalTypeOK'
  BY <1>2 DEF JournalTypeOK, SaveOf
<1>4. ASSUME NEW g \in Flows, NEW j \in Kinds, ops'[g][j] = ops[g][j]
      PROVE  /\ ops'[g][j].at # "idle" => key'[g] # None /\ ops'[g][j].text # None
             /\ ops'[g][j].at = "post" \/ (ops'[g][j].at = "read" /\ ~ops'[g][j].isNew)
                  => cur'[g].ledger[j].text = ops'[g][j].text
  <2>1. /\ ops[g][j].at # "idle" => key[g] # None /\ ops[g][j].text # None
        /\ ops[g][j].at = "post" \/ (ops[g][j].at = "read" /\ ~ops[g][j].isNew)
             => cur[g].ledger[j].text = ops[g][j].text
    BY DEF OpsInv
  <2>2. ops[g][j].at = "post" \/ ops[g][j].at = "read" => ops[g][j].at # "idle"
    OBVIOUS
  <2>3. cur[g].ledger[j].text \in {None, cur'[g].ledger[j].text}
    BY <1>1
  <2> QED
    BY <1>4, <2>1, <2>2, <2>3
<1>5. \A g \in Flows, j \in Kinds : ops'[g][j] = ops[g][j] \/ (g = f /\ j = k /\ ops'[g][j] = op)
  BY DEF JournalTypeOK
<1>6. OpsInv'
  BY <1>4, <1>5 DEF OpsInv, Idle
<1>7. BeginInv'
  BY <1>1 DEF BeginInv
<1> QED
  BY <1>1, <1>3, <1>6, <1>7

\* A line that is posted is one the record has.
LEMMA PostKeepsJournal ==
  ASSUME JournalInv, NEW f \in Flows, NEW k \in Kinds, ops[f][k].at = "post",
         UNCHANGED <<store, beginning, key, cur, failed>>,
         NEW op \in Operation, ops' = [ops EXCEPT ![f][k] = op],
         op = Idle \/ (op.at = "mark" /\ op.text = ops[f][k].text),
         \/ room' = Append(room, LineOf(f, k, ops[f][k].text)) /\ UNCHANGED flying
         \/ flying' = flying \cup {LineOf(f, k, ops[f][k].text)} /\ UNCHANGED room
  PROVE  JournalInv'
<1> USE DEF JournalInv, JournalTypeOK
<1> DEFINE line == LineOf(f, k, ops[f][k].text)
<1>1. /\ key[f] \in Flows /\ ops[f][k].text \in Flows
      /\ cur[f].ledger[k].text = ops[f][k].text
  BY DEF OpsInv, Texts, Operation
<1>2. line \in Line /\ line.key = key[f] /\ line.kind = k /\ line.text = ops[f][k].text
  BY <1>1 DEF LineOf, Line
<1>3. store[line.key].ledger[line.kind].text = line.text
  BY <1>1, <1>2, JournalAssumption DEF StoreInv, Grows
<1>a. \/ room' = Append(room, line) /\ UNCHANGED flying
      \/ flying' = flying \cup {line} /\ UNCHANGED room
  OBVIOUS
<1> HIDE DEF line
<1>4. room' \in Seq(Line) /\ flying' \in SUBSET Line
  <2>1. CASE room' = Append(room, line) /\ UNCHANGED flying
    BY <1>2, <2>1, AppendLine
  <2>2. CASE flying' = flying \cup {line} /\ UNCHANGED room
    BY <1>2, <2>2
  <2> QED
    BY <1>a, <2>1, <2>2
<1>5. \A l \in {room'[i] : i \in DOMAIN room'} \cup flying' :
        l \in {room[i] : i \in DOMAIN room} \cup flying \/ l = line
  <2>1. CASE room' = Append(room, line) /\ UNCHANGED flying
    <3>1. \A i \in DOMAIN room' : (i \in DOMAIN room /\ room'[i] = room[i]) \/ room'[i] = line
      BY <2>1, <1>2, AppendLine
    <3> QED
      BY <2>1, <3>1
  <2> QED
    BY <2>1, <1>a
<1>6. PostedInv'
  BY <1>3, <1>5 DEF PostedInv
<1>7. ops' \in [Flows -> [Kinds -> Operation]]
  OBVIOUS
<1>8. \A g \in Flows, j \in Kinds : ops'[g][j] = ops[g][j] \/ (g = f /\ j = k /\ ops'[g][j] = op)
  OBVIOUS
<1>9. OpsInv'
  <2>1. op.at # "idle" => key[f] # None /\ op.text # None
    BY <1>1, JournalAssumption DEF Idle
  <2>2. op.at \notin {"post", "read"}
    BY DEF Idle
  <2> QED
    BY <1>8, <2>1, <2>2 DEF OpsInv
<1> QED
  BY <1>4, <1>6, <1>7, <1>9 DEF StoreInv, BeginInv

\* Every step of the journals keeps the invariant: openings, crashes, reads,
\* saves, posts and lines that arrive late.
LEMMA JournalNext ==
  ASSUME JournalInv, Journal
  PROVE  JournalInv'
<1> USE DEF JournalInv
<1>1. ASSUME NEW f \in Flows, Update(f) PROVE JournalInv'
  <2>1. key[f] # None /\ cur[f].ledger \in Ledger /\ "accept" \in Kinds
    BY <1>1 DEF Update, Usable, JournalTypeOK, Record, Kinds
  <2>2. SaveOf(f, cur[f].ledger)
    BY <1>1, <2>1, SavesSo DEF Update
  <2> QED
    BY <1>1, <2>1, <2>2, IdleTyped, SaveKeepsJournal DEF Update
<1>2. ASSUME NEW f \in Flows, EnterBegin(f) \/ Scan(f) PROVE JournalInv'
  <2>1. UNCHANGED <<store, room, flying, key, cur, failed, ops>>
    BY <1>2 DEF EnterBegin, Scan
  <2>2. PICK b \in {"no", "scan", "mint"} : beginning' = [beginning EXCEPT ![f] = b]
    BY <1>2 DEF EnterBegin, Scan
  <2>3. b = "mint" => \A k \in Flows : store[k] = NoRecord
    BY <1>2, <2>2 DEF EnterBegin, Scan, JournalTypeOK
  <2>4. \A g \in Flows : g # f => beginning[g] = "no"
    BY <1>2 DEF EnterBegin, SectionIsFree, Scan, BeginInv
  <2>5. BeginInv'
    BY <2>1, <2>2, <2>3, <2>4 DEF BeginInv, JournalTypeOK
  <2> QED
    BY <2>1, <2>2, <2>5 DEF JournalTypeOK, StoreInv, OpsInv, PostedInv
<1>3. ASSUME NEW f \in Flows, Begin(f) PROVE JournalInv'
  <2> DEFINE first == [version |-> 1, ledger |-> withLedgerIntent(NoRecord.ledger, "accept", f)]
  <2>1. first \in Record /\ first # NoRecord
    BY JournalAssumption DEF withLedgerIntent, NoRecord, NoEntry, Record, Ledger, LedgerEntry, Texts, Kinds
  <2>2. /\ \A k \in Flows : store[k] = NoRecord
        /\ UNCHANGED <<room, flying, failed, ops>>
        /\ beginning[f] # "no" /\ beginning' = [beginning EXCEPT ![f] = "no"]
        /\ \/ /\ store' = [store EXCEPT ![f] = first]
              /\ key' = [key EXCEPT ![f] = f] /\ cur' = [cur EXCEPT ![f] = first]
           \/ store' \in {store, [store EXCEPT ![f] = first]} /\ UNCHANGED <<key, cur>>
    BY <1>3 DEF Begin, BeginInv
  <2> HIDE DEF first
  <2>3. \A g \in Flows : key[g] = None
    BY <2>2 DEF StoreInv, JournalTypeOK, Texts
  <2>4. JournalTypeOK'
    BY <2>1, <2>2 DEF JournalTypeOK, Texts
  <2>5. StoreInv'
    BY <2>1, <2>2, <2>3, SMTT(30) DEF StoreInv, JournalTypeOK, Grows
  <2>6. OpsInv'
    BY <2>2, <2>3, JournalAssumption DEF OpsInv, JournalTypeOK
  <2>7. \A l \in {room[i] : i \in DOMAIN room} \cup flying : FALSE
    BY <2>2, LinesTyped, JournalAssumption DEF PostedInv, NoRecord, NoEntry, Line
  <2>8. BeginInv'
    BY <2>2 DEF BeginInv, JournalTypeOK
  <2> QED
    BY <2>2, <2>4, <2>5, <2>6, <2>7, <2>8 DEF PostedInv
<1>4. ASSUME NEW f \in Flows, Open(f) PROVE JournalInv'
  <2>1. PICK k \in Flows : /\ store[k] # NoRecord /\ key' = [key EXCEPT ![f] = k]
                           /\ cur' = [cur EXCEPT ![f] = store[k]]
    BY <1>4 DEF Open
  <2>2. UNCHANGED <<store, room, flying, beginning, failed, ops>> /\ key[f] = None
    BY <1>4 DEF Open
  <2>3. JournalTypeOK'
    BY <2>1, <2>2 DEF JournalTypeOK, Texts
  <2>4. StoreInv'
    BY <2>1, <2>2 DEF StoreInv, JournalTypeOK, Grows
  <2>5. OpsInv'
    BY <2>1, <2>2 DEF OpsInv, JournalTypeOK
  <2> QED
    BY <2>2, <2>3, <2>4, <2>5 DEF PostedInv, BeginInv
<1>5. ASSUME NEW f \in Flows, Drop(f) PROVE JournalInv'
  <2>1. /\ key' = [key EXCEPT ![f] = None] /\ cur' = [cur EXCEPT ![f] = NoRecord]
        /\ ops' = [ops EXCEPT ![f] = [k \in Kinds |-> Idle]]
        /\ failed' = [failed EXCEPT ![f] = FALSE]
        /\ beginning' = [beginning EXCEPT ![f] = "no"] /\ UNCHANGED <<store, room, flying>>
    BY <1>5 DEF Drop
  <2>2. NoRecord \in Record
    BY DEF NoRecord, NoEntry, Record, Ledger, LedgerEntry, Texts
  <2>3. JournalTypeOK'
    BY <2>1, <2>2, IdleTyped DEF JournalTypeOK, Texts
  <2>4. StoreInv'
    BY <2>1 DEF StoreInv, JournalTypeOK
  <2>5. OpsInv'
    BY <2>1 DEF OpsInv, JournalTypeOK, Idle
  <2>6. BeginInv'
    BY <2>1 DEF BeginInv, JournalTypeOK
  <2> QED
    BY <2>1, <2>3, <2>4, <2>5, <2>6 DEF PostedInv
<1>6. ASSUME NEW f \in Flows, Adopt(f) PROVE JournalInv'
  <2>1. PICK i \in DOMAIN room :
          Go(f, "lock", [Idle EXCEPT !.at = "mark", !.text = room[i].text, !.seq = i, !.ensure = TRUE])
    BY <1>6 DEF Adopt
  <2> DEFINE op == [Idle EXCEPT !.at = "mark", !.text = room[i].text, !.seq = i, !.ensure = TRUE]
  <2>2. room[i] \in Line /\ i \in Nat
    BY DEF JournalTypeOK
  <2>3. op \in Operation /\ op.at = "mark" /\ op.text # None
    BY <2>2, JournalAssumption DEF Idle, Operation, Line, Texts
  <2> HIDE DEF op
  <2>4. ops' = [ops EXCEPT ![f]["lock"] = op] /\ "lock" \in Kinds
    BY <2>1 DEF Go, op, Kinds
  <2> QED
    BY <1>6, <2>3, <2>4, OpKeepsJournal DEF Adopt, Usable
<1>7. ASSUME NEW f \in Flows, NEW k \in Kinds, EnsurePosted(f, k) PROVE JournalInv'
  <2>1. PICK text \in TextsOf(f, k), guarded \in BOOLEAN :
          LET isNew == Recorded(f, k).text # text IN
          Go(f, k, [Idle EXCEPT !.at = IF isNew /\ ~guarded THEN "intent" ELSE "read",
                                !.text = text, !.isNew = isNew])
    BY <1>7 DEF EnsurePosted
  <2> DEFINE isNew == Recorded(f, k).text # text
             op == [Idle EXCEPT !.at = IF isNew /\ ~guarded THEN "intent" ELSE "read",
                                !.text = text, !.isNew = isNew]
  <2>2. key[f] # None /\ text \in Flows
    BY <1>7 DEF EnsurePosted, Usable, TextsOf, JournalTypeOK, Texts
  <2>3. /\ op \in Operation /\ op.at \in {"intent", "read"} /\ op.text = text /\ op.isNew = isNew
    BY <2>2 DEF Idle, Operation, Texts
  <2>4. ops' = [ops EXCEPT ![f][k] = op]
    BY <2>1 DEF Go
  <2>5. ~op.isNew => cur[f].ledger[k].text = op.text
    BY <2>3 DEF Recorded
  <2> HIDE DEF op
  <2> QED
    BY <1>7, <2>2, <2>3, <2>4, <2>5, JournalAssumption, OpKeepsJournal DEF EnsurePosted
<1>8. ASSUME NEW f \in Flows, NEW k \in Kinds, LookInRoom(f, k) PROVE JournalInv'
  <2> DEFINE old == ops[f][k]
  <2>1. old \in Operation /\ old.at = "read"
    BY <1>8 DEF LookInRoom, JournalTypeOK
  <2>2. key[f] # None /\ old.text # None /\ (~old.isNew => cur[f].ledger[k].text = old.text)
    BY <2>1 DEF OpsInv
  <2>3. UNCHANGED <<store, room, flying, beginning, key, cur, failed>>
    BY <1>8 DEF LookInRoom
  <2>4. \/ \E i \in DOMAIN room :
             ops' = [ops EXCEPT ![f][k] = [old EXCEPT !.at = "mark", !.seq = i, !.ensure = TRUE]]
        \/ ops' = [ops EXCEPT ![f][k] = [old EXCEPT !.at = IF old.isNew THEN "intent" ELSE "post"]]
        \/ ops' = [ops EXCEPT ![f][k] = Idle]
    BY <1>8 DEF LookInRoom, Go
  <2> HIDE DEF old
  <2>5. DOMAIN room \subseteq Nat
    BY DEF JournalTypeOK
  <2>6. ASSUME NEW op \in Operation, ops' = [ops EXCEPT ![f][k] = op],
               \/ op.text = old.text /\ ((op.at = "post" /\ ~old.isNew) \/ op.at \in {"mark", "intent"})
               \/ op = Idle
        PROVE  JournalInv'
    <3>1. op.at # "idle" => op.text # None
      BY <2>2, <2>6 DEF Idle
    <3>2. op.at = "post" \/ (op.at = "read" /\ ~op.isNew) => cur[f].ledger[k].text = op.text
      BY <2>2, <2>6 DEF Idle
    <3> QED
      BY <2>2, <2>3, <2>6, <3>1, <3>2, OpKeepsJournal
  <2>7. ASSUME NEW i \in DOMAIN room,
               ops' = [ops EXCEPT ![f][k] = [old EXCEPT !.at = "mark", !.seq = i, !.ensure = TRUE]]
        PROVE  JournalInv'
    BY <2>1, <2>5, <2>6, <2>7, OpMarks
  <2>8. CASE ops' = [ops EXCEPT ![f][k] = [old EXCEPT !.at = IF old.isNew THEN "intent" ELSE "post"]]
    BY <2>1, <2>6, <2>8, OpMoves
  <2>9. CASE ops' = [ops EXCEPT ![f][k] = Idle]
    BY <2>6, <2>9, IdleTyped
  <2> QED
    BY <2>4, <2>7, <2>8, <2>9
<1>9. ASSUME NEW f \in Flows, NEW k \in Kinds, SaveIntent(f, k) PROVE JournalInv'
  <2> DEFINE old == ops[f][k]
             ledger == withLedgerIntent(cur[f].ledger, k, old.text)
  <2>1. old \in Operation /\ old.at = "intent" /\ cur[f].ledger \in Ledger
    BY <1>9 DEF SaveIntent, JournalTypeOK, Record
  <2>2. key[f] # None /\ old.text # None /\ old.text \in Flows
    BY <2>1 DEF OpsInv, Operation, Texts
  <2>3. UNCHANGED <<room, flying, beginning, key>>
    BY <1>9 DEF SaveIntent
  <2>4. CASE ops' = [ops EXCEPT ![f][k] = Idle] /\ UNCHANGED <<store, cur, failed, journalFaults>>
    BY <2>2, <2>3, <2>4, IdleTyped, OpKeepsJournal DEF Idle
  <2>5. CASE /\ ~failed[f] /\ ~Conflicts(Recorded(f, k), old.text)
             /\ \/ Saved(f, ledger) /\ ops' = [ops EXCEPT ![f][k] = [old EXCEPT !.at = "post"]]
                \/ Refused(f, ledger) /\ ops' = [ops EXCEPT ![f][k] = Idle]
    <3>1. /\ ledger \in Ledger /\ ledger[k].text = old.text
          /\ \A j \in Kinds : cur[f].ledger[j].text \in {None, ledger[j].text}
      BY <2>1, <2>2, <2>5, IntentGrows, SMTT(30) DEF Recorded
    <3> HIDE DEF ledger
    <3>2. SaveOf(f, ledger)
      BY <2>2, <2>5, <3>1, SavesSo
    <3>3. CASE ops' = [ops EXCEPT ![f][k] = Idle]
      BY <2>2, <2>3, <3>1, <3>2, <3>3, IdleTyped, SaveKeepsJournal
    <3>4. CASE Saved(f, ledger) /\ ops' = [ops EXCEPT ![f][k] = [old EXCEPT !.at = "post"]]
      <4>1. cur'[f].ledger[k].text = old.text
        BY <3>1, <3>4 DEF Saved, JournalTypeOK
      <4> HIDE DEF old
      <4>2. /\ [old EXCEPT !.at = "post"] \in Operation
            /\ [old EXCEPT !.at = "post"].at = "post" /\ [old EXCEPT !.at = "post"].text = old.text
        BY <2>1, OpMoves
      <4> QED
        BY <2>2, <2>3, <3>1, <3>2, <3>4, <4>1, <4>2, SaveKeepsJournal
    <3> QED
      BY <2>5, <3>3, <3>4
  <2> QED
    BY <1>9, <2>4, <2>5 DEF SaveIntent, Go
<1>10. ASSUME NEW f \in Flows, NEW k \in Kinds, PostLine(f, k) PROVE JournalInv'
  <2> DEFINE old == ops[f][k]
  <2>1. old \in Operation /\ old.at = "post" /\ Len(room) + 1 \in Nat
    BY <1>10 DEF PostLine, JournalTypeOK
  <2>2. UNCHANGED <<store, beginning, key, cur, failed>>
    BY <1>10 DEF PostLine
  <2>3. CASE ops' = [ops EXCEPT ![f][k] = Idle] /\ UNCHANGED <<room, flying>>
    BY <2>2, <2>3, IdleTyped, OpKeepsJournal DEF Idle
  <2>4. ASSUME NEW op \in Operation, ops' = [ops EXCEPT ![f][k] = op],
               op = Idle \/ (op.at = "mark" /\ op.text = old.text),
               \/ room' = Append(room, LineOf(f, k, old.text)) /\ UNCHANGED flying
               \/ flying' = flying \cup {LineOf(f, k, old.text)} /\ UNCHANGED room
        PROVE  JournalInv'
    BY <2>1, <2>2, <2>4, PostKeepsJournal
  <2>5. CASE room' = Append(room, LineOf(f, k, old.text)) /\ UNCHANGED flying
             /\ ops' = [ops EXCEPT ![f][k] = [old EXCEPT !.at = "mark", !.seq = Len(room) + 1]]
    <3> HIDE DEF old
    <3> QED
      BY <2>1, <2>4, <2>5, OpMarks
  <2>6. CASE /\ ops' = [ops EXCEPT ![f][k] = Idle]
             /\ \/ room' = Append(room, LineOf(f, k, old.text)) /\ UNCHANGED flying
                \/ flying' = flying \cup {LineOf(f, k, old.text)} /\ UNCHANGED room
    BY <2>4, <2>6, IdleTyped
  <2> QED
    BY <1>10, <2>3, <2>5, <2>6 DEF PostLine, Go
<1>11. ASSUME NEW f \in Flows, NEW k \in Kinds, MarkLanded(f, k) PROVE JournalInv'
  <2> DEFINE old == ops[f][k]
             from == IF old.ensure THEN withLedgerIntent(cur[f].ledger, k, old.text) ELSE cur[f].ledger
             ledger == [from EXCEPT ![k].landed = old.seq]
  <2>1. old \in Operation /\ old.at = "mark" /\ cur[f].ledger \in Ledger
    BY <1>11 DEF MarkLanded, JournalTypeOK, Record
  <2>2. key[f] # None /\ old.text # None /\ old.text \in Flows /\ old.seq \in Nat
    BY <2>1 DEF OpsInv, Operation, Texts
  <2>3. UNCHANGED <<room, flying, beginning, key>> /\ ops' = [ops EXCEPT ![f][k] = Idle]
    BY <1>11 DEF MarkLanded, Go
  <2>4. CASE UNCHANGED <<store, cur, failed, journalFaults>>
    BY <2>2, <2>3, <2>4, IdleTyped, OpKeepsJournal DEF Idle
  <2>5. CASE ~(old.ensure /\ Conflicts(Recorded(f, k), old.text)) /\ (Saved(f, ledger) \/ Refused(f, ledger))
    <3>1. from \in Ledger /\ \A j \in Kinds : cur[f].ledger[j].text \in {None, from[j].text}
      BY <2>1, <2>2, <2>5, IntentGrows DEF Recorded
    <3>2. ledger \in Ledger /\ \A j \in Kinds : ledger[j].text = from[j].text
      <4> HIDE DEF from
      <4> QED
        BY <2>2, <3>1 DEF Ledger, LedgerEntry
    <3>3. \A j \in Kinds : cur[f].ledger[j].text \in {None, ledger[j].text}
      BY <3>1, <3>2
    <3> HIDE DEF ledger, from
    <3>4. SaveOf(f, ledger)
      BY <2>2, <2>5, <3>2, SavesSo
    <3> QED
      BY <2>2, <2>3, <3>2, <3>3, <3>4, IdleTyped, SaveKeepsJournal
  <2> QED
    BY <1>11, <2>4, <2>5 DEF MarkLanded
<1>12. CASE Arrive
  <2>1. PICK line \in flying : room' = Append(room, line) /\ flying' = flying \ {line}
    BY <1>12 DEF Arrive
  <2>2. UNCHANGED <<store, beginning, key, cur, failed, ops>>
    BY <1>12 DEF Arrive
  <2>3. line \in Line /\ room \in Seq(Line)
    BY DEF JournalTypeOK
  <2>4. JournalTypeOK'
    BY <2>1, <2>2, <2>3, AppendLine DEF JournalTypeOK
  <2>5. \A i \in DOMAIN room' : (i \in DOMAIN room /\ room'[i] = room[i]) \/ room'[i] = line
    BY <2>1, <2>3, AppendLine
  <2>6. PostedInv'
    BY <2>1, <2>2, <2>5 DEF PostedInv
  <2> QED
    BY <2>2, <2>4, <2>6 DEF StoreInv, BeginInv, OpsInv
<1> QED
  BY <1>1, <1>2, <1>3, <1>4, <1>5, <1>6, <1>7, <1>8, <1>9, <1>10, <1>11, <1>12 DEF Journal

\* The invariant is about the journals alone.
LEMMA JournalUnchanged == JournalInv /\ UNCHANGED journalVars => JournalInv'
BY DEF journalVars, JournalInv, JournalTypeOK, StoreInv, BeginInv, OpsInv, PostedInv

\* At first no record is kept and no line is posted.
LEMMA JournalInitially == JournalInit => JournalInv
<1> SUFFICES ASSUME JournalInit PROVE JournalInv
  OBVIOUS
<1>1. NoRecord \in Record
  BY DEF NoRecord, NoEntry, Record, Ledger, LedgerEntry, Texts
<1>2. JournalTypeOK
  BY <1>1, IdleTyped DEF JournalInit, JournalTypeOK, Texts
<1>3. StoreInv /\ BeginInv /\ OpsInv
  BY DEF JournalInit, StoreInv, BeginInv, OpsInv, Idle
<1>4. PostedInv
  BY DEF JournalInit, PostedInv
<1> QED
  BY <1>2, <1>3, <1>4 DEF JournalInv

\* JournalInv holds in every reachable state of the rooms, for any flows and
\* kinds of line.
THEOREM JournalInvHolds == RoomsSpec => []JournalInv
<1>1. RoomsInit => JournalInv
  BY JournalInitially DEF RoomsInit
<1>2. JournalInv /\ [RoomsNext]_allVars => JournalInv'
  BY JournalNext, JournalUnchanged DEF RoomsNext, Event, AnyLine, allVars
<1> QED
  BY <1>1, <1>2, PTL DEF RoomsSpec

\* A line that is in a room, or may still come into one, has its text in the
\* stored record, and all of them are of one record: no two accepts of one
\* offer are out (ensurePosted, beginSeller).
THEOREM PostsAreRecorded == RoomsSpec => []PostedIsRecorded
<1>1. JournalInv => PostedIsRecorded
  <2> SUFFICES ASSUME JournalInv,
                      NEW l \in {room[i] : i \in DOMAIN room} \cup flying,
                      NEW m \in {room[i] : i \in DOMAIN room} \cup flying
               PROVE  store[l.key].ledger[l.kind].text = l.text /\ l.key = m.key
    BY DEF PostedIsRecorded
  <2>1. l \in Line /\ m \in Line
    BY LinesTyped DEF JournalInv
  <2>2. store[l.key].ledger[l.kind].text = l.text /\ store[m.key].ledger[m.kind].text = m.text
    BY DEF JournalInv, PostedInv
  <2>3. store[l.key] # NoRecord /\ store[m.key] # NoRecord
    BY <2>1, <2>2, JournalAssumption DEF NoRecord, NoEntry, Line
  <2> QED
    BY <2>1, <2>2, <2>3 DEF JournalInv, StoreInv, Line
<1> QED
  BY <1>1, JournalInvHolds, PTL

-----------------------------------------------------------------------------
(* The files of the watcher *)

\* A status from paired on is among the entries.
Reached(entries) == \E e \in entries : e.status \in PairedOrLater

\* What swaps.jsonl has ever told.
Told == published \cup lost

\* The type of swaps.jsonl, HIT and state.json, and of what a sweep has
\* compared.
FilesTypeOK ==
  /\ hit \in BOOLEAN
  /\ saved \in [statuses : SUBSET Told, hitCreated : BOOLEAN]
  /\ step \in {"lines", "HIT", "state"} =>
       view \in [known : SUBSET Told, new : SUBSET board, hitCreated : BOOLEAN]

\* What state.json says has been told is told; so is what a sweep that has
\* compared its board is still to save.
FilesInv ==
  /\ FilesTypeOK
  /\ saved.hitCreated => hit
  /\ complete \subseteq Told /\ (Reached(complete) => hit)
  /\ step \in {"lines", "HIT", "state"} => board \subseteq view.known \cup view.new
  /\ step \in {"lines", "HIT", "state"} => (view.hitCreated => hit)
  /\ step \in {"HIT", "state"} => view.new \subseteq Told
  /\ step = "state" => (Reached(board) => hit)

\* At first no file is written.
LEMMA FilesInitially == WatcherInit => FilesInv
<1> SUFFICES ASSUME WatcherInit PROVE FilesInv
  OBVIOUS
<1>1. /\ saved = [statuses |-> {}, hitCreated |-> FALSE]
      /\ Told = {} /\ hit = FALSE /\ complete = {} /\ step = "idle"
  BY DEF WatcherInit, NothingSaved, Told
<1>2. FilesTypeOK
  BY <1>1 DEF FilesTypeOK
<1> QED
  BY <1>1, <1>2 DEF FilesInv, Reached

\* The invariant is about the watcher's variables alone.
LEMMA FilesUnchanged == FilesInv /\ UNCHANGED watcherVars => FilesInv'
BY DEF FilesInv, FilesTypeOK, Told, Reached, watcherVars, files

\* A sweep that reads, folds or is cut off leaves what is told alone.
LEMMA ReadingKeepsFiles ==
  ASSUME FilesInv, UNCHANGED <<published, lost, hit, saved, complete>>,
         step' \notin {"lines", "HIT", "state"}
  PROVE  FilesInv'
BY DEF FilesInv, FilesTypeOK, Told, Reached

\* Every step of a sweep keeps the invariant, a crash between two files too.
LEMMA SweepKeepsFiles ==
  ASSUME FilesInv, Sweep
  PROVE  FilesInv'
<1> USE DEF After, Step
<1>1. CASE ReadOffers \/ SweepEnds \/ \E leg \in Legs : ReadRoom(leg) \/ Capture(leg)
  BY <1>1, ReadingKeepsFiles DEF ReadOffers, SweepEnds, ReadRoom, Capture, files
<1>2. CASE WriteBoard
  BY <1>2, ReadingKeepsFiles DEF WriteBoard
<1>3. CASE CompareState
  <2>1. PICK state \in {saved, NothingSaved} :
          view' = [known |-> state.statuses, new |-> board \ state.statuses,
                   hitCreated |-> state.hitCreated]
    BY <1>3 DEF CompareState
  <2>2. UNCHANGED <<board, hit, saved, complete>> /\ UNCHANGED Told /\ step' = "lines"
    BY <1>3 DEF CompareState, files, Told
  <2>3. /\ state \in [statuses : SUBSET Told, hitCreated : BOOLEAN]
        /\ state.hitCreated => hit
    <3>1. CASE state = saved
      BY <3>1 DEF FilesInv, FilesTypeOK
    <3>2. CASE state = NothingSaved
      BY <3>2 DEF NothingSaved
    <3> QED
      BY <2>1, <3>1, <3>2
  <2> QED
    BY <2>1, <2>2, <2>3 DEF FilesInv, FilesTypeOK, Reached
<1>4. CASE AppendLines
  <2>1. step = "lines" /\ step' = "HIT" /\ UNCHANGED <<view, board, hit, saved, complete>>
    BY <1>4 DEF AppendLines
  <2>2. Told \subseteq Told' /\ view.new \subseteq Told'
    BY <1>4 DEF AppendLines, Told
  <2>3. FilesTypeOK'
    BY <2>1, <2>2 DEF FilesInv, FilesTypeOK
  <2> QED
    BY <2>1, <2>2, <2>3 DEF FilesInv, Reached
<1>5. CASE MakeHit
  <2> DEFINE makes == Reached(board) /\ ~view.hitCreated /\ ~hit
  <2>1. hit' = (hit \/ makes) /\ step = "HIT" /\ step' = "state"
    BY <1>5 DEF MakeHit, Reached
  <2>2. view' = [view EXCEPT !.hitCreated = view.hitCreated \/ makes]
    BY <1>5 DEF MakeHit, Reached
  <2>3. UNCHANGED <<board, saved, complete>> /\ UNCHANGED Told
    BY <1>5 DEF MakeHit, Told
  <2>4. view \in [known : SUBSET Told, new : SUBSET board, hitCreated : BOOLEAN] /\ hit \in BOOLEAN
    BY <2>1 DEF FilesInv, FilesTypeOK
  <2>5. /\ view' \in [known : SUBSET Told, new : SUBSET board, hitCreated : BOOLEAN]
        /\ view'.known = view.known /\ view'.new = view.new /\ view'.hitCreated = (view.hitCreated \/ makes)
    BY <2>2, <2>4
  <2>6. hit' \in BOOLEAN /\ (hit => hit') /\ (makes => hit')
    BY <2>1, <2>4
  <2>7. Reached(board) => hit'
    BY <2>1, <2>6 DEF FilesInv
  <2> HIDE DEF makes
  <2>8. FilesTypeOK'
    BY <2>1, <2>3, <2>5, <2>6 DEF FilesInv, FilesTypeOK
  <2> QED
    BY <2>1, <2>3, <2>5, <2>6, <2>7, <2>8 DEF FilesInv, Reached
<1>6. CASE SaveState
  <2> DEFINE kept == {e \in view.known : \A n \in view.new : n.key # e.key}
  <2>1. saved' = [statuses |-> kept \cup view.new, hitCreated |-> view.hitCreated]
    BY <1>6 DEF SaveState
  <2>2. UNCHANGED <<board, hit>> /\ UNCHANGED Told /\ complete' = complete \cup board
    BY <1>6 DEF SaveState, Told
  <2>3. step = "state" /\ step' = "idle" /\ kept \subseteq view.known
    BY <1>6 DEF SaveState
  <2> HIDE DEF kept
  <2>4. view.known \subseteq Told /\ view.new \subseteq Told /\ view.hitCreated \in BOOLEAN
    BY <2>3 DEF FilesInv, FilesTypeOK
  <2>5. saved' \in [statuses : SUBSET Told, hitCreated : BOOLEAN]
    BY <2>1, <2>3, <2>4
  <2>6. board \subseteq Told
    BY <2>3, <2>4 DEF FilesInv
  <2>7. FilesTypeOK'
    BY <2>2, <2>3, <2>5 DEF FilesInv, FilesTypeOK
  <2> QED
    BY <2>1, <2>2, <2>3, <2>6, <2>7 DEF FilesInv, Reached
<1> QED
  BY <1>1, <1>2, <1>3, <1>4, <1>5, <1>6 DEF Sweep

\* A status that a sweep published and ended well with has its line in
\* swaps.jsonl, or had it when a later sweep could not read the file, and HIT
\* is there once a swap was paired, wherever earlier sweeps were cut off
\* (sweepOnce).
THEOREM ToldBeforeSaved == RoomsSpec => []EveryStatusHasALine
<1>1. RoomsInit => FilesInv
  BY FilesInitially DEF RoomsInit
<1>2. FilesInv /\ [RoomsNext]_allVars => FilesInv'
  BY SweepKeepsFiles, FilesUnchanged DEF RoomsNext, Event, AnyLine, allVars
<1>3. FilesInv => EveryStatusHasALine
  BY DEF FilesInv, Told, Reached, EveryStatusHasALine
<1> QED
  BY <1>1, <1>2, <1>3, PTL DEF RoomsSpec

-----------------------------------------------------------------------------
(* What the fold says *)

\* FirstRule gives what the first rule says whose condition holds.
LEMMA FirstApplies ==
  ASSUME NEW rules, NEW n \in Nat, DOMAIN rules = 1..n, \E k \in DOMAIN rules : rules[k][1]
  PROVE  \E i \in DOMAIN rules :
           /\ FirstRule(rules) = rules[i][2] /\ rules[i][1]
           /\ \A j \in DOMAIN rules : j < i => ~rules[j][1]
<1> DEFINE applying == {i \in 1..n : rules[i][1]}
<1>1. applying \in SUBSET Nat /\ applying # {}
  OBVIOUS
<1>2. PICK m \in applying : \A j \in applying : m <= j
  BY <1>1, LeastExists
<1>3. m \in DOMAIN rules /\ rules[m][1] /\ \A j \in 1..(m - 1) : ~rules[j][1]
  BY <1>2
<1> DEFINE i == CHOOSE i \in DOMAIN rules : rules[i][1] /\ \A j \in 1..(i - 1) : ~rules[j][1]
<1>4. i \in DOMAIN rules /\ rules[i][1] /\ \A j \in 1..(i - 1) : ~rules[j][1]
  BY <1>3
<1>5. FirstRule(rules) = rules[i][2]
  BY DEF FirstRule
<1> HIDE DEF i
<1>6. \A j \in DOMAIN rules : j < i => ~rules[j][1]
  BY <1>4
<1> QED
  BY <1>4, <1>5, <1>6

\* Three lists of rules, one after the other.
LEMMA ThreeLists ==
  ASSUME NEW S, NEW r \in Seq(S), NEW s \in Seq(S), NEW t \in Seq(S)
  PROVE  LET u == r \o s \o t IN
         /\ DOMAIN u = 1..(Len(r) + Len(s) + Len(t))
         /\ \A i \in 1..Len(r) : u[i] = r[i]
         /\ \A i \in 1..Len(s) : u[Len(r) + i] = s[i]
         /\ \A i \in 1..Len(t) : u[Len(r) + Len(s) + i] = t[i]
<1> DEFINE v == r \o s
<1>1. /\ v \in Seq(S) /\ Len(v) = Len(r) + Len(s)
      /\ \A i \in 1..Len(r) : v[i] = r[i]
      /\ \A i \in 1..Len(s) : v[Len(r) + i] = s[i]
  OBVIOUS
<1> HIDE DEF v
<1> DEFINE u == v \o t
<1>2. /\ u \in Seq(S) /\ Len(u) = Len(v) + Len(t)
      /\ \A i \in 1..Len(v) : u[i] = v[i]
      /\ \A i \in 1..Len(t) : u[Len(v) + i] = t[i]
  <2>1. v \in Seq(S)
    BY <1>1
  <2> QED
    BY <2>1
<1> HIDE DEF u
<1>3. /\ DOMAIN u = 1..(Len(r) + Len(s) + Len(t))
      /\ \A i \in 1..Len(r) : u[i] = r[i]
      /\ \A i \in 1..Len(s) : u[Len(r) + i] = s[i]
      /\ \A i \in 1..Len(t) : u[Len(r) + Len(s) + i] = t[i]
  BY <1>1, <1>2
<1> QED
  BY <1>3 DEF u, v

\* The rules of foldSwap in order: the three, six and five of its parts.
LEMMA FourteenRules ==
  ASSUME NEW p1, NEW p2, NEW p3,
         NEW q1, NEW q2, NEW q3, NEW q4, NEW q5, NEW q6,
         NEW r1, NEW r2, NEW r3, NEW r4, NEW r5
  PROVE  LET u == <<p1, p2, p3>> \o <<q1, q2, q3, q4, q5, q6>> \o <<r1, r2, r3, r4, r5>> IN
         /\ DOMAIN u = 1..14
         /\ u[1] = p1 /\ u[2] = p2 /\ u[3] = p3
         /\ u[4] = q1 /\ u[5] = q2 /\ u[6] = q3 /\ u[7] = q4 /\ u[8] = q5 /\ u[9] = q6
         /\ u[10] = r1 /\ u[11] = r2 /\ u[12] = r3 /\ u[13] = r4 /\ u[14] = r5
<1> DEFINE S == {p1, p2, p3, q1, q2, q3, q4, q5, q6, r1, r2, r3, r4, r5}
           p == <<p1, p2, p3>>
           q == <<q1, q2, q3, q4, q5, q6>>
           r == <<r1, r2, r3, r4, r5>>
<1>1. p \in Seq(S) /\ Len(p) = 3 /\ p[1] = p1 /\ p[2] = p2 /\ p[3] = p3
  OBVIOUS
<1>2. /\ q \in Seq(S) /\ Len(q) = 6
      /\ q[1] = q1 /\ q[2] = q2 /\ q[3] = q3 /\ q[4] = q4 /\ q[5] = q5 /\ q[6] = q6
  OBVIOUS
<1>3. /\ r \in Seq(S) /\ Len(r) = 5
      /\ r[1] = r1 /\ r[2] = r2 /\ r[3] = r3 /\ r[4] = r4 /\ r[5] = r5
  OBVIOUS
<1> HIDE DEF S, p, q, r
<1> DEFINE u == p \o q \o r
<1>4. /\ DOMAIN u = 1..14
      /\ \A i \in 1..3 : u[i] = p[i]
      /\ \A i \in 1..6 : u[3 + i] = q[i]
      /\ \A i \in 1..5 : u[9 + i] = r[i]
  <2>1. /\ DOMAIN u = 1..(Len(p) + Len(q) + Len(r))
        /\ \A i \in 1..Len(p) : u[i] = p[i]
        /\ \A i \in 1..Len(q) : u[Len(p) + i] = q[i]
        /\ \A i \in 1..Len(r) : u[Len(p) + Len(q) + i] = r[i]
    <3>1. p \in Seq(S) /\ q \in Seq(S) /\ r \in Seq(S)
      BY <1>1, <1>2, <1>3
    <3> QED
      BY <3>1, ThreeLists
  <2>2. Len(p) = 3 /\ Len(q) = 6 /\ Len(r) = 5
    BY <1>1, <1>2, <1>3
  <2> HIDE DEF u
  <2> QED
    BY <2>1, <2>2
<1> HIDE DEF u
<1>5. u[1] = p1 /\ u[2] = p2 /\ u[3] = p3
  BY <1>1, <1>4
<1>6. u[4] = q1 /\ u[5] = q2 /\ u[6] = q3 /\ u[7] = q4 /\ u[8] = q5 /\ u[9] = q6
  <2>1. u[3 + 1] = q1 /\ u[3 + 2] = q2 /\ u[3 + 3] = q3 /\ u[3 + 4] = q4 /\ u[3 + 5] = q5 /\ u[3 + 6] = q6
    BY <1>2, <1>4
  <2> QED
    BY <2>1
<1>7. u[10] = r1 /\ u[11] = r2 /\ u[12] = r3 /\ u[13] = r4 /\ u[14] = r5
  <2>1. u[9 + 1] = r1 /\ u[9 + 2] = r2 /\ u[9 + 3] = r3 /\ u[9 + 4] = r4 /\ u[9 + 5] = r5
    BY <1>3, <1>4
  <2> QED
    BY <2>1
<1> QED
  BY <1>4, <1>5, <1>6, <1>7 DEF u, p, q, r

\* What the evidence says when the fold gives a status.
Says(status, a, b, evA, evB) ==
  /\ status = "settled" => evA.rail = "claimed" /\ evB.rail = "claimed"
  /\ status = "a-locked" => evA.verdict = "true" /\ evB.verdict = "true"
  /\ status = "b-locked" => evB.verdict = "true"
  /\ status = "refunded" => RefundedFold(a, evA) /\ RefundedFold(b, evB)
  /\ status = "refunded-a" => RefundedFold(a, evA)
  /\ status = "refunded-b" => RefundedFold(b, evB)

\* A rule is a condition and what it says.
LEMMA RuleOf ==
  ASSUME NEW c, NEW s
  PROVE  (<<c, s>>[1] <=> c) /\ <<c, s>>[2] = s
OBVIOUS

\* A rule that says one of two things.
LEMMA EitherRule ==
  ASSUME NEW c, NEW d, NEW s, NEW t
  PROVE  <<c, IF d THEN s ELSE t>>[2] \in {s, t}
OBVIOUS

\* What the rules for a lone leg A say has happened, by the evidence.
LEMMA LegASays ==
  ASSUME NEW a, NEW b, NEW evA, NEW evB
  PROVE  Says(FirstRule(LegAAlone(a, evA)), a, b, evA, evB)
<1> DEFINE p == <<a.status = "proposed", "bid">>
           q == <<a.status = "accepted", "accepted">>
           r == <<a.status = "cancelled", "abandoned">>
           s == <<a.status = "refunded" /\ RefundedFold(a, evA), "refunded-a">>
           t == <<TRUE, "unpaired">>
           rules == <<p, q, r, s, t>>
<1>1. p[2] = "bid"
  BY Zenon
<1>2. q[2] = "accepted"
  BY Zenon
<1>3. r[2] = "abandoned"
  BY Zenon
<1>4. s[2] = "refunded-a"
  BY Zenon
<1>4a. s[1] => RefundedFold(a, evA)
  BY Zenon
<1>5. t[2] = "unpaired"
  BY Zenon
<1>5a. t[1]
  BY Zenon
<1>6. LegAAlone(a, evA) = rules
  BY DEF LegAAlone
<1> HIDE DEF p, q, r, s, t
<1>7. /\ DOMAIN rules = 1..5
      /\ rules[1] = p /\ rules[2] = q /\ rules[3] = r /\ rules[4] = s /\ rules[5] = t
  OBVIOUS
<1> HIDE DEF rules
<1>8. PICK i \in DOMAIN rules : FirstRule(rules) = rules[i][2] /\ rules[i][1]
  <2>1. DOMAIN rules = 1..5 /\ \E k \in DOMAIN rules : rules[k][1]
    BY <1>5a, <1>7
  <2> QED
    BY <2>1, FirstApplies
<1>9. i \in {1, 2, 3, 4, 5}
  BY <1>7
<1> QED
  BY <1>1, <1>2, <1>3, <1>4, <1>4a, <1>5, <1>6, <1>7, <1>8, <1>9 DEF Says

\* What the fold says has happened, by the evidence (foldSwap in swap.ts).
LEMMA SwapSays ==
  ASSUME NEW pair, NEW a, NEW b, NEW evA, NEW evB, NEW now
  PROVE  Says(FoldSwap(pair, a, b, evA, evB, now), a, b, evA, evB)
<1>1. CASE pair.seller = ""
  BY <1>1, LegASays DEF FoldSwap
<1>2. CASE pair.seller # ""
  <2> DEFINE p1 == <<a.status = "proposed", IF b.status = "proposed" THEN "bid" ELSE "unpaired">>
             p2 == <<a.status = "accepted" /\ b.status = "proposed", "accepted">>
             p3 == <<b.status = "proposed" \/ ~Crosses(pair), "unpaired">>
             q1 == <<"cancelled" \in {a.status, b.status}, "abandoned">>
             q2 == <<RefundedFold(a, evA) /\ RefundedFold(b, evB), "refunded">>
             q3 == <<RefundedFold(a, evA), "refunded-a">>
             q4 == <<RefundedFold(b, evB), "refunded-b">>
             q5 == <<ClaimedBoth(a, b, evA, evB), "settled">>
             q6 == <<"claimed" \in {a.status, b.status}, "revealed">>
             r1 == <<b.status # "locked", IF now >= 1 THEN "abandoned" ELSE "paired">>
             r2 == <<evB.verdict # "true", "paired">>
             r3 == <<a.status # "locked", IF now >= 2 THEN "abandoned" ELSE "b-locked">>
             r4 == <<evA.verdict # "true", "b-locked">>
             r5 == <<TRUE, "a-locked">>
             u == <<p1, p2, p3>> \o <<q1, q2, q3, q4, q5, q6>> \o <<r1, r2, r3, r4, r5>>
  <2>1. FoldSwap(pair, a, b, evA, evB, now) = FirstRule(u)
    BY <1>2 DEF FoldSwap, NotPaired, Ended, Locking
  <2>2. p1[2] \in {"bid", "unpaired"} /\ p2[2] = "accepted" /\ p3[2] = "unpaired"
    <3>1. p1[2] \in {"bid", "unpaired"}
      BY EitherRule, Zenon
    <3>2. p2[2] = "accepted"
      BY Zenon
    <3>3. p3[2] = "unpaired"
      BY Zenon
    <3> QED
      BY <3>1, <3>2, <3>3
  <2>3. q2[1] => RefundedFold(a, evA) /\ RefundedFold(b, evB)
    BY Zenon
  <2>4. q3[1] => RefundedFold(a, evA)
    BY Zenon
  <2>5. q4[1] => RefundedFold(b, evB)
    BY Zenon
  <2>6. q5[1] => evA.rail = "claimed" /\ evB.rail = "claimed"
    BY Zenon DEF ClaimedBoth
  <2>7. ~r2[1] => evB.verdict = "true"
    BY Zenon
  <2>8. ~r4[1] => evA.verdict = "true"
    BY Zenon
  <2>9. r1[2] \in {"abandoned", "paired"} /\ r3[2] \in {"abandoned", "b-locked"}
    <3>1. r1[2] \in {"abandoned", "paired"}
      BY EitherRule, Zenon
    <3>2. r3[2] \in {"abandoned", "b-locked"}
      BY EitherRule, Zenon
    <3> QED
      BY <3>1, <3>2
  <2>10. /\ q1[2] = "abandoned" /\ q2[2] = "refunded" /\ q3[2] = "refunded-a"
         /\ q4[2] = "refunded-b" /\ q5[2] = "settled" /\ q6[2] = "revealed"
    BY Zenon
  <2>11. r2[2] = "paired" /\ r4[2] = "b-locked" /\ r5[2] = "a-locked"
    BY Zenon
  <2>12. r5[1]
    BY Zenon
  <2> HIDE DEF p1, p2, p3, q1, q2, q3, q4, q5, q6, r1, r2, r3, r4, r5
  <2>13. /\ DOMAIN u = 1..14
         /\ u[1] = p1 /\ u[2] = p2 /\ u[3] = p3
         /\ u[4] = q1 /\ u[5] = q2 /\ u[6] = q3 /\ u[7] = q4 /\ u[8] = q5 /\ u[9] = q6
         /\ u[10] = r1 /\ u[11] = r2 /\ u[12] = r3 /\ u[13] = r4 /\ u[14] = r5
    BY FourteenRules
  <2> HIDE DEF u
  <2>14. PICK i \in DOMAIN u : /\ FirstRule(u) = u[i][2] /\ u[i][1]
                              /\ \A j \in DOMAIN u : j < i => ~u[j][1]
    <3>1. DOMAIN u = 1..14 /\ \E k \in DOMAIN u : u[k][1]
      BY <2>12, <2>13
    <3> QED
      BY <3>1, FirstApplies
  <2>15. i \in {1, 2, 3} \/ i \in {4, 5, 6, 7, 8, 9} \/ i \in {10, 11, 12, 13, 14}
    BY <2>13
  <2>16. CASE i \in {1, 2, 3}
    BY <2>1, <2>2, <2>13, <2>14, <2>16 DEF Says
  <2>17. CASE i \in {4, 5, 6, 7, 8, 9}
    BY <2>1, <2>3, <2>4, <2>5, <2>6, <2>10, <2>13, <2>14, <2>17 DEF Says
  <2>18. CASE i \in {10, 11, 12, 13, 14}
    <3>1. i > 11 => ~r2[1]
      BY <2>13, <2>14
    <3>2. i > 13 => ~r4[1]
      BY <2>13, <2>14
    <3> QED
      BY <2>1, <2>7, <2>8, <2>9, <2>11, <2>13, <2>14, <2>18, <3>1, <3>2 DEF Says
  <2> QED
    BY <2>15, <2>16, <2>17, <2>18
<1> QED
  BY <1>1, <1>2

-----------------------------------------------------------------------------
(* What the watcher has read, and what it says on the board *)

\* The locks in escrow, what may be read of them, and what a sweep has
\* gathered.
Lock == [state : {"none", "locked", "claimed", "refunded"}, ours : BOOLEAN]
EvidenceRead ==
  [verdict : {"null", "true", "false"}, rail : {"none", "locked", "claimed", "refunded"}]

ViewOf(lines, now) ==
  [offers : {lines}, now : {now}, deals : [Legs -> Deal], fetched : SUBSET Legs,
   evidence : [Legs -> EvidenceRead]]

\* What evidence says of a lock is true of it from then on.
IsTrue(leg, evidence) ==
  /\ evidence.verdict = "true" =>
       escrow[leg].ours /\ escrow[leg].state \in {"locked", "claimed", "refunded"}
  /\ evidence.rail \in {"claimed", "refunded"} =>
       escrow[leg].ours /\ escrow[leg].state = evidence.rail

\* What a status says of the locks.
HasHappened(status) ==
  LET in(l, states) == escrow[l].ours /\ escrow[l].state \in states IN
  /\ status = "settled" => \A l \in Legs : in(l, {"claimed"})
  /\ status = "a-locked" => \A l \in Legs : in(l, {"locked", "claimed", "refunded"})
  /\ status = "b-locked" => in("B", {"locked", "claimed", "refunded"})
  /\ ~paper /\ status = "refunded" => \A l \in Legs : in(l, {"refunded"})
  /\ ~paper /\ status = "refunded-a" => in("A", {"refunded"})
  /\ ~paper /\ status = "refunded-b" => in("B", {"refunded"})

\* The steps of a sweep between its start and the board.
Reading == {"room A", "room B", "chain A", "chain B", "board"}

\* The inductive invariant of the watcher: what a sweep has read, and what the
\* board says, is true.
WatchInv ==
  /\ escrow \in [Legs -> Lock] /\ deals \in [Legs -> Deal]
  /\ step \in Reading =>
       /\ \E lines, now : view \in ViewOf(lines, now)
       /\ \A l \in Legs : IsTrue(l, view.evidence[l])
  /\ \A e \in board : HasHappened(e.status)

\* A lock that is settled.
LEMMA LockMoves ==
  ASSUME NEW lock \in Lock, NEW s \in {"claimed", "refunded"}
  PROVE  LET moved == [lock EXCEPT !.state = s] IN
         moved \in Lock /\ moved.state = s /\ moved.ours = lock.ours
BY DEF Lock

\* A lock stays what it was made, and a settled one stays settled.
EscrowMoves ==
  /\ escrow' \in [Legs -> Lock]
  /\ \A l \in Legs : escrow[l].state # "none" =>
       /\ escrow'[l].ours = escrow[l].ours /\ escrow'[l].state \in {"locked", "claimed", "refunded"}
       /\ escrow[l].state # "locked" => escrow'[l].state = escrow[l].state

\* Settling one lock is such a move of the escrow.
LEMMA SettleMoves ==
  ASSUME escrow \in [Legs -> Lock], NEW leg \in Legs, Settle(leg)
  PROVE  EscrowMoves
<1>1. CASE /\ escrow[leg].state = "none"
           /\ \E ours \in BOOLEAN : escrow' = [escrow EXCEPT ![leg] = [state |-> "locked", ours |-> ours]]
  <2>1. PICK ours \in BOOLEAN : escrow' = [escrow EXCEPT ![leg] = [state |-> "locked", ours |-> ours]]
    BY <1>1
  <2>2. [state |-> "locked", ours |-> ours] \in Lock
    BY DEF Lock
  <2>3. /\ escrow' \in [Legs -> Lock]
        /\ \A l \in Legs : l # leg => escrow'[l] = escrow[l]
    BY <2>1, <2>2
  <2> QED
    BY <1>1, <2>3 DEF EscrowMoves, Lock
<1>2. CASE /\ escrow[leg].state = "locked"
           /\ \E s \in {"claimed", "refunded"} : escrow' = [escrow EXCEPT ![leg].state = s]
  <2>1. PICK s \in {"claimed", "refunded"} : escrow' = [escrow EXCEPT ![leg].state = s]
    BY <1>2
  <2> DEFINE moved == [escrow[leg] EXCEPT !.state = s]
  <2>2. moved \in Lock /\ moved.state = s /\ moved.ours = escrow[leg].ours
    <3>1. escrow[leg] \in Lock
      OBVIOUS
    <3> QED
      BY <3>1, LockMoves
  <2>3. escrow' = [escrow EXCEPT ![leg] = moved]
    BY <2>1
  <2> HIDE DEF moved
  <2>4. /\ escrow' \in [Legs -> Lock] /\ escrow'[leg] = moved
        /\ \A l \in Legs : l # leg => escrow'[l] = escrow[l]
    BY <2>2, <2>3
  <2> QED
    BY <1>2, <2>2, <2>4 DEF EscrowMoves, Lock
<1> QED
  BY <1>1, <1>2 DEF Settle

\* What evidence says stays true.
LEMMA TrueForGood ==
  ASSUME EscrowMoves, NEW leg \in Legs, NEW evidence, IsTrue(leg, evidence)
  PROVE  IsTrue(leg, evidence)'
BY DEF EscrowMoves, IsTrue

\* What the parties do makes nothing false that was read or said.
LEMMA PartiesKeepWatch ==
  ASSUME WatchInv, EscrowMoves, deals' \in [Legs -> Deal], UNCHANGED <<paper, watcherVars>>
  PROVE  WatchInv'
<1>1. step' = step /\ view' = view /\ board' = board /\ paper' = paper
  BY DEF watcherVars, files
<1>2. step' \in Reading => /\ \E lines, now : view' \in ViewOf(lines, now)
                           /\ \A l \in Legs : IsTrue(l, view.evidence[l])'
  BY <1>1, TrueForGood DEF WatchInv
<1>3. \A l \in Legs : escrow[l].ours =>
        /\ escrow[l].state \in {"claimed"} => escrow'[l].ours /\ escrow'[l].state \in {"claimed"}
        /\ escrow[l].state \in {"refunded"} => escrow'[l].ours /\ escrow'[l].state \in {"refunded"}
        /\ escrow[l].state \in {"locked", "claimed", "refunded"} =>
             escrow'[l].ours /\ escrow'[l].state \in {"locked", "claimed", "refunded"}
  BY DEF EscrowMoves
<1>4. ASSUME NEW status, HasHappened(status)
      PROVE  HasHappened(status)'
  BY <1>1, <1>3, <1>4 DEF HasHappened, Legs
<1> QED
  BY <1>1, <1>2, <1>4 DEF WatchInv, EscrowMoves

\* So is leaving the escrow alone.
LEMMA SameEscrow == escrow \in [Legs -> Lock] /\ escrow' = escrow => EscrowMoves
BY DEF EscrowMoves, Lock

\* Steps of the parties and lines of strangers keep the invariant.
LEMMA EventKeepsWatch ==
  ASSUME WatchInv, Event \/ AnyLine
  PROVE  WatchInv'
<1>1. UNCHANGED watcherVars
  BY DEF Event, AnyLine
<1>2. ASSUME NEW leg \in Legs, Frame(leg)
      PROVE  WatchInv'
  BY <1>1, <1>2, SameEscrow, PartiesKeepWatch DEF Frame, WatchInv
<1>3. ASSUME NEW leg \in Legs, Settle(leg)
      PROVE  WatchInv'
  BY <1>1, <1>3, SettleMoves, PartiesKeepWatch DEF Settle, WatchInv
<1>4. CASE Tick \/ \E line : Post(line)
  BY <1>1, <1>4, SameEscrow, PartiesKeepWatch DEF Tick, Post, WatchInv
<1> QED
  BY <1>2, <1>3, <1>4 DEF Event, AnyLine

\* The view with one leg's evidence more.
LEMMA SeenMoves ==
  ASSUME NEW lines, NEW now, NEW v \in ViewOf(lines, now), NEW leg \in Legs,
         NEW evidence \in EvidenceRead
  PROVE  LET seen == [v EXCEPT !.evidence[leg] = evidence] IN
         seen \in ViewOf(lines, now) /\ seen.evidence = [v.evidence EXCEPT ![leg] = evidence]
BY DEF ViewOf

\* The evidence of a leg is true when it is read.
LEMMA EvidenceIsTrue ==
  ASSUME escrow \in [Legs -> Lock], NEW leg \in Legs
  PROVE  Evidence(leg) \in EvidenceRead /\ IsTrue(leg, Evidence(leg))
BY DEF Evidence, NoEvidence, IsTrue, EvidenceRead, Lock

\* The board says what the evidence says.
LEMMA FoldedIsTrue ==
  ASSUME WatchInv, step = "board"
  PROVE  HasHappened(Folded.status)
<1> DEFINE pair == Pairing(view.offers)
           a == DealOf("A", pair.a)
           b == DealOf("B", pair.b)
           evA == EvidenceOf("A", pair.a)
           evB == EvidenceOf("B", pair.b)
           status == FoldSwap(pair, a, b, evA, evB, view.now)
<1>1. Says(status, a, b, evA, evB)
  BY SwapSays
<1>2. \A l \in Legs : IsTrue(l, view.evidence[l]) /\ IsTrue(l, NoEvidence)
  BY DEF WatchInv, Reading, IsTrue, NoEvidence
<1>3. evA \in {view.evidence["A"], NoEvidence} /\ evB \in {view.evidence["B"], NoEvidence}
  BY DEF EvidenceOf, Bound
<1>4. Folded.status = status
  BY DEF Folded, Entry
<1> HIDE DEF pair, a, b, evA, evB, status
<1>5. IsTrue("A", evA) /\ IsTrue("B", evB)
  BY <1>2, <1>3 DEF Legs
<1>6. ~paper /\ RefundedFold(a, evA) => evA.rail = "refunded"
  BY DEF RefundedFold
<1>7. ~paper /\ RefundedFold(b, evB) => evB.rail = "refunded"
  BY DEF RefundedFold
<1> QED
  BY <1>1, <1>4, <1>5, <1>6, <1>7 DEF Says, IsTrue, Legs, HasHappened

\* Every step of a sweep keeps the invariant.
LEMMA SweepKeepsWatch ==
  ASSUME WatchInv, Sweep, UNCHANGED roomVars
  PROVE  WatchInv'
<1>0. UNCHANGED <<escrow, deals, paper>>
  BY DEF roomVars
<1>1. ASSUME UNCHANGED board, step' \in Reading =>
               /\ \E lines, now : view' \in ViewOf(lines, now)
               /\ \A l \in Legs : IsTrue(l, view'.evidence[l])
      PROVE  WatchInv'
  BY <1>0, <1>1 DEF WatchInv, IsTrue, HasHappened
<1>2. CASE ReadOffers
  <2>1. view' \in ViewOf(offers, clock) /\ \A l \in Legs : view'.evidence[l] = NoEvidence
    BY <1>2 DEF ReadOffers, ViewOf, NoEvidence, EvidenceRead, Opened, Deal
  <2>2. \A l \in Legs : IsTrue(l, view'.evidence[l])
    BY <2>1 DEF IsTrue, NoEvidence
  <2> QED
    BY <1>1, <1>2, <2>1, <2>2 DEF ReadOffers, files
<1>3. ASSUME NEW leg \in Legs, ReadRoom(leg)
      PROVE  WatchInv'
  <2>1. step \in Reading /\ UNCHANGED board
    BY <1>3 DEF ReadRoom, Step, RoomStep, Reading, Legs, files
  <2>2. PICK lines, now : view \in ViewOf(lines, now)
    BY <2>1 DEF WatchInv
  <2>3. \/ view' = [view EXCEPT !.deals[leg] = deals[leg], !.fetched = @ \cup {leg}]
        \/ view' = view
    BY <1>3 DEF ReadRoom
  <2>4. deals[leg] \in Deal /\ NoEvidence \in EvidenceRead
    BY DEF WatchInv, NoEvidence, EvidenceRead
  <2>5. view' \in ViewOf(lines, now) /\ view'.evidence = view.evidence
    <3> DEFINE read == [view EXCEPT !.deals[leg] = deals[leg], !.fetched = @ \cup {leg}]
    <3>1. read \in ViewOf(lines, now) /\ read.evidence = view.evidence
      <4> DEFINE deal == deals[leg]
      <4>1. deal \in Deal
        BY <2>4
      <4> HIDE DEF deal
      <4>2. LET moved == [view EXCEPT !.deals[leg] = deal, !.fetched = @ \cup {leg}] IN
            moved \in ViewOf(lines, now) /\ moved.evidence = view.evidence
        BY <1>3, <2>2, <4>1 DEF ViewOf
      <4> QED
        BY <4>2 DEF deal
    <3>2. view' = read \/ view' = view
      BY <2>3
    <3> HIDE DEF read
    <3> QED
      BY <2>2, <3>1, <3>2
  <2> QED
    BY <1>1, <2>1, <2>5 DEF WatchInv
<1>4. ASSUME NEW leg \in Legs, Capture(leg)
      PROVE  WatchInv'
  <2>1. step \in Reading /\ UNCHANGED board
    BY <1>4 DEF Capture, Step, ChainStep, Reading, Legs, files
  <2>2. PICK lines, now : view \in ViewOf(lines, now)
    BY <2>1 DEF WatchInv
  <2>3. view' = [view EXCEPT !.evidence[leg] = Evidence(leg)] \/ view' = view
    BY <1>4 DEF Capture
  <2>4. deals[leg] \in Deal /\ Evidence(leg) \in EvidenceRead /\ IsTrue(leg, Evidence(leg))
    BY EvidenceIsTrue DEF WatchInv
  <2>5. view.evidence \in [Legs -> EvidenceRead]
    BY <2>2 DEF ViewOf
  <2>6. /\ view' \in ViewOf(lines, now)
        /\ view'.evidence = view.evidence \/ view'.evidence = [view.evidence EXCEPT ![leg] = Evidence(leg)]
    <3> DEFINE seen == [view EXCEPT !.evidence[leg] = Evidence(leg)]
    <3>1. /\ seen \in ViewOf(lines, now)
          /\ seen.evidence = [view.evidence EXCEPT ![leg] = Evidence(leg)]
      BY <2>2, <2>4, SeenMoves
    <3>2. view' = seen \/ view' = view
      BY <2>3
    <3> HIDE DEF seen
    <3> QED
      BY <2>2, <3>1, <3>2
  <2>7. \A l \in Legs : IsTrue(l, view'.evidence[l])
    BY <2>1, <2>4, <2>5, <2>6 DEF WatchInv
  <2> QED
    BY <1>1, <2>1, <2>6, <2>7
<1>5. CASE WriteBoard
  <2>1. board' \in {{}, {Folded}} /\ step = "board" /\ step' = "compare"
    BY <1>5 DEF WriteBoard, Step, After
  <2>2. \A e \in board' : HasHappened(e.status)
    BY <2>1, FoldedIsTrue
  <2> QED
    BY <1>0, <2>1, <2>2 DEF WatchInv, Reading, HasHappened
<1>6. CASE CompareState \/ AppendLines \/ MakeHit \/ SaveState \/ SweepEnds
  <2>1. step' \notin Reading /\ UNCHANGED board
    BY <1>6 DEF CompareState, AppendLines, MakeHit, SaveState, SweepEnds, Step, After, Reading, files
  <2> QED
    BY <1>1, <2>1
<1> QED
  BY <1>2, <1>3, <1>4, <1>5, <1>6 DEF Sweep

\* At first nothing is locked, read or said.
LEMMA WatchInitially == RoomsInit => WatchInv
<1> SUFFICES ASSUME RoomsInit PROVE WatchInv
  OBVIOUS
<1>1. step = "idle" /\ board = {}
  BY DEF RoomsInit, WatcherInit
<1>2. CASE Watched
  <2>1. \A l \in Legs : EscrowStages(l) \subseteq Lock
    <3>1. [state : {"none", "locked", "claimed", "refunded"}, ours : {TRUE}] \subseteq Lock
      BY DEF Lock
    <3>2. [state |-> "locked", ours |-> FALSE] \in Lock
      BY DEF Lock
    <3> QED
      BY <3>1, <3>2 DEF EscrowStages
  <2>2. \A l \in Legs : DealStages(l) \subseteq Deal
    BY DEF DealStages, Deal, Opened
  <2> QED
    BY <1>1, <1>2, <2>1, <2>2 DEF Watched, WatchInv, Reading
<1>3. CASE Unwatched
  <2>1. Opened \in Deal /\ NoLock \in Lock
    BY DEF Opened, Deal, NoLock, Lock
  <2> QED
    BY <1>1, <1>3, <2>1 DEF Unwatched, NewLegs, WatchInv, Reading
<1> QED
  BY <1>2, <1>3 DEF RoomsInit

\* What the board calls locked, settled or refunded has happened to the locks
\* of these contracts, although a sweep reads rooms and chains one after the
\* other and the parties go on meanwhile (foldSwap, sweepOnce).
THEOREM BoardIsTrue == RoomsSpec => []SettledIsTrue
<1>1. RoomsInit => WatchInv
  BY WatchInitially
<1>2. WatchInv /\ [RoomsNext]_allVars => WatchInv'
  <2> SUFFICES ASSUME WatchInv, [RoomsNext]_allVars PROVE WatchInv'
    OBVIOUS
  <2>1. CASE UNCHANGED <<roomVars, watcherVars>>
    <3>1. UNCHANGED <<escrow, deals, paper, watcherVars>>
      BY <2>1 DEF roomVars
    <3> QED
      BY <3>1, SameEscrow, PartiesKeepWatch DEF WatchInv
  <2> QED
    BY <2>1, EventKeepsWatch, SweepKeepsWatch DEF RoomsNext, allVars
<1>3. WatchInv => SettledIsTrue
  BY DEF WatchInv, HasHappened, SettledIsTrue
<1> QED
  BY <1>1, <1>2, <1>3, PTL DEF RoomsSpec

-----------------------------------------------------------------------------
(* Lines of others *)

\* The lines a room may get.
Lines == {SwapLines[k] : k \in 1..4} \cup OtherLines \cup {Accept("buyer", "B", "o")}

\* The first of some line numbers is one of them and the least.
LEMMA FirstIsLeast ==
  ASSUME NEW S \in SUBSET Nat, S # {}
  PROVE  First(S) \in S /\ \A i \in S : First(S) <= i
BY LeastExists DEF First

\* A line that is posted leaves the earlier ones as they are.
Extends(lines, line, more) ==
  /\ DOMAIN lines = 1..Len(lines) /\ Len(lines) \in Nat
  /\ DOMAIN more = 1..(Len(lines) + 1)
  /\ \A i \in DOMAIN lines : more[i] = lines[i]
  /\ more[Len(lines) + 1] = line /\ more[Len(more)] = line

\* A line that is posted is such an extension.
LEMMA PostExtends ==
  ASSUME NEW lines \in Seq(Lines), NEW line \in Lines
  PROVE  Extends(lines, line, Append(lines, line))
BY DEF Extends

\* The accepts of an offer stay; the new line may be another one.
LEMMA AcceptsExtend ==
  ASSUME NEW lines, NEW line, NEW more, Extends(lines, line, more), NEW id
  PROVE  /\ Accepts(lines, id) \subseteq DOMAIN lines
         /\ Accepts(more, id) \in {Accepts(lines, id), Accepts(lines, id) \cup {Len(lines) + 1}}
<1>1. \A i \in DOMAIN lines : i \in Accepts(more, id) <=> i \in Accepts(lines, id)
  <2> SUFFICES ASSUME NEW i \in DOMAIN lines
               PROVE  i \in Accepts(more, id) <=> i \in Accepts(lines, id)
    OBVIOUS
  <2>1. i \in DOMAIN more /\ more[i] = lines[i]
    BY DEF Extends
  <2>2. \A j : j \in OfferOf(more, id) /\ j < i <=> j \in OfferOf(lines, id) /\ j < i
    BY DEF OfferOf, Extends
  <2>3. \A j \in OfferOf(lines, id) : more[j] = lines[j]
    BY DEF OfferOf, Extends
  <2> QED
    BY <2>1, <2>2, <2>3 DEF Accepts
<1>2. Accepts(more, id) \subseteq 1..(Len(lines) + 1) /\ Accepts(lines, id) \subseteq DOMAIN lines
  BY DEF Accepts, Extends
<1>3. \A i \in 1..(Len(lines) + 1) : i \in DOMAIN lines \/ i = Len(lines) + 1
  BY DEF Extends
<1>4. Len(lines) + 1 \notin DOMAIN lines
  BY DEF Extends
<1> QED
  BY <1>1, <1>2, <1>3, <1>4

\* The accepts of all but the sender of the new line stay.
LEMMA OthersAccepts ==
  ASSUME NEW lines, NEW line, NEW more, Extends(lines, line, more), NEW id, NEW who,
         line.from # who
  PROVE  From(more, Accepts(more, id), who) = From(lines, Accepts(lines, id), who)
<1>1. /\ Accepts(lines, id) \subseteq DOMAIN lines
      /\ Accepts(more, id) \in {Accepts(lines, id), Accepts(lines, id) \cup {Len(lines) + 1}}
  BY AcceptsExtend
<1>2. /\ \A i \in DOMAIN lines : more[i] = lines[i]
      /\ more[Len(lines) + 1] = line
  BY DEF Extends
<1> QED
  BY <1>1, <1>2 DEF From

\* Those of its sender come after the others.
LEMMA FirstAccept ==
  ASSUME NEW lines, NEW line, NEW more, Extends(lines, line, more), NEW id, NEW who,
         From(lines, Accepts(lines, id), who) # {}
  PROVE  /\ First(From(more, Accepts(more, id), who)) = First(From(lines, Accepts(lines, id), who))
         /\ First(From(lines, Accepts(lines, id), who)) \in DOMAIN lines
<1> DEFINE old == From(lines, Accepts(lines, id), who)
           new == From(more, Accepts(more, id), who)
<1>1. /\ Accepts(lines, id) \subseteq DOMAIN lines
      /\ Accepts(more, id) \in {Accepts(lines, id), Accepts(lines, id) \cup {Len(lines) + 1}}
  BY AcceptsExtend
<1>2. \A i \in DOMAIN lines : more[i] = lines[i]
  BY DEF Extends
<1>3. old \subseteq DOMAIN lines /\ new \in {old, old \cup {Len(lines) + 1}}
  BY <1>1, <1>2 DEF From
<1>4. old # {}
  OBVIOUS
<1>5. DOMAIN lines = 1..Len(lines) /\ Len(lines) \in Nat
  BY DEF Extends
<1> HIDE DEF old, new
<1>6. First(old) \in old /\ \A i \in old : First(old) <= i
  <2>1. old \in SUBSET Nat
    BY <1>3, <1>5
  <2> QED
    BY <1>4, <2>1, FirstIsLeast
<1>7. First(new) \in new /\ \A i \in new : First(new) <= i
  <2>1. new \in SUBSET Nat /\ new # {}
    BY <1>3, <1>4, <1>5
  <2> QED
    BY <2>1, FirstIsLeast
<1>8. First(old) \in DOMAIN lines
  BY <1>3, <1>6
<1>9. First(new) = First(old)
  <2>1. First(old) \in new /\ First(new) <= First(old)
    BY <1>3, <1>6, <1>7
  <2>2. First(old) \in Nat /\ First(new) \in Nat /\ First(old) < Len(lines) + 1
    BY <1>3, <1>5, <1>7, <1>8
  <2>3. First(new) \in old
    BY <1>3, <1>7, <2>1, <2>2
  <2>4. First(old) <= First(new)
    BY <1>6, <2>3
  <2> QED
    BY <2>1, <2>2, <2>4
<1> QED
  BY <1>8, <1>9 DEF old, new

\* An id names an offer: lines of offers with one id are the same line.
LEMMA OneOfferOfAnId ==
  ASSUME NEW lines \in Seq(Lines), NEW line \in Lines, line.type = "offer"
  PROVE  \A i \in OfferOf(lines, line.id) : lines[i] = line
<1>1. \A l \in Lines : l.type = "offer" => l \in {OfferA, OfferB("seller"), OfferB("other")}
  <2>0. \A who, offer, statement : Accept(who, offer, statement).type = "accept"
    BY DEF Accept
  <2>1. \A k \in 1..4 : SwapLines[k] \in {OfferA, OfferB("seller")} \/ SwapLines[k].type = "accept"
    <3>1. /\ SwapLines[1] = OfferA /\ SwapLines[2] = Accept("seller", "A", "s")
          /\ SwapLines[3] = OfferB("seller") /\ SwapLines[4] = Accept("buyer", "B", "s")
      BY DEF SwapLines
    <3>2. \A k \in 1..4 : k \in {1, 2, 3, 4}
      OBVIOUS
    <3> QED
      BY <2>0, <3>1, <3>2
  <2>2. \A l \in OtherLines : l = OfferB("other") \/ l.type = "accept"
    BY <2>0 DEF OtherLines
  <2> QED
    BY <2>0, <2>1, <2>2 DEF Lines
<1>2. \A l, m \in {OfferA, OfferB("seller"), OfferB("other")} : l.id = m.id => l = m
  <2>1. OfferA.id = "A" /\ OfferB("seller").id = "B" /\ OfferB("other").id = "C"
    BY DEF OfferA, OfferB
  <2> QED
    BY <2>1
<1>3. \A i \in DOMAIN lines : lines[i] \in Lines
  OBVIOUS
<1> QED
  BY <1>1, <1>2, <1>3 DEF OfferOf

\* A leg B that crosses because of the new line is the last to do so, unless the
\* new line repeats the offer of one that crosses already.
LEMMA CrossingExtends ==
  ASSUME NEW lines \in Seq(Lines), NEW line \in Lines,
         NEW more, Extends(lines, line, more), line.from # "buyer"
  PROVE  /\ Crossing(lines) \subseteq Crossing(more) /\ Crossing(more) \subseteq DOMAIN more
         /\ \A b \in Crossing(lines) :
              /\ AcceptedAt(more, b) = AcceptedAt(lines, b)
              /\ AcceptedAt(lines, b) \in DOMAIN lines
         /\ \A b \in Crossing(more) \ Crossing(lines) :
              \/ b \in DOMAIN lines /\ AcceptedAt(more, b) = Len(lines) + 1
              \/ /\ b = Len(lines) + 1
                 /\ \E c \in Crossing(lines) : AcceptedAt(more, b) = AcceptedAt(lines, c)
<1>1. \A i \in DOMAIN lines : more[i] = lines[i]
  BY DEF Extends
<1>2. LegBs(lines) \subseteq DOMAIN lines /\ LegBs(lines) \subseteq LegBs(more)
  BY DEF LegBs, Extends
<1>3. \A b \in LegBs(more) : b \in LegBs(lines) \/ b = Len(lines) + 1
  BY DEF LegBs, Extends
<1>4. \A id : From(more, Accepts(more, id), "buyer") = From(lines, Accepts(lines, id), "buyer")
  BY OthersAccepts
<1>5. \A id, who : From(lines, Accepts(lines, id), who) \subseteq From(more, Accepts(more, id), who)
  BY <1>1, AcceptsExtend DEF From
<1>6. ASSUME NEW b \in Crossing(lines)
      PROVE  /\ b \in Crossing(more) /\ AcceptedAt(more, b) = AcceptedAt(lines, b)
             /\ AcceptedAt(lines, b) \in DOMAIN lines
  <2>1. /\ b \in LegBs(lines) /\ From(lines, Accepts(lines, "A"), lines[b].from) # {}
        /\ From(lines, Accepts(lines, lines[b].id), "buyer") # {}
    BY <1>6 DEF Crossing, ByAccepters
  <2>2. b \in LegBs(more) /\ more[b] = lines[b]
    BY <1>1, <1>2, <2>1
  <2>3. b \in Crossing(more)
    BY <1>4, <1>5, <2>1, <2>2 DEF Crossing, ByAccepters
  <2>4. /\ AcceptedAt(more, b) = AcceptedAt(lines, b)
        /\ AcceptedAt(lines, b) \in DOMAIN lines
    BY <2>1, <2>2, FirstAccept DEF AcceptedAt
  <2> QED
    BY <2>3, <2>4
<1>7. ASSUME NEW b \in Crossing(more) \ Crossing(lines)
      PROVE  \/ b \in DOMAIN lines /\ AcceptedAt(more, b) = Len(lines) + 1
             \/ /\ b = Len(lines) + 1
                /\ \E c \in Crossing(lines) : AcceptedAt(more, b) = AcceptedAt(lines, c)
  <2>1. /\ b \in LegBs(more) /\ From(more, Accepts(more, "A"), more[b].from) # {}
        /\ From(lines, Accepts(lines, more[b].id), "buyer") # {}
    BY <1>4, <1>7 DEF Crossing, ByAccepters
  <2>2. CASE b = Len(lines) + 1
    <3>1. more[b] = line /\ line.type = "offer" /\ line.ref = "A"
      BY <2>1, <2>2 DEF Extends, LegBs
    <3>2. PICK c \in OfferOf(lines, line.id) : TRUE
      BY <2>1, <3>1 DEF From, Accepts
    <3>3. c \in DOMAIN lines /\ lines[c] = line
      BY <3>1, OneOfferOfAnId DEF OfferOf
    <3>4. Accepts(more, "A") = Accepts(lines, "A")
      <4>1. b \notin Accepts(more, "A")
        BY <3>1 DEF Accepts
      <4> QED
        BY <2>2, <4>1, AcceptsExtend
    <3>5. From(more, Accepts(more, "A"), line.from) = From(lines, Accepts(lines, "A"), line.from)
      BY <1>1, <3>4, AcceptsExtend DEF From
    <3>6. c \in Crossing(lines)
      BY <2>1, <3>1, <3>3, <3>5 DEF Crossing, ByAccepters, LegBs
    <3>7. AcceptedAt(more, b) = AcceptedAt(lines, c)
      BY <3>1, <3>3, <3>5 DEF AcceptedAt
    <3> QED
      BY <2>2, <3>6, <3>7
  <2>3. CASE b # Len(lines) + 1
    <3>1. b \in LegBs(lines) /\ b \in DOMAIN lines /\ more[b] = lines[b]
      BY <1>1, <1>2, <1>3, <2>1, <2>3
    <3>2. From(lines, Accepts(lines, "A"), more[b].from) = {}
      BY <1>7, <2>1, <3>1 DEF Crossing, ByAccepters
    <3>3. From(more, Accepts(more, "A"), more[b].from) = {Len(lines) + 1}
      BY <1>1, <2>1, <3>2, AcceptsExtend DEF From
    <3>4. {Len(lines) + 1} \in SUBSET Nat
      BY DEF Extends
    <3>5. First({Len(lines) + 1}) = Len(lines) + 1
      BY <3>4, FirstIsLeast
    <3> QED
      BY <3>1, <3>3, <3>5 DEF AcceptedAt
  <2> QED
    BY <2>2, <2>3
<1>8. Crossing(more) \subseteq DOMAIN more
  BY DEF Crossing, ByAccepters, LegBs
<1> QED
  BY <1>6, <1>7, <1>8

\* A line of neither the Buyer nor the paired Seller leaves the pair.
LEMMA PairStays ==
  ASSUME NEW lines \in Seq(Lines), NEW line \in Lines,
         NEW more, Extends(lines, line, more), Crossing(lines) # {},
         line.from # "buyer", line.from # Pairing(lines).seller
  PROVE  Pairing(more) = Pairing(lines)
<1> DEFINE chosen(l) == {b \in Crossing(l) : \A c \in Crossing(l) : AcceptedAt(l, b) <= AcceptedAt(l, c)}
<1>1. /\ Crossing(lines) \subseteq Crossing(more) /\ Crossing(more) \subseteq DOMAIN more
      /\ \A b \in Crossing(lines) :
           /\ AcceptedAt(more, b) = AcceptedAt(lines, b)
           /\ AcceptedAt(lines, b) \in DOMAIN lines
      /\ \A b \in Crossing(more) \ Crossing(lines) :
           \/ b \in DOMAIN lines /\ AcceptedAt(more, b) = Len(lines) + 1
           \/ /\ b = Len(lines) + 1
              /\ \E c \in Crossing(lines) : AcceptedAt(more, b) = AcceptedAt(lines, c)
  BY CrossingExtends
<1>2. /\ DOMAIN lines = 1..Len(lines) /\ DOMAIN more = 1..(Len(lines) + 1) /\ Len(lines) \in Nat
      /\ \A i \in DOMAIN lines : more[i] = lines[i]
  BY DEF Extends
<1>a. Crossing(lines) \subseteq DOMAIN lines
  BY <1>2 DEF Crossing, ByAccepters, LegBs
<1>3. chosen(lines) \subseteq chosen(more) /\ chosen(more) \subseteq chosen(lines) \cup {Len(lines) + 1}
  <2>1. \A c \in Crossing(more) \ Crossing(lines) :
          \/ c \in DOMAIN lines /\ \A b \in Crossing(lines) : AcceptedAt(more, b) < AcceptedAt(more, c)
          \/ c = Len(lines) + 1 /\ \E b \in Crossing(lines) : AcceptedAt(more, b) = AcceptedAt(more, c)
    BY <1>1, <1>2
  <2>2. PICK d \in Crossing(lines) : TRUE
    OBVIOUS
  <2>3. \A b \in Crossing(more) : AcceptedAt(more, b) \in Nat
    BY <1>1, <1>2
  <2>4. ASSUME NEW b \in chosen(more), b # Len(lines) + 1 PROVE b \in chosen(lines)
    <3>1. b \in Crossing(lines)
      BY <1>1, <2>1, <2>2, <2>3, <2>4
    <3> QED
      BY <1>1, <2>4, <3>1
  <2>5. ASSUME NEW b \in chosen(lines) PROVE b \in chosen(more)
    <3>1. \A c \in Crossing(lines) : AcceptedAt(more, b) <= AcceptedAt(more, c)
      BY <1>1, <2>5
    <3>2. \A c \in Crossing(more) \ Crossing(lines) : AcceptedAt(more, b) <= AcceptedAt(more, c)
      BY <1>1, <2>1, <2>3, <2>5, <3>1
    <3> QED
      BY <1>1, <2>5, <3>1, <3>2
  <2> QED
    BY <2>4, <2>5
<1>4. chosen(lines) # {} /\ chosen(lines) \in SUBSET Nat
  <2> DEFINE times == {AcceptedAt(lines, b) : b \in Crossing(lines)}
  <2>1. times \in SUBSET Nat /\ times # {}
    BY <1>1, <1>2
  <2>2. PICK t \in times : \A u \in times : t <= u
    BY <2>1, LeastExists
  <2>3. PICK b \in Crossing(lines) : t = AcceptedAt(lines, b)
    BY <2>2
  <2>4. b \in chosen(lines)
    BY <2>2, <2>3
  <2> QED
    BY <1>2, <1>a, <2>4
<1> DEFINE b == First(chosen(lines))
<1>5. b \in chosen(lines) /\ First(chosen(more)) = b
  <2> DEFINE m == First(chosen(more))
  <2>1. b \in chosen(lines) /\ \A c \in chosen(lines) : b <= c
    BY <1>4, FirstIsLeast
  <2>2. m \in chosen(more) /\ \A c \in chosen(more) : m <= c
    <3>1. chosen(more) \in SUBSET Nat /\ chosen(more) # {}
      BY <1>2, <1>3, <1>4
    <3> HIDE DEF chosen
    <3> QED
      BY <3>1, FirstIsLeast
  <2>3. chosen(lines) \subseteq DOMAIN lines
    BY <1>a
  <2> HIDE DEF chosen, b, m
  <2>4. b \in DOMAIN lines /\ m <= b
    BY <1>3, <2>1, <2>2, <2>3
  <2>5. m \in chosen(lines)
    BY <1>2, <1>3, <2>2, <2>4
  <2>6. b <= m /\ b \in Nat /\ m \in Nat
    BY <1>2, <2>1, <2>3, <2>5
  <2> QED
    BY <2>1, <2>4, <2>6 DEF m
<1>6. b \in Crossing(lines) /\ b \in Crossing(more) /\ b \in DOMAIN lines /\ b # 0
  BY <1>1, <1>2, <1>5, <1>a
<1>7. AcceptedFirst(lines) = b /\ AcceptedFirst(more) = b
  BY <1>5 DEF AcceptedFirst
<1> HIDE DEF chosen, b
<1>8. LegBOf(lines) = b /\ LegBOf(more) = b
  <2>1. \A l : Crossing(l) # {} => LegBs(l) # {} /\ OfferOf(l, "A") # {} /\ Accepts(l, "A") # {}
    BY DEF Crossing, ByAccepters, From, Accepts
  <2> QED
    BY <1>6, <1>7, <2>1 DEF LegBOf
<1>9. more[b] = lines[b] /\ Pairing(lines).seller = lines[b].from
  BY <1>2, <1>6, <1>8 DEF Pairing
<1>10. /\ From(lines, Accepts(lines, "A"), lines[b].from) # {}
       /\ From(lines, Accepts(lines, lines[b].id), "buyer") # {}
  BY <1>6 DEF Crossing, ByAccepters
<1>11. ASSUME NEW offer, NEW who, line.from # who, From(lines, Accepts(lines, offer), who) # {}
       PROVE  ChooseAccept(more, offer, who) = ChooseAccept(lines, offer, who)
  <2>1. From(more, Accepts(more, offer), who) = From(lines, Accepts(lines, offer), who)
    BY <1>11, OthersAccepts
  <2>2. First(From(lines, Accepts(lines, offer), who)) \in DOMAIN lines
    BY <1>11, FirstAccept
  <2> QED
    BY <1>2, <1>11, <2>1, <2>2 DEF ChooseAccept
<1>12. /\ ChooseAccept(more, "A", lines[b].from) = ChooseAccept(lines, "A", lines[b].from)
       /\ ChooseAccept(more, lines[b].id, "buyer") = ChooseAccept(lines, lines[b].id, "buyer")
  BY <1>9, <1>10, <1>11
<1> QED
  BY <1>6, <1>8, <1>9, <1>12 DEF Pairing

\* The lines of the swap are a sequence of lines.
LEMMA SwapIsSeq == (\A k \in 1..4 : SwapLines[k] \in Lines) => SwapLines \in Seq(Lines)
<1> HAVE \A k \in 1..4 : SwapLines[k] \in Lines
<1>1. SwapLines[1] \in Lines /\ SwapLines[2] \in Lines /\ SwapLines[3] \in Lines /\ SwapLines[4] \in Lines
  OBVIOUS
<1> QED
  BY <1>1 DEF SwapLines

\* The offers room only grows, by one of the lines.
LEMMA OffersTyped ==
  /\ RoomsInit => offers \in Seq(Lines)
  /\ offers \in Seq(Lines) /\ [RoomsNext]_allVars =>
       /\ offers' \in Seq(Lines)
       /\ \/ offers' = offers
          \/ \E line \in Lines : offers' = Append(offers, line)
<1>1. DOMAIN SwapLines = 1..4 /\ Len(SwapLines) = 4 /\ \A k \in 1..4 : SwapLines[k] \in Lines
  BY DEF SwapLines, Lines
<1>2. ASSUME RoomsInit PROVE offers \in Seq(Lines)
  <2>1. SwapLines \in Seq(Lines)
    BY <1>1, SwapIsSeq
  <2>2. \A k \in 0..4 : SubSeq(SwapLines, 1, k) \in Seq(Lines)
    BY <1>1, <2>1
  <2>3. <<Accept("buyer", "B", "o")>> \in Seq(Lines)
    BY DEF Lines
  <2>4. SubSeq(SwapLines, 1, 3) \o <<Accept("buyer", "B", "o")>> \in Seq(Lines)
    <3>1. SubSeq(SwapLines, 1, 3) \in Seq(Lines)
      BY <2>2
    <3> QED
      BY <2>3, <3>1, ConcatProperties
  <2> QED
    <3>1. \A o \in Stages : o \in Seq(Lines)
      BY <2>2, <2>4 DEF Stages
    <3>2. offers \in Stages \/ offers = <<>>
      BY <1>2 DEF RoomsInit, Watched, Unwatched
    <3>3. <<>> \in Seq(Lines)
      OBVIOUS
    <3> QED
      BY <3>1, <3>2, <3>3, Zenon
<1>3. ASSUME offers \in Seq(Lines), [RoomsNext]_allVars
      PROVE  \/ offers' = offers
             \/ \E line \in Lines : offers' = Append(offers, line)
  <2>1. CASE \E line \in Lines : Post(line)
    BY <2>1 DEF Post
  <2>2. CASE \E l \in Legs : Frame(l) \/ Settle(l)
    BY <2>2 DEF Frame, Settle
  <2>3. CASE Tick
    BY <2>3 DEF Tick
  <2>4. CASE Event
    <3>1. Len(offers) < 4 => SwapLines[Len(offers) + 1] \in Lines
      BY <1>1, <1>3
    <3>2. offers # <<>> => offers[Len(offers)] \in Lines
      BY <1>3
    <3> QED
      BY <2>1, <2>2, <2>3, <2>4, <3>1, <3>2 DEF Event
  <2>5. CASE AnyLine
    BY <2>1, <2>5 DEF AnyLine, Lines
  <2>6. CASE UNCHANGED offers
    BY <2>6
  <2> QED
    BY <1>3, <2>4, <2>5, <2>6 DEF RoomsNext, allVars, roomVars
<1> QED
  BY <1>2, <1>3

\* Once a leg B crosses a leg A, no line of anyone but the Buyer and that leg
\* B's maker changes the pair or its contracts (buildBoard).
THEOREM StrangersLeaveThePair == RoomsSpec => StrangersDoNotRepair
<1>1. RoomsSpec => [](offers \in Seq(Lines))
  <2>1. RoomsInit => offers \in Seq(Lines)
    BY OffersTyped
  <2>2. offers \in Seq(Lines) /\ [RoomsNext]_allVars => (offers \in Seq(Lines))'
    BY OffersTyped
  <2> QED
    BY <2>1, <2>2, PTL DEF RoomsSpec
<1>2. ASSUME offers \in Seq(Lines), [RoomsNext]_allVars,
             offers' # offers, Crossing(offers) # {},
             offers'[Len(offers')].from \notin {"buyer", Pairing(offers).seller}
      PROVE  Pairing(offers') = Pairing(offers)
  <2>1. PICK line \in Lines : offers' = Append(offers, line)
    BY <1>2, OffersTyped
  <2>2. Extends(offers, line, offers')
    BY <1>2, <2>1, PostExtends
  <2>3. offers'[Len(offers')] = line
    BY <2>2 DEF Extends
  <2> QED
    BY <1>2, <2>1, <2>2, <2>3, PairStays
<1>3. offers \in Seq(Lines) /\ [RoomsNext]_allVars =>
        [/\ offers' # offers /\ Crossing(offers) # {}
         /\ offers'[Len(offers')].from \notin {"buyer", Pairing(offers).seller}
         => Pairing(offers') = Pairing(offers)]_allVars
  BY <1>2
<1> QED
  BY <1>1, <1>3, PTL DEF RoomsSpec, StrangersDoNotRepair
=============================================================================
