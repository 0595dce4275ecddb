----------------------------- MODULE FlowStore -----------------------------
(***************************************************************************)
(* One record of the FileFlowStore (src/client/flow-store.ts) under the    *)
(* journals that save it (FlowJournal.commit in src/client/flow-resume.ts).*)
(* A flow saves the record it last made durable with one update more, and  *)
(* the store compares before it swaps: a record is the set of the updates  *)
(* in it, an update is named by the token of the save that brought it.     *)
(*                                                                         *)
(* A save is a sequence of file operations, and those of other processes   *)
(* fall between any two of them.  The lock file is created empty and then  *)
(* written: lockFile.token tells the files apart, Raw what a reader sees.  *)
(* rm removes whatever file has the name at that time.  disk is the record *)
(* a power cut cannot take back.  A flow that lost its process is "gone",  *)
(* one whose save was refused is "locked" (by another holder) or "failed", *)
(* and is no more used until it is resumed from the store.                 *)
(*                                                                         *)
(* Transient read errors of the lock file, which the code retries, and the *)
(* checks of file names and headers are left out; a save that cannot go on *)
(* for such a reason throws (SaveThrows).                                  *)
(***************************************************************************)
EXTENDS Integers, FiniteSets

CONSTANTS
  Flows,          \* flow objects on the record
  Pids,           \* process ids
  PidOf,          \* [Flows -> Pids]: the process each flow runs in
  MaxProcesses,   \* how many processes use the record at once
  PromptBody,     \* a new lock file gets its body within LOCK_POLL_MS
  MaxWaits,       \* lockWaitMs / LOCK_POLL_MS
  MaxSaves,       \* bound on the saves
  MaxFaults,      \* bound on crashes, power cuts and failed operations
  NoLock

Tokens == 1..MaxSaves
LockFile == [pid : Pids, token : Tokens, written : BOOLEAN]

ASSUME StoreAssumption ==
  /\ PidOf \in [Flows -> Pids]
  /\ MaxProcesses \in Nat /\ MaxWaits \in Nat /\ MaxSaves \in Nat /\ MaxFaults \in Nat
  /\ PromptBody \in BOOLEAN
  /\ NoLock \notin LockFile

VARIABLES
  record, disk,   \* the record file, and what of it is durable
  temps,          \* the temp files, by the save that wrote them
  lockFile,
  alive,          \* the processes that run
  pc, cur,        \* each flow's next operation, and the record it last made durable
  tok, fate,      \* its save's token, and whether the save has succeeded
  seen, waits,    \* what it read in the lock file, and the polls it waited
  saves, faults,
  resolved        \* the saves that returned to their flow

flowVars == <<pc, cur, tok, fate, seen, waits>>
diskVars == <<record, disk, temps>>
vars == <<diskVars, lockFile, alive, flowVars, saves, faults, resolved>>

Nothing == -1
Unwritten == 0
Raw(file) == IF file.written THEN file.token ELSE Unwritten

Acquiring == {"create", "look", "break", "remove"}
Holding == {"body", "compare", "temp", "assert", "rename", "sync"}
Releasing == {"release", "unlock"}
Saving == Acquiring \cup Holding \cup Releasing

Init ==
  /\ record = {} /\ disk = {} /\ temps = {}
  /\ lockFile = NoLock
  /\ alive = {}
  /\ pc = [f \in Flows |-> "gone"]
  /\ cur = [f \in Flows |-> {}]
  /\ tok = [f \in Flows |-> 0]
  /\ fate = [f \in Flows |-> "throws"]
  /\ seen = [f \in Flows |-> Nothing]
  /\ waits = [f \in Flows |-> 0]
  /\ saves = 0 /\ faults = 0
  /\ resolved = {}

Go(f, from, to) == pc[f] = from /\ pc' = [pc EXCEPT ![f] = to]

MyLock(f) == [pid |-> PidOf[f], token |-> tok[f], written |-> TRUE]
Neighbours(f) == {g \in Flows : PidOf[g] = PidOf[f]}

\* A lock file that no save holds any more.
Leftover == lockFile # NoLock /\ \A g \in Flows : pc[g] \in Saving => tok[g] # lockFile.token

-----------------------------------------------------------------------------
(* Flows come and go. *)

\* FlowJournal.open: a flow of a new process, or the one that replaces a flow
\* whose save was refused, starts from the stored record.  A second process is
\* not started over a leftover lock (the README's exception).
Open(f) ==
  /\ pc[f] \in {"gone", "failed", "locked"}
  /\ \/ PidOf[f] \in alive \/ alive = {}
     \/ Cardinality(alive) < MaxProcesses /\ ~Leftover
  /\ alive' = alive \cup {PidOf[f]}
  /\ pc' = [pc EXCEPT ![f] = "idle"]
  /\ cur' = [cur EXCEPT ![f] = record]
  /\ UNCHANGED <<diskVars, lockFile, tok, fate, seen, waits, saves, faults, resolved>>

\* The flows' memory goes with their processes.
Lose(gone) ==
  /\ alive' = alive \ {PidOf[f] : f \in gone}
  /\ pc' = [f \in Flows |-> IF f \in gone THEN "gone" ELSE pc[f]]
  /\ cur' = [f \in Flows |-> IF f \in gone THEN {} ELSE cur[f]]
  /\ tok' = [f \in Flows |-> IF f \in gone THEN 0 ELSE tok[f]]

Crash(p) ==
  /\ p \in alive
  /\ faults < MaxFaults
  /\ faults' = faults + 1
  /\ Lose({f \in Flows : PidOf[f] = p})
  /\ UNCHANGED <<diskVars, lockFile, fate, seen, waits, saves, resolved>>

\* What was not synced may or may not be there afterwards.
PowerCut ==
  /\ faults < MaxFaults
  /\ faults' = faults + 1
  /\ Lose(Flows)
  /\ record' \in {record, disk}
  /\ disk' = record'
  /\ lockFile' \in {NoLock, lockFile} \cup
                   (IF lockFile = NoLock THEN {} ELSE {[lockFile EXCEPT !.written = FALSE]})
  /\ UNCHANGED <<temps, fate, seen, waits, saves, resolved>>

-----------------------------------------------------------------------------
(* acquireLock *)

\* Mutant: the token of the save before.
UsedToken == saves

\* Random bytes in the code.
FreshToken == saves + 1

\* A save enters the process's own queue (withProcessMutex) and comes up.
SaveBegin(f) ==
  /\ \A g \in Neighbours(f) : pc[g] \notin Saving
  /\ saves < MaxSaves
  /\ Go(f, "idle", "create")
  /\ saves' = saves + 1
  /\ tok' = [tok EXCEPT ![f] = FreshToken]
  /\ fate' = [fate EXCEPT ![f] = "throws"]
  /\ seen' = [seen EXCEPT ![f] = Nothing]
  /\ waits' = [waits EXCEPT ![f] = 0]
  /\ UNCHANGED <<diskVars, lockFile, alive, cur, faults, resolved>>

\* tryCreateLock: O_EXCL, then the body.
CreateLock(f) ==
  /\ IF lockFile = NoLock
     THEN /\ Go(f, "create", "body")
          /\ lockFile' = [MyLock(f) EXCEPT !.written = FALSE]
     ELSE Go(f, "create", "look") /\ UNCHANGED lockFile
  /\ UNCHANGED <<diskVars, alive, cur, tok, fate, seen, waits, saves, faults, resolved>>

\* Into the file that was created, which may have lost its name by now.
WriteBody(f) ==
  /\ Go(f, "body", "compare")
  /\ lockFile' = IF lockFile = [MyLock(f) EXCEPT !.written = FALSE] THEN MyLock(f) ELSE lockFile
  /\ UNCHANGED <<diskVars, alive, cur, tok, fate, seen, waits, saves, faults, resolved>>

\* Mutants: a lock that names this very process is taken for a live one, and
\* one without a body for one that is about to get it.
staleOther(f) ==
  IF ~lockFile.written THEN seen[f] = Unwritten ELSE lockFile.pid \notin alive

staleWritten(f) ==
  /\ lockFile.written
  /\ IF lockFile.pid = PidOf[f]
     THEN \A g \in Neighbours(f) : pc[g] \in Saving => tok[g] # lockFile.token
     ELSE lockFile.pid \notin alive

\* A lock without a body is stale when it is seen a second time, one with a
\* body when its process is gone or is this one and does not hold it.
stale(f) ==
  IF ~lockFile.written THEN seen[f] = Unwritten
  ELSE IF lockFile.pid = PidOf[f]
  THEN \A g \in Neighbours(f) : pc[g] \in Saving => tok[g] # lockFile.token
  ELSE lockFile.pid \notin alive

\* Another poll has passed since the empty file was seen.
PollPassed(f) ==
  PromptBody /\ seen[f] = Unwritten =>
    \A g \in Flows : pc[g] = "body" => lockFile # [MyLock(g) EXCEPT !.written = FALSE]

Look(f) ==
  /\ PollPassed(f)
  /\ \/ /\ lockFile = NoLock
        /\ Go(f, "look", "create")
        /\ UNCHANGED <<seen, waits>>
     \/ /\ lockFile # NoLock /\ stale(f)
        /\ Go(f, "look", "break")
        /\ seen' = [seen EXCEPT ![f] = Raw(lockFile)]
        /\ UNCHANGED waits
     \/ /\ lockFile # NoLock /\ ~stale(f)
        /\ lockFile.written => waits[f] < MaxWaits
        /\ Go(f, "look", "create")
        /\ seen' = [seen EXCEPT ![f] = IF lockFile.written THEN Nothing ELSE Unwritten]
        /\ waits' = [waits EXCEPT ![f] = IF @ < MaxWaits THEN @ + 1 ELSE @]
     \/ /\ lockFile # NoLock /\ ~stale(f)
        /\ lockFile.written /\ waits[f] = MaxWaits
        /\ Go(f, "look", "locked")
        /\ UNCHANGED <<seen, waits>>
  /\ UNCHANGED <<diskVars, lockFile, alive, cur, tok, fate, saves, faults, resolved>>

\* breakLock reads the file again and removes it only if it reads the same.
BreakLock(f) ==
  /\ Go(f, "break", IF lockFile # NoLock /\ Raw(lockFile) = seen[f] THEN "remove" ELSE "create")
  /\ seen' = [seen EXCEPT ![f] = Nothing]
  /\ UNCHANGED <<diskVars, lockFile, alive, cur, tok, fate, waits, saves, faults, resolved>>

RemoveLock(f) ==
  /\ Go(f, "remove", "create")
  /\ lockFile' = NoLock
  /\ UNCHANGED <<diskVars, alive, cur, tok, fate, seen, waits, saves, faults, resolved>>

-----------------------------------------------------------------------------
(* compare, write and release *)

Compare(f) ==
  /\ Go(f, "compare", IF record = cur[f] THEN "temp" ELSE "release")
  /\ UNCHANGED <<diskVars, lockFile, alive, cur, tok, fate, seen, waits, saves, faults, resolved>>

\* removeStaleTemps takes every temp file of the record; the new one is synced.
WriteTemp(f) ==
  /\ Go(f, "temp", "assert")
  /\ temps' = {tok[f]}
  /\ UNCHANGED <<record, disk, lockFile, alive, cur, tok, fate, seen, waits, saves, faults, resolved>>

\* The last look before the swap; a save that lost its lock removes its file.
AssertHeld(f) ==
  /\ IF lockFile = MyLock(f)
     THEN Go(f, "assert", "rename") /\ UNCHANGED temps
     ELSE Go(f, "assert", "release") /\ temps' = temps \ {tok[f]}
  /\ UNCHANGED <<record, disk, lockFile, alive, cur, tok, fate, seen, waits, saves, faults, resolved>>

\* renameOver, which fails if another save took the temp file for a stale one.
Rename(f) ==
  /\ IF tok[f] \in temps
     THEN Go(f, "rename", "sync") /\ record' = cur[f] \cup {tok[f]}
     ELSE Go(f, "rename", "release") /\ UNCHANGED record
  /\ temps' = temps \ {tok[f]}
  /\ UNCHANGED <<disk, lockFile, alive, cur, tok, fate, seen, waits, saves, faults, resolved>>

\* Mutant: the directory is not synced before the save resolves.
SyncDirectoryNot(f) ==
  /\ Go(f, "sync", "release")
  /\ fate' = [fate EXCEPT ![f] = "ok"]
  /\ UNCHANGED <<diskVars, lockFile, alive, cur, tok, seen, waits, saves, faults, resolved>>

SyncDirectory(f) ==
  /\ Go(f, "sync", "release")
  /\ disk' = record
  /\ fate' = [fate EXCEPT ![f] = "ok"]
  /\ UNCHANGED <<record, temps, lockFile, alive, cur, tok, seen, waits, saves, faults, resolved>>

\* What the flow learns when the store is through with its save: the record is
\* adopted, or the journal fails.
Returns(f, from) ==
  IF fate[f] = "ok"
  THEN /\ Go(f, from, "idle")
       /\ cur' = [cur EXCEPT ![f] = @ \cup {tok[f]}]
       /\ resolved' = resolved \cup {tok[f]}
  ELSE Go(f, from, "failed") /\ UNCHANGED <<cur, resolved>>

\* removeOwnLock reads the file, and removes it if it is this save's.
Release(f) ==
  /\ IF lockFile = MyLock(f)
     THEN Go(f, "release", "unlock") /\ UNCHANGED <<cur, resolved>>
     ELSE Returns(f, "release")
  /\ UNCHANGED <<diskVars, lockFile, alive, tok, fate, seen, waits, saves, faults>>

Unlock(f) ==
  /\ Returns(f, "unlock")
  /\ lockFile' = NoLock
  /\ UNCHANGED <<diskVars, alive, tok, fate, seen, waits, saves, faults>>

\* An operation fails.  The lock is released if it is held, and a lock file
\* that cannot be removed stays behind.
SaveThrows(f) ==
  /\ faults < MaxFaults
  /\ faults' = faults + 1
  /\ \/ /\ pc[f] \in Acquiring
        /\ pc' = [pc EXCEPT ![f] = "failed"]
        /\ UNCHANGED <<temps, lockFile, cur, resolved>>
     \/ /\ Go(f, "body", "failed")
        /\ lockFile' = NoLock
        /\ UNCHANGED <<temps, cur, resolved>>
     \/ /\ pc[f] \in Holding \ {"body"}
        /\ pc' = [pc EXCEPT ![f] = "release"]
        /\ temps' = temps \ {tok[f]}
        /\ UNCHANGED <<lockFile, cur, resolved>>
     \/ Returns(f, "unlock") /\ UNCHANGED <<temps, lockFile>>
  /\ UNCHANGED <<record, disk, alive, tok, fate, seen, waits, saves>>

-----------------------------------------------------------------------------
SaveStep(f) ==
  \/ CreateLock(f) \/ WriteBody(f) \/ Look(f) \/ BreakLock(f) \/ RemoveLock(f)
  \/ Compare(f) \/ WriteTemp(f) \/ AssertHeld(f) \/ Rename(f) \/ SyncDirectory(f)
  \/ Release(f) \/ Unlock(f)

Next ==
  \/ \E f \in Flows : Open(f) \/ SaveBegin(f) \/ SaveStep(f) \/ SaveThrows(f)
  \/ \E p \in Pids : Crash(p)
  \/ PowerCut

\* A process that runs takes the next step of its save.
Spec == Init /\ [][Next]_vars /\ \A f \in Flows : WF_vars(SaveStep(f))

-----------------------------------------------------------------------------
(* Properties *)

\* A save that resolved is in the record for good: no save of another flow
\* replaces it, no crash and no power cut takes it back (FileFlowStore.save is
\* a compare-and-swap that resolves once the bytes are durable).
NoSaveLost == resolved \subseteq record

\* A process that is alone with the record is never refused as locked: what a
\* predecessor left behind, under this process's own pid too, is broken
\* (acquireLock, R2-01).
LeftoverNeverRefuses ==
  [][\A f \in Flows : pc[f] = "look" /\ pc'[f] = "locked" => alive # {PidOf[f]}]_vars

\* A save ends, one way or the other (acquireLock's waits are bounded, an empty
\* lock file is broken at its second sight).
SaveEnds == \A f \in Flows : pc[f] \in Saving ~> pc[f] \notin Saving

=============================================================================
