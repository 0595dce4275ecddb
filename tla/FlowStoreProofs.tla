-------------------------- MODULE FlowStoreProofs ---------------------------
(***************************************************************************)
(* The directory of a flow's records (src/client/flow-store.ts): saves of  *)
(* several processes under one lock file, with crashes, power cuts and     *)
(* failed writes. What the lock is for holds for any number of flows and   *)
(* saves.                                                                  *)
(***************************************************************************)
EXTENDS FlowStore, FiniteSetTheorems, TLAPS

\* Where a flow can be: not running, between two saves, failed, refused by
\* another process's lock, or at a step of a save.
Places == {"gone", "idle", "failed", "locked"} \cup Saving

\* The type of every variable of the store (FileFlowStore in flow-store.ts).
StoreTypeOK ==
  /\ saves \in 0..MaxSaves /\ faults \in 0..MaxFaults
  /\ record \in SUBSET Tokens /\ disk \in SUBSET Tokens /\ temps \in SUBSET Tokens
  /\ resolved \in SUBSET Tokens
  /\ lockFile \in LockFile \cup {NoLock}
  /\ alive \in SUBSET Pids
  /\ pc \in [Flows -> Places]
  /\ cur \in [Flows -> SUBSET Tokens]
  /\ tok \in [Flows -> 0..MaxSaves]
  /\ fate \in [Flows -> {"ok", "throws"}]
  /\ seen \in [Flows -> Nat \cup {Nothing}]
  /\ waits \in [Flows -> 0..MaxWaits]

\* Only flows of running processes save, one at a time in each, and every save
\* has a token of its own.
TokenInv ==
  /\ alive \subseteq {PidOf[f] : f \in Flows}
  /\ lockFile # NoLock => lockFile.token <= saves
  /\ \A f \in Flows : pc[f] # "gone" => PidOf[f] \in alive
  /\ \A f \in Flows : pc[f] \in Saving => tok[f] \in 1..saves
  /\ \A f, g \in Flows : pc[f] \in Saving /\ pc[g] \in Saving /\ f # g
       => PidOf[f] # PidOf[g] /\ tok[f] # tok[g]

\* A save that has not taken the lock is not in the lock file.
AcquireInv ==
  \A f \in Flows : pc[f] \in Acquiring => lockFile = NoLock \/ lockFile.token # tok[f]

\* What holds for any number of processes and faults.
BaseInv == StoreTypeOK /\ TokenInv /\ AcquireInv

\* At most one process runs.
OneAlive == \A p, q \in alive : p = q

\* The processes that run are finitely many, and at most two where two may be.
AliveInv ==
  /\ IsFiniteSet(alive)
  /\ MaxProcesses <= 2 => \A p, q, r \in alive : p = q \/ q = r \/ p = r

\* A save that holds the lock has its own file there: empty until its body is
\* written, whole from then on.
HolderInv ==
  \A f \in Flows :
    /\ pc[f] = "body" => lockFile = [MyLock(f) EXCEPT !.written = FALSE]
    /\ pc[f] \in (Holding \ {"body"}) \cup Releasing => lockFile = MyLock(f)

\* A lock is left over only after a fault. Its process still runs and is named
\* in it, or no second process is left that could break it at the same time.
LeftoverInv ==
  Leftover => /\ faults > 0
              /\ (lockFile.written /\ lockFile.pid \in alive) \/ OneAlive

\* A save that is about to break a lock breaks a leftover one, and nobody else
\* is about to: the lock names its own process, or it is alone.
BreakInv ==
  \A f \in Flows : pc[f] \in {"break", "remove"} =>
    /\ Leftover
    /\ (lockFile.written /\ lockFile.pid = PidOf[f]) \/ OneAlive

\* Every save that returned is in the record, and in the one that outlives a
\* power cut. A save replaces the record it compared, and one that is to return
\* "ok" has written both.
RecordInv ==
  /\ resolved \subseteq record \cap disk
  /\ \A f \in Flows :
       /\ pc[f] \in {"temp", "assert", "rename"} => record = cur[f]
       /\ pc[f] = "sync" => tok[f] \in record
       /\ pc[f] \in Saving /\ fate[f] = "ok" => pc[f] \in Releasing /\ tok[f] \in record \cap disk

\* One save at a time holds the lock.
LockInv == AliveInv /\ HolderInv /\ LeftoverInv /\ BreakInv
\* The inductive invariant of the store.
StoreInv == BaseInv /\ LockInv /\ RecordInv

-----------------------------------------------------------------------------

\* The three parts of a save, and the places outside a save, have nothing in
\* common.
LEMMA PlacesDisjoint ==
  /\ Acquiring \cap Holding = {} /\ Acquiring \cap Releasing = {} /\ Holding \cap Releasing = {}
  /\ Saving \cap {"gone", "idle", "failed", "locked"} = {}
BY DEF Acquiring, Holding, Releasing, Saving

\* A lock file without a body names the same process and save.
LEMMA Emptied ==
  ASSUME NEW file \in LockFile
  PROVE  /\ [file EXCEPT !.written = FALSE] \in LockFile
         /\ [file EXCEPT !.written = FALSE].pid = file.pid
         /\ [file EXCEPT !.written = FALSE].token = file.token
         /\ ~[file EXCEPT !.written = FALSE].written
BY DEF LockFile

\* The lock file of a save that runs.
LEMMA LockOfSave ==
  ASSUME StoreTypeOK, TokenInv, NEW f \in Flows, pc[f] \in Saving
  PROVE  /\ MyLock(f) \in LockFile /\ [MyLock(f) EXCEPT !.written = FALSE] \in LockFile
         /\ MyLock(f).token = tok[f] /\ [MyLock(f) EXCEPT !.written = FALSE].token = tok[f]
         /\ MyLock(f).pid = PidOf[f] /\ [MyLock(f) EXCEPT !.written = FALSE].pid = PidOf[f]
         /\ MyLock(f).written /\ ~[MyLock(f) EXCEPT !.written = FALSE].written
         /\ tok[f] <= saves
<1>1. /\ MyLock(f) \in LockFile /\ MyLock(f).token = tok[f] /\ MyLock(f).pid = PidOf[f]
      /\ MyLock(f).written
  BY StoreAssumption DEF MyLock, LockFile, Tokens, StoreTypeOK, TokenInv
<1> QED
  BY <1>1, Emptied DEF TokenInv, StoreTypeOK

\* The store begins in BaseInv.
LEMMA BaseInitially == Init => BaseInv
BY StoreAssumption
   DEF Init, BaseInv, StoreTypeOK, TokenInv, AcquireInv, Places, Saving, Acquiring, Holding,
       Releasing, Tokens, Nothing

\* Every step of every process keeps BaseInv.
LEMMA BaseNext == BaseInv /\ [Next]_vars => BaseInv'
<1> SUFFICES ASSUME BaseInv, [Next]_vars PROVE BaseInv'
  OBVIOUS
<1> USE StoreAssumption DEF BaseInv, StoreTypeOK, TokenInv, AcquireInv
<1>1. ASSUME NEW f \in Flows, Open(f) PROVE BaseInv'
  BY <1>1 DEF Open, Places, Saving, Acquiring, Holding, Releasing, diskVars
<1>2. ASSUME NEW f \in Flows, SaveBegin(f) PROVE BaseInv'
  BY <1>2 DEF SaveBegin, Go, Neighbours, FreshToken, Places, Saving, Acquiring, Holding, Releasing, diskVars, Tokens, LockFile, Nothing
<1>3. ASSUME NEW f \in Flows, CreateLock(f) PROVE BaseInv'
  <2>1. pc[f] \in Saving
    BY <1>3 DEF CreateLock, Go, Saving, Acquiring
  <2>2. lockFile' \in {lockFile, [MyLock(f) EXCEPT !.written = FALSE]}
    BY <1>3 DEF CreateLock
  <2>3. lockFile' = lockFile \/ lockFile = NoLock
    BY <1>3 DEF CreateLock
  <2>4. lockFile' \in LockFile \cup {NoLock} /\ (lockFile' # NoLock => lockFile'.token <= saves)
    BY <2>1, <2>2, LockOfSave, ZenonT(60)
  <2>5. lockFile' = NoLock \/ lockFile'.token = tok[f] \/ lockFile' = lockFile
    BY <2>1, <2>2, LockOfSave
  <2>6. pc' = [pc EXCEPT ![f] = "body"] \/ (pc' = [pc EXCEPT ![f] = "look"] /\ lockFile' = lockFile)
    BY <1>3 DEF CreateLock, Go
  <2>7. StoreTypeOK'
    BY <1>3, <2>4, <2>6 DEF CreateLock, Places, Saving, Acquiring, Holding, diskVars
  <2>10. /\ \A g \in Flows : pc'[g] = pc[g] \/ g = f
         /\ pc'[f] \in Saving /\ pc'[f] # "gone" /\ (pc'[f] \in Acquiring => lockFile' = lockFile)
         /\ pc[f] # "gone" /\ pc[f] \in Acquiring
    BY <1>3, <2>6 DEF CreateLock, Go, Saving, Acquiring, Holding, Releasing
  <2>8. TokenInv'
    BY <1>3, <2>1, <2>4, <2>10 DEF CreateLock
  <2>9. AcquireInv'
    BY <1>3, <2>1, <2>5, <2>10 DEF CreateLock, Saving
  <2> QED
    BY <2>7, <2>8, <2>9
<1>4. ASSUME NEW f \in Flows, WriteBody(f) PROVE BaseInv'
  <2>1. pc[f] = "body" /\ pc' = [pc EXCEPT ![f] = "compare"] /\ pc[f] \in Saving
    BY <1>4 DEF WriteBody, Go, Saving, Holding
  <2>2. lockFile' = lockFile \/ (lockFile' = MyLock(f) /\ lockFile = [MyLock(f) EXCEPT !.written = FALSE])
    BY <1>4 DEF WriteBody
  <2>3. lockFile' \in LockFile \cup {NoLock}
    BY <2>1, <2>2, LockOfSave
  <2>4. lockFile' = lockFile \/ (lockFile'.token = lockFile.token /\ lockFile # NoLock)
    <3>1. /\ [MyLock(f) EXCEPT !.written = FALSE] \in LockFile
          /\ [MyLock(f) EXCEPT !.written = FALSE].token = MyLock(f).token
      BY <2>1, LockOfSave
    <3> QED
      BY <2>2, <3>1, StoreAssumption
  <2> QED
    BY <1>4, <2>1, <2>3, <2>4 DEF WriteBody, Places, Saving, Acquiring, Holding, Releasing, diskVars
<1>5. ASSUME NEW f \in Flows, Look(f) PROVE BaseInv'
  BY <1>5 DEF Look, Go, Raw, Unwritten, Nothing, Places, Saving, Acquiring, Holding, Releasing, diskVars, Tokens, LockFile
<1>6. ASSUME NEW f \in Flows, BreakLock(f) PROVE BaseInv'
  BY <1>6 DEF BreakLock, Go, Nothing, Places, Saving, Acquiring, Holding, Releasing, diskVars
<1>7. ASSUME NEW f \in Flows, RemoveLock(f) PROVE BaseInv'
  BY <1>7 DEF RemoveLock, Go, Places, Saving, Acquiring, Holding, Releasing, diskVars
<1>8. ASSUME NEW f \in Flows, Compare(f) PROVE BaseInv'
  BY <1>8 DEF Compare, Go, Places, Saving, Acquiring, Holding, Releasing, diskVars
<1>9. ASSUME NEW f \in Flows, WriteTemp(f) PROVE BaseInv'
  BY <1>9 DEF WriteTemp, Go, Places, Saving, Acquiring, Holding, Releasing, diskVars, Tokens
<1>10. ASSUME NEW f \in Flows, AssertHeld(f) PROVE BaseInv'
  BY <1>10 DEF AssertHeld, Go, Places, Saving, Acquiring, Holding, Releasing, diskVars, Tokens
<1>11. ASSUME NEW f \in Flows, Rename(f) PROVE BaseInv'
  BY <1>11 DEF Rename, Go, Places, Saving, Acquiring, Holding, Releasing, diskVars, Tokens
<1>12. ASSUME NEW f \in Flows, SyncDirectory(f) PROVE BaseInv'
  BY <1>12 DEF SyncDirectory, Go, Places, Saving, Acquiring, Holding, Releasing, diskVars, Tokens
<1>13. ASSUME NEW f \in Flows, Release(f) PROVE BaseInv'
  BY <1>13 DEF Release, Returns, Go, Places, Saving, Acquiring, Holding, Releasing, diskVars, Tokens
<1>14. ASSUME NEW f \in Flows, Unlock(f) PROVE BaseInv'
  BY <1>14 DEF Unlock, Returns, Go, Places, Saving, Acquiring, Holding, Releasing, diskVars, Tokens
<1>15. ASSUME NEW f \in Flows, SaveThrows(f) PROVE BaseInv'
  <2>1. /\ pc'[f] \notin Acquiring /\ pc' \in [Flows -> Places]
        /\ \A g \in Flows : g # f => pc'[g] = pc[g]
        /\ pc[f] \in Saving /\ pc[f] # "gone"
    BY <1>15 DEF SaveThrows, Returns, Go, Places, Saving, Acquiring, Holding, Releasing
  <2>2. /\ lockFile' \in {lockFile, NoLock} /\ faults' \in 0..MaxFaults
        /\ UNCHANGED <<record, disk, alive, tok, fate, seen, waits, saves>>
    BY <1>15 DEF SaveThrows
  <2>3. temps' \in SUBSET Tokens
    BY <1>15 DEF SaveThrows
  <2>4. cur' \in [Flows -> SUBSET Tokens] /\ resolved' \in SUBSET Tokens
    BY <1>15 DEF SaveThrows, Returns, Go, Saving, Releasing, Tokens
  <2>5. StoreTypeOK'
    BY <2>1, <2>2, <2>3, <2>4
  <2>6. TokenInv'
    BY <2>1, <2>2
  <2>7. AcquireInv'
    BY <2>1, <2>2 DEF Saving
  <2> QED
    BY <2>5, <2>6, <2>7
<1>16. ASSUME NEW p \in Pids, Crash(p) PROVE BaseInv'
  BY <1>16 DEF Crash, Lose, Places, Saving, Acquiring, Holding, Releasing, diskVars, Tokens
<1>17. CASE PowerCut
  <2>1. lockFile # NoLock => lockFile \in LockFile
    OBVIOUS
  <2>2. lockFile' \in LockFile \cup {NoLock} /\ (lockFile' # NoLock => lockFile # NoLock /\ lockFile'.token = lockFile.token)
    BY <1>17, <2>1, Emptied DEF PowerCut
  <2>3. /\ alive' = {} /\ pc' = [f \in Flows |-> "gone"]
        /\ cur' = [f \in Flows |-> {}] /\ tok' = [f \in Flows |-> 0]
    BY <1>17 DEF PowerCut, Lose
  <2> QED
    BY <1>17, <2>2, <2>3 DEF PowerCut, Places, Saving, Acquiring, Holding, Releasing, Tokens
<1>18. CASE UNCHANGED vars
  BY <1>18 DEF vars, diskVars, flowVars
<1> QED
  BY <1>1, <1>2, <1>3, <1>4, <1>5, <1>6, <1>7, <1>8, <1>9, <1>10, <1>11, <1>12, <1>13, <1>14,
     <1>15, <1>16, <1>17, <1>18 DEF Next, SaveStep

\* The state of the store keeps its type, for any number of flows, processes
\* and faults (FileFlowStore.save, acquireLock, releaseLock).
THEOREM StoreTypeCorrect == Spec => []StoreTypeOK
<1>1. Spec => []BaseInv
  BY BaseInitially, BaseNext, PTL DEF Spec
<1>2. BaseInv => StoreTypeOK
  BY DEF BaseInv
<1> QED
  BY <1>1, <1>2, PTL

\* A lock that no running process holds never refuses a save of the only
\* process there is: acquireLock breaks it, for any number of processes and
\* faults.
THEOREM LeftoverIsBroken == Spec => LeftoverNeverRefuses
<1>1. Spec => []BaseInv
  BY BaseInitially, BaseNext, PTL DEF Spec
<1> DEFINE Refuses == \A f \in Flows : pc[f] = "look" /\ pc'[f] = "locked" => alive # {PidOf[f]}
<1>2. BaseInv /\ [Next]_vars => [Refuses]_vars
  <2> SUFFICES ASSUME BaseInv, Next, NEW f \in Flows, pc[f] = "look", pc'[f] = "locked",
                      alive = {PidOf[f]}
               PROVE  FALSE
    BY DEF vars
  <2>1. Look(f)
    <3>1. ASSUME NEW g \in Flows, Open(g) \/ SaveBegin(g) PROVE FALSE
      BY <3>1 DEF Open, SaveBegin, Go, BaseInv, StoreTypeOK
    <3>2. ASSUME NEW g \in Flows, SaveThrows(g) PROVE FALSE
      BY <3>2 DEF SaveThrows, Returns, Go, BaseInv, StoreTypeOK
    <3>3. ASSUME NEW p \in Pids, Crash(p) PROVE FALSE
      BY <3>3 DEF Crash, Lose
    <3>4. ASSUME PowerCut PROVE FALSE
      BY <3>4 DEF PowerCut, Lose
    <3>5. ASSUME NEW g \in Flows, SaveStep(g), ~Look(f) PROVE FALSE
      <4>1. CASE Release(g) \/ Unlock(g)
        BY <4>1 DEF Release, Unlock, Returns, Go, BaseInv, StoreTypeOK
      <4>2. CASE Look(g)
        BY <4>2, <3>5 DEF Look, Go, BaseInv, StoreTypeOK
      <4>3. CASE CreateLock(g) \/ WriteBody(g) \/ BreakLock(g) \/ RemoveLock(g)
        BY <4>3 DEF CreateLock, WriteBody, BreakLock, RemoveLock, Go, BaseInv, StoreTypeOK
      <4>4. CASE Compare(g) \/ WriteTemp(g) \/ AssertHeld(g) \/ Rename(g) \/ SyncDirectory(g)
        BY <4>4 DEF Compare, WriteTemp, AssertHeld, Rename, SyncDirectory, Go, BaseInv, StoreTypeOK
      <4> QED
        BY <3>5, <4>1, <4>2, <4>3, <4>4 DEF SaveStep
    <3> QED
      BY <3>1, <3>2, <3>3, <3>4, <3>5 DEF Next
  <2>2. lockFile # NoLock /\ ~stale(f) /\ lockFile.written
    BY <2>1 DEF Look, Go, BaseInv, StoreTypeOK
  <2>3. lockFile.pid = PidOf[f]
    BY <2>2 DEF stale
  <2>4. PICK g \in Neighbours(f) : pc[g] \in Saving /\ tok[g] = lockFile.token
    BY <2>2, <2>3 DEF stale
  <2>5. g = f
    BY <2>4 DEF Neighbours, BaseInv, TokenInv, Saving, Acquiring
  <2> QED
    BY <2>2, <2>4, <2>5 DEF BaseInv, AcquireInv, Acquiring
<1>3. LeftoverNeverRefuses <=> [][Refuses]_vars
  BY DEF LeftoverNeverRefuses
<1> QED
  BY <1>1, <1>2, <1>3, PTL DEF Spec

-----------------------------------------------------------------------------

\* One live process per record, as the repository's README asks (README.md, One
\* process per swap), or a second one but no fault; and a lock file that gets
\* its body within a poll. The model keeps a second process from starting over
\* a leftover lock. With three processes one crash leaves two live ones that
\* meet it: the window that README names, where a save can be lost.
ReadmeRule == PromptBody /\ (MaxProcesses <= 2 \/ MaxFaults = 0)

\* A save that holds the lock is the one in the lock file.
LEMMA HolderIsNamed ==
  ASSUME BaseInv, HolderInv, NEW f \in Flows, pc[f] \in Holding \cup Releasing
  PROVE  /\ lockFile # NoLock /\ lockFile.token = tok[f] /\ lockFile.pid = PidOf[f]
         /\ ~Leftover /\ PidOf[f] \in alive
         /\ lockFile.written <=> pc[f] # "body"
<1>1. pc[f] \in Saving /\ pc[f] # "gone"
  BY DEF Saving, Holding, Releasing
<1>2. CASE pc[f] = "body"
  <2>1. lockFile = [MyLock(f) EXCEPT !.written = FALSE]
    BY <1>2 DEF HolderInv
  <2>2. lockFile \in LockFile /\ lockFile.token = tok[f] /\ lockFile.pid = PidOf[f] /\ ~lockFile.written
    BY <2>1, <1>1, LockOfSave DEF BaseInv
  <2> QED
    BY <1>1, <1>2, <2>2, StoreAssumption DEF BaseInv, TokenInv, Leftover
<1>3. CASE pc[f] # "body"
  <2>1. lockFile = MyLock(f)
    BY <1>3 DEF HolderInv
  <2>2. lockFile \in LockFile /\ lockFile.token = tok[f] /\ lockFile.pid = PidOf[f] /\ lockFile.written
    BY <2>1, <1>1, LockOfSave DEF BaseInv
  <2> QED
    BY <1>1, <1>3, <2>2, StoreAssumption DEF BaseInv, TokenInv, Leftover
<1> QED
  BY <1>2, <1>3

\* The save that is in the lock file is the one that holds it.
LEMMA OneHolder ==
  ASSUME BaseInv, HolderInv, NEW f \in Flows, NEW g \in Flows,
         pc[f] \in Holding \cup Releasing, pc[g] \in Saving, lockFile.token = tok[g]
  PROVE  f = g
BY HolderIsNamed DEF BaseInv, TokenInv, Saving

\* The store begins with no lock, and with a record that has all that is
\* resolved.
LEMMA LockInitially == Init => LockInv /\ RecordInv
BY FS_EmptySet
   DEF Init, LockInv, AliveInv, HolderInv, LeftoverInv, BreakInv, RecordInv, Leftover,
       Saving, Acquiring, Holding, Releasing

\* Fewer than two processes are one at most.
LEMMA FewAlive ==
  ASSUME IsFiniteSet(alive), Cardinality(alive) < 2
  PROVE  OneAlive
<1>1. Cardinality(alive) \in Nat
  BY FS_CardinalityType
<1>2. CASE Cardinality(alive) = 0
  BY <1>2, FS_EmptySet DEF OneAlive
<1>3. CASE Cardinality(alive) = 1
  BY <1>3, FS_Singleton DEF OneAlive
<1> QED
  BY <1>1, <1>2, <1>3

\* A flow that is opened takes no lock.
LEMMA OpenKeepsLock ==
  ASSUME BaseInv, LockInv, NEW f \in Flows, Open(f)
  PROVE  LockInv'
<1> USE DEF BaseInv, StoreTypeOK, TokenInv, LockInv
<1>1. /\ alive' = alive \cup {PidOf[f]} /\ UNCHANGED <<lockFile, tok, faults>>
      /\ pc' = [pc EXCEPT ![f] = "idle"] /\ pc[f] \notin Saving
  BY DEF Open, Saving, Acquiring, Holding, Releasing
<1>2. \A g \in Flows : IF g = f THEN pc[g] \notin Saving /\ pc'[g] \notin Saving ELSE pc'[g] = pc[g]
  BY <1>1 DEF Saving, Acquiring, Holding, Releasing
<1>3. Leftover' <=> Leftover
  BY <1>1, <1>2 DEF Leftover
<1>4. \/ PidOf[f] \in alive \/ alive = {}
      \/ Cardinality(alive) < MaxProcesses /\ ~Leftover
  BY DEF Open
<1>5. Leftover => alive' = alive \/ (alive = {} /\ alive' = {PidOf[f]})
  BY <1>1, <1>4
<1>6. AliveInv'
  <2>1. IsFiniteSet(alive')
    BY <1>1, FS_AddElement DEF AliveInv
  <2>2. CASE PidOf[f] \in alive \/ alive = {}
    BY <2>1, <2>2, <1>1 DEF AliveInv
  <2>3. CASE Cardinality(alive) < MaxProcesses
    <3> SUFFICES ASSUME MaxProcesses <= 2 PROVE OneAlive
      BY <2>1, <1>1 DEF AliveInv, OneAlive
    <3> QED
      BY <2>3, FewAlive, FS_CardinalityType, StoreAssumption DEF AliveInv
  <2> QED
    BY <1>4, <2>2, <2>3
<1>7. HolderInv'
  BY <1>1, <1>2 DEF HolderInv, MyLock, Saving
<1>8. LeftoverInv'
  BY <1>1, <1>3, <1>5 DEF LeftoverInv, OneAlive
<1>9. BreakInv'
  <2> SUFFICES ASSUME NEW g \in Flows, pc'[g] \in {"break", "remove"}
               PROVE  Leftover' /\ ((lockFile.written /\ lockFile.pid = PidOf[g]) \/ OneAlive')
    BY <1>1 DEF BreakInv
  <2>1. pc[g] \in {"break", "remove"} /\ PidOf[g] \in alive
    BY <1>2 DEF Saving, Acquiring
  <2> QED
    BY <2>1, <1>3, <1>5 DEF BreakInv, OneAlive
<1> QED
  BY <1>6, <1>7, <1>8, <1>9

\* A process that crashes leaves its lock behind, and no more than one other
\* process running.
LEMMA CrashKeepsLock ==
  ASSUME ReadmeRule, BaseInv, LockInv, NEW p \in Pids, Crash(p)
  PROVE  LockInv'
<1> USE DEF BaseInv, StoreTypeOK, TokenInv, LockInv
<1>1. /\ alive' \subseteq alive /\ p \notin alive' /\ p \in alive
      /\ UNCHANGED lockFile /\ faults' > 0 /\ MaxFaults # 0
      /\ \A f \in Flows : IF PidOf[f] = p THEN pc'[f] = "gone"
                          ELSE pc'[f] = pc[f] /\ tok'[f] = tok[f]
  BY StoreAssumption DEF Crash, Lose
<1>2. AliveInv'
  BY <1>1, FS_Subset DEF AliveInv
<1>3. OneAlive'
  BY <1>1 DEF OneAlive, AliveInv, ReadmeRule
<1>4. HolderInv'
  BY <1>1 DEF HolderInv, MyLock, Holding, Releasing
<1>5. Leftover => Leftover'
  BY <1>1 DEF Leftover, Saving, Acquiring, Holding, Releasing
<1>6. LeftoverInv'
  BY <1>1, <1>3 DEF LeftoverInv
<1>7. BreakInv'
  BY <1>1, <1>3, <1>5 DEF BreakInv
<1> QED
  BY <1>2, <1>4, <1>6, <1>7

\* After a power cut nothing runs; at most a lock is left over.
LEMMA PowerCutKeepsLock ==
  ASSUME BaseInv, LockInv, PowerCut
  PROVE  LockInv'
<1> USE DEF BaseInv, StoreTypeOK, TokenInv, LockInv
<1>1. alive' = {} /\ faults' > 0 /\ \A f \in Flows : pc'[f] = "gone"
  BY DEF PowerCut, Lose
<1>2. AliveInv' /\ OneAlive'
  BY <1>1, FS_EmptySet DEF AliveInv, OneAlive
<1> QED
  BY <1>1, <1>2 DEF HolderInv, LeftoverInv, BreakInv, Holding, Releasing

\* The other steps leave the processes as they are.  A step of one save that
\* moves nothing but its own place cannot disturb the others.
LEMMA QuietKeepsLock ==
  ASSUME BaseInv, LockInv, NEW f \in Flows, UNCHANGED <<lockFile, alive, tok>>,
         faults' = faults \/ faults' > 0,
         \A g \in Flows : g # f => pc'[g] = pc[g],
         pc'[f] \in Saving <=> pc[f] \in Saving,
         \/ pc'[f] \in Acquiring \ {"break", "remove"} \/ pc'[f] \notin Saving
         \/ pc[f] \in Holding \cup Releasing /\ pc[f] # "body" /\ pc'[f] # "body"
            /\ pc'[f] \in Holding \cup Releasing
  PROVE  LockInv'
<1> USE DEF LockInv
<1>1. AliveInv'
  BY DEF AliveInv
<1>2. HolderInv'
  BY DEF HolderInv, MyLock, Saving, Acquiring, Holding, Releasing
<1>3. Leftover' <=> Leftover
  BY DEF Leftover
<1>4. LeftoverInv'
  BY <1>3 DEF LeftoverInv, OneAlive, BaseInv, StoreTypeOK
<1>5. BreakInv'
  BY <1>3 DEF BreakInv, OneAlive, Saving, Acquiring, Holding, Releasing
<1> QED
  BY <1>1, <1>2, <1>4, <1>5

\* A save whose place says that it does not hold the lock leaves a leftover one
\* when it ends, and no more than there was.
LEMMA LeavingKeepsLock ==
  ASSUME BaseInv, LockInv, NEW f \in Flows, UNCHANGED <<lockFile, alive, tok>>,
         faults' = faults \/ faults' > 0,
         \A g \in Flows : g # f => pc'[g] = pc[g],
         pc[f] \in Acquiring, pc'[f] \notin Saving
  PROVE  LockInv'
<1> USE DEF LockInv
<1>1. AliveInv'
  BY DEF AliveInv
<1>2. HolderInv'
  BY DEF HolderInv, MyLock, Saving, Acquiring, Holding, Releasing
<1>3. lockFile # NoLock => lockFile.token # tok[f]
  BY DEF BaseInv, AcquireInv
<1>4. Leftover' <=> Leftover
  BY <1>3 DEF Leftover, Saving
<1>5. LeftoverInv'
  BY <1>4 DEF LeftoverInv, OneAlive, BaseInv, StoreTypeOK
<1>6. BreakInv'
  BY <1>4 DEF BreakInv, OneAlive, Saving, Acquiring, Holding, Releasing
<1> QED
  BY <1>1, <1>2, <1>5, <1>6

\* A save that begins has a token that is not in the lock file.
LEMMA BeginKeepsLock ==
  ASSUME BaseInv, LockInv, NEW f \in Flows, SaveBegin(f)
  PROVE  LockInv'
<1> USE DEF LockInv, BaseInv, StoreTypeOK, TokenInv
<1>1. /\ UNCHANGED <<lockFile, alive, faults>> /\ pc[f] = "idle" /\ pc'[f] = "create"
      /\ tok'[f] = saves + 1
      /\ \A g \in Flows : g # f => pc'[g] = pc[g] /\ tok'[g] = tok[g]
  BY DEF SaveBegin, Go, FreshToken
<1>2. AliveInv'
  BY <1>1 DEF AliveInv
<1>3. HolderInv'
  BY <1>1 DEF HolderInv, MyLock, Holding, Releasing
<1>4. lockFile # NoLock => lockFile.token # tok'[f]
  BY <1>1, StoreAssumption DEF LockFile, Tokens
<1>5. Leftover' <=> Leftover
  BY <1>1, <1>4 DEF Leftover, Saving, Acquiring, Holding, Releasing
<1>6. LeftoverInv'
  BY <1>1, <1>5 DEF LeftoverInv, OneAlive
<1>7. BreakInv'
  BY <1>1, <1>5 DEF BreakInv, OneAlive
<1> QED
  BY <1>2, <1>3, <1>6, <1>7

\* A lock file is made where there is none.
LEMMA CreateKeepsLock ==
  ASSUME BaseInv, LockInv, NEW f \in Flows, CreateLock(f)
  PROVE  LockInv'
<1>1. pc[f] = "create" /\ pc[f] \in Saving
  BY DEF CreateLock, Go, Saving, Acquiring
<1>2. CASE lockFile # NoLock
  <2>1. UNCHANGED <<lockFile, alive, tok, faults>> /\ pc'[f] = "look" /\ \A g \in Flows : g # f => pc'[g] = pc[g]
    BY <1>2 DEF CreateLock, Go, BaseInv, StoreTypeOK
  <2> QED
    BY <1>1, <2>1, QuietKeepsLock DEF Saving, Acquiring
<1>3. CASE lockFile = NoLock
  <2>1. /\ UNCHANGED <<alive, tok, faults>> /\ pc'[f] = "body"
        /\ \A g \in Flows : g # f => pc'[g] = pc[g]
        /\ lockFile' = [MyLock(f) EXCEPT !.written = FALSE]
    BY <1>3 DEF CreateLock, Go, BaseInv, StoreTypeOK
  <2>2. lockFile'.token = tok[f]
    BY <1>1, <2>1, LockOfSave DEF BaseInv
  <2>3. \A g \in Flows : pc[g] \notin Holding \cup Releasing /\ pc[g] \notin {"break", "remove"}
    BY <1>3, HolderIsNamed DEF LockInv, BreakInv, Leftover
  <2>4. ~Leftover'
    BY <2>1, <2>2 DEF Leftover, Saving, Holding
  <2>5. HolderInv'
    BY <2>1, <2>3 DEF HolderInv, MyLock, Holding, Releasing
  <2>6. BreakInv'
    BY <2>1, <2>3 DEF BreakInv
  <2>7. AliveInv'
    BY <2>1 DEF LockInv, AliveInv
  <2> QED
    BY <2>4, <2>5, <2>6, <2>7 DEF LockInv, LeftoverInv
<1> QED
  BY <1>2, <1>3

\* The body of a lock file is written by the save that made the file.
LEMMA BodyKeepsLock ==
  ASSUME BaseInv, LockInv, NEW f \in Flows, WriteBody(f)
  PROVE  LockInv'
<1>1. pc[f] = "body" /\ pc[f] \in Saving /\ pc[f] \in Holding \cup Releasing
  BY DEF WriteBody, Go, Saving, Holding
<1>2. lockFile = [MyLock(f) EXCEPT !.written = FALSE]
  BY <1>1 DEF LockInv, HolderInv
<1>3. /\ UNCHANGED <<alive, tok, faults>> /\ pc'[f] = "compare"
      /\ \A g \in Flows : g # f => pc'[g] = pc[g]
      /\ lockFile' = MyLock(f)
  BY <1>2 DEF WriteBody, Go, BaseInv, StoreTypeOK
<1>4. lockFile'.token = tok[f]
  BY <1>1, <1>3, LockOfSave DEF BaseInv
<1>5. ~Leftover
  BY <1>1, HolderIsNamed DEF LockInv
<1>6. \A g \in Flows : g # f => pc[g] \notin Holding \cup Releasing /\ pc[g] \notin {"break", "remove"}
  BY <1>1, <1>5, HolderIsNamed, OneHolder DEF LockInv, BreakInv, Saving
<1>7. ~Leftover'
  BY <1>3, <1>4 DEF Leftover, Saving, Holding
<1>8. HolderInv'
  BY <1>3, <1>6 DEF HolderInv, MyLock, Holding, Releasing
<1>9. BreakInv'
  BY <1>3, <1>6 DEF BreakInv
<1>10. AliveInv'
  BY <1>3 DEF LockInv, AliveInv
<1> QED
  BY <1>7, <1>8, <1>9, <1>10 DEF LockInv, LeftoverInv

\* A lock that is found stale is a leftover one, which this save alone may break.
LEMMA StaleIsLeftover ==
  ASSUME ReadmeRule, BaseInv, LockInv, NEW f \in Flows, pc[f] = "look",
         PollPassed(f), lockFile # NoLock, stale(f)
  PROVE  Leftover /\ ((lockFile.written /\ lockFile.pid = PidOf[f]) \/ OneAlive)
<1>1. \A g \in Flows : pc[g] \in Saving /\ tok[g] = lockFile.token => pc[g] \in Holding \cup Releasing
  BY DEF BaseInv, AcquireInv, Saving
<1>2. CASE ~lockFile.written
  <2>1. \A g \in Flows : pc[g] = "body" => lockFile # [MyLock(g) EXCEPT !.written = FALSE]
    BY <1>2 DEF PollPassed, stale, ReadmeRule
  <2>2. \A g \in Flows : pc[g] # "body"
    BY <2>1 DEF LockInv, HolderInv
  <2>3. Leftover
    BY <1>1, <1>2, <2>2, HolderIsNamed DEF LockInv, Leftover
  <2> QED
    BY <1>2, <2>3 DEF LockInv, LeftoverInv
<1>3. CASE lockFile.written /\ lockFile.pid = PidOf[f]
  <2>1. \A g \in Neighbours(f) : pc[g] \in Saving => tok[g] # lockFile.token
    BY <1>3 DEF stale
  <2>2. Leftover
    BY <1>1, <1>3, <2>1, HolderIsNamed DEF LockInv, Leftover, Neighbours
  <2> QED
    BY <1>3, <2>2
<1>4. CASE lockFile.written /\ lockFile.pid # PidOf[f]
  <2>1. lockFile.pid \notin alive
    BY <1>4 DEF stale
  <2>2. Leftover
    BY <1>1, <2>1, HolderIsNamed DEF LockInv, Leftover
  <2> QED
    BY <2>1, <2>2 DEF LockInv, LeftoverInv
<1> QED
  BY <1>2, <1>3, <1>4

\* What a save finds in the lock file decides whether it waits, gives up or
\* breaks the lock.
LEMMA LookKeepsLock ==
  ASSUME ReadmeRule, BaseInv, LockInv, NEW f \in Flows, Look(f)
  PROVE  LockInv'
<1>1. /\ UNCHANGED <<lockFile, alive, tok, faults>> /\ pc[f] = "look" /\ PollPassed(f)
      /\ pc'[f] \in {"create", "break", "locked"}
      /\ \A g \in Flows : g # f => pc'[g] = pc[g]
      /\ pc'[f] = "break" => lockFile # NoLock /\ stale(f)
  BY DEF Look, Go, BaseInv, StoreTypeOK
<1>2. CASE pc'[f] = "create"
  BY <1>1, <1>2, QuietKeepsLock DEF Saving, Acquiring
<1>3. CASE pc'[f] = "locked"
  BY <1>1, <1>3, LeavingKeepsLock DEF Saving, Acquiring, Holding, Releasing
<1>4. CASE pc'[f] = "break"
  <2>1. Leftover /\ ((lockFile.written /\ lockFile.pid = PidOf[f]) \/ OneAlive)
    BY <1>1, <1>4, StaleIsLeftover
  <2>2. Leftover' <=> Leftover
    BY <1>1, <1>4 DEF Leftover, Saving, Acquiring
  <2>3. AliveInv'
    BY <1>1 DEF LockInv, AliveInv
  <2>4. HolderInv'
    BY <1>1, <1>4 DEF LockInv, HolderInv, MyLock, Holding, Releasing
  <2>5. LeftoverInv'
    BY <1>1, <2>2 DEF LockInv, LeftoverInv, OneAlive
  <2>6. BreakInv'
    BY <1>1, <2>1, <2>2 DEF LockInv, BreakInv, OneAlive
  <2> QED
    BY <2>3, <2>4, <2>5, <2>6 DEF LockInv
<1> QED
  BY <1>1, <1>2, <1>3, <1>4

\* Between the decision to break a lock and its removal the lock stays the
\* same.
LEMMA BreakKeepsLock ==
  ASSUME BaseInv, LockInv, NEW f \in Flows, BreakLock(f)
  PROVE  LockInv'
<1>1. /\ UNCHANGED <<lockFile, alive, tok, faults>> /\ pc[f] = "break"
      /\ pc'[f] \in {"create", "remove"}
      /\ \A g \in Flows : g # f => pc'[g] = pc[g]
  BY DEF BreakLock, Go, BaseInv, StoreTypeOK
<1>2. Leftover' <=> Leftover
  BY <1>1 DEF Leftover, Saving, Acquiring
<1>3. AliveInv'
  BY <1>1 DEF LockInv, AliveInv
<1>4. HolderInv'
  BY <1>1 DEF LockInv, HolderInv, MyLock, Holding, Releasing
<1>5. LeftoverInv'
  BY <1>1, <1>2 DEF LockInv, LeftoverInv, OneAlive
<1>6. BreakInv'
  BY <1>1, <1>2 DEF LockInv, BreakInv, OneAlive
<1> QED
  BY <1>3, <1>4, <1>5, <1>6 DEF LockInv

\* What is removed is the leftover lock, and nobody else is about to remove it.
LEMMA RemoveKeepsLock ==
  ASSUME BaseInv, LockInv, NEW f \in Flows, RemoveLock(f)
  PROVE  LockInv'
<1>1. /\ UNCHANGED <<alive, tok, faults>> /\ pc[f] = "remove" /\ pc'[f] = "create"
      /\ lockFile' = NoLock
      /\ \A g \in Flows : g # f => pc'[g] = pc[g]
  BY DEF RemoveLock, Go, BaseInv, StoreTypeOK
<1>2. Leftover /\ ((lockFile.written /\ lockFile.pid = PidOf[f]) \/ OneAlive)
  BY <1>1 DEF LockInv, BreakInv
<1>3. \A g \in Flows : pc[g] \notin Holding \cup Releasing
  BY <1>2, HolderIsNamed DEF LockInv
<1>4. ASSUME NEW g \in Flows, g # f, pc[g] \in {"break", "remove"} PROVE FALSE
  <2>1. (lockFile.written /\ lockFile.pid = PidOf[g]) \/ OneAlive
    BY <1>4 DEF LockInv, BreakInv
  <2>2. pc[f] \in Saving /\ pc[g] \in Saving /\ pc[f] # "gone" /\ pc[g] # "gone"
    BY <1>1, <1>4 DEF Saving, Acquiring
  <2>3. PidOf[f] \in alive /\ PidOf[g] \in alive /\ PidOf[f] # PidOf[g]
    BY <1>4, <2>2 DEF BaseInv, TokenInv
  <2> QED
    BY <1>2, <2>1, <2>3 DEF OneAlive
<1>5. AliveInv'
  BY <1>1 DEF LockInv, AliveInv
<1>6. HolderInv'
  BY <1>1, <1>3 DEF HolderInv, Holding, Releasing
<1>7. BreakInv'
  BY <1>1, <1>4 DEF BreakInv
<1>8. ~Leftover'
  BY <1>1 DEF Leftover
<1> QED
  BY <1>5, <1>6, <1>7, <1>8 DEF LockInv, LeftoverInv

\* A save that holds the lock and takes it away is the only one to hold it.
LEMMA DroppingKeepsLock ==
  ASSUME BaseInv, LockInv, NEW f \in Flows, pc[f] \in Holding \cup Releasing,
         UNCHANGED <<alive, tok>>, lockFile' = NoLock, pc'[f] \notin Saving,
         \A g \in Flows : g # f => pc'[g] = pc[g]
  PROVE  LockInv'
<1>1. ~Leftover
  BY HolderIsNamed DEF LockInv
<1>2. \A g \in Flows : g # f => pc[g] \notin Holding \cup Releasing /\ pc[g] \notin {"break", "remove"}
  BY <1>1, HolderIsNamed, OneHolder DEF LockInv, BreakInv, Saving
<1>3. AliveInv'
  BY DEF LockInv, AliveInv
<1>4. HolderInv'
  BY <1>2 DEF HolderInv, Saving, Holding, Releasing
<1>5. BreakInv'
  BY <1>2 DEF BreakInv, Saving, Acquiring
<1>6. ~Leftover'
  BY DEF Leftover
<1> QED
  BY <1>3, <1>4, <1>5, <1>6 DEF LockInv, LeftoverInv

\* A save that fails at any step either held no lock, or takes its lock file
\* away first.
LEMMA ThrowKeepsLock ==
  ASSUME ReadmeRule, BaseInv, LockInv, NEW f \in Flows, SaveThrows(f)
  PROVE  LockInv'
<1>1. UNCHANGED <<alive, tok>> /\ faults' > 0 /\ \A g \in Flows : g # f => pc'[g] = pc[g]
  BY DEF SaveThrows, Returns, Go, BaseInv, StoreTypeOK
<1>2. CASE pc[f] \in Acquiring /\ pc' = [pc EXCEPT ![f] = "failed"] /\ UNCHANGED <<temps, lockFile, cur, resolved>>
  BY <1>1, <1>2, LeavingKeepsLock DEF BaseInv, StoreTypeOK, Saving, Acquiring, Holding, Releasing
<1>3. CASE Go(f, "body", "failed") /\ lockFile' = NoLock
  BY <1>1, <1>3, DroppingKeepsLock DEF Go, BaseInv, StoreTypeOK, Saving, Acquiring, Holding, Releasing
<1>4. CASE pc[f] \in Holding \ {"body"} /\ pc' = [pc EXCEPT ![f] = "release"] /\ UNCHANGED lockFile
  BY <1>1, <1>4, QuietKeepsLock DEF BaseInv, StoreTypeOK, Saving, Holding, Releasing
<1>5. CASE Returns(f, "unlock") /\ UNCHANGED lockFile
  <2>1. pc[f] = "unlock" /\ pc'[f] \in {"idle", "failed"}
    BY <1>5 DEF Returns, Go, BaseInv, StoreTypeOK
  <2>2. pc[f] \in Saving /\ pc[f] \in Holding \cup Releasing
    BY <2>1 DEF Saving, Releasing
  <2>3. lockFile.written /\ lockFile.pid \in alive /\ ~Leftover
    BY <2>1, <2>2, HolderIsNamed DEF LockInv
  <2>4. AliveInv'
    BY <1>1 DEF LockInv, AliveInv
  <2>5. HolderInv'
    BY <1>1, <1>5, <2>1 DEF LockInv, HolderInv, MyLock, Holding, Releasing
  <2>6. LeftoverInv'
    BY <1>1, <1>5, <2>3 DEF LeftoverInv
  <2>7. BreakInv'
    BY <1>1, <2>1, <2>3 DEF LockInv, BreakInv
  <2> QED
    BY <2>4, <2>5, <2>6, <2>7 DEF LockInv
<1> QED
  BY <1>2, <1>3, <1>4, <1>5 DEF SaveThrows

\* Every step keeps LockInv.
LEMMA LockNext == ReadmeRule /\ BaseInv /\ LockInv /\ [Next]_vars => LockInv'
<1> SUFFICES ASSUME ReadmeRule, BaseInv, LockInv, [Next]_vars PROVE LockInv'
  OBVIOUS
<1>1. ASSUME NEW f \in Flows, Release(f) PROVE LockInv'
  <2>1. pc[f] = "release" /\ lockFile = MyLock(f)
    BY <1>1 DEF Release, Returns, Go, LockInv, HolderInv, Releasing
  <2>2. UNCHANGED <<lockFile, alive, tok, faults>> /\ pc' = [pc EXCEPT ![f] = "unlock"]
    BY <1>1, <2>1 DEF Release, Go
  <2> QED
    BY <2>1, <2>2, QuietKeepsLock DEF BaseInv, StoreTypeOK, Saving, Releasing
<1>2. ASSUME NEW f \in Flows, Unlock(f) PROVE LockInv'
  <2>1. pc[f] = "unlock" /\ pc'[f] \in {"idle", "failed"} /\ \A g \in Flows : g # f => pc'[g] = pc[g]
    BY <1>2 DEF Unlock, Returns, Go, BaseInv, StoreTypeOK
  <2> QED
    BY <1>2, <2>1, DroppingKeepsLock DEF Unlock, Saving, Acquiring, Holding, Releasing
<1>3. ASSUME NEW f \in Flows,
             Compare(f) \/ WriteTemp(f) \/ AssertHeld(f) \/ Rename(f) \/ SyncDirectory(f)
      PROVE  LockInv'
  <2>1. /\ UNCHANGED <<lockFile, alive, tok, faults>>
        /\ \A g \in Flows : g # f => pc'[g] = pc[g]
        /\ pc[f] \in Holding \ {"body"} /\ pc'[f] \in {"temp", "assert", "rename", "sync", "release"}
    BY <1>3 DEF Compare, WriteTemp, AssertHeld, Rename, SyncDirectory, Go, BaseInv, StoreTypeOK, Holding
  <2> QED
    BY <2>1, QuietKeepsLock DEF Saving, Holding, Releasing
<1>4. CASE UNCHANGED vars
  <2>1. UNCHANGED <<lockFile, alive, tok, pc, faults>>
    BY <1>4 DEF vars, flowVars
  <2> QED
    BY <2>1 DEF LockInv, AliveInv, HolderInv, MyLock, LeftoverInv, BreakInv, Leftover, OneAlive
<1> QED
  BY <1>1, <1>2, <1>3, <1>4, OpenKeepsLock, BeginKeepsLock, CreateKeepsLock, BodyKeepsLock,
     LookKeepsLock, BreakKeepsLock, RemoveKeepsLock, ThrowKeepsLock, CrashKeepsLock,
     PowerCutKeepsLock DEF Next, SaveStep

-----------------------------------------------------------------------------

\* The record changes under a save's feet only while another one has the lock.
LEMMA RecordNext == BaseInv /\ LockInv /\ RecordInv /\ [Next]_vars => RecordInv'
<1> SUFFICES ASSUME BaseInv, LockInv, RecordInv, [Next]_vars PROVE RecordInv'
  OBVIOUS
<1> USE DEF RecordInv, BaseInv, StoreTypeOK
<1>1. ASSUME NEW f \in Flows, Open(f) PROVE RecordInv'
  BY <1>1 DEF Open, Saving, Acquiring, Holding, Releasing, diskVars
<1>2. ASSUME NEW f \in Flows, SaveBegin(f) PROVE RecordInv'
  BY <1>2 DEF SaveBegin, Go, Saving, Acquiring, Holding, Releasing, diskVars
<1>3. ASSUME NEW f \in Flows,
             CreateLock(f) \/ WriteBody(f) \/ Look(f) \/ BreakLock(f) \/ RemoveLock(f)
      PROVE  RecordInv'
  <2>1. /\ UNCHANGED <<record, disk, cur, tok, fate, resolved>>
        /\ \A g \in Flows : g # f => pc'[g] = pc[g]
        /\ pc[f] \in Acquiring \cup {"body"} /\ pc'[f] \in Acquiring \cup {"locked", "body", "compare"}
    BY <1>3 DEF CreateLock, WriteBody, Look, BreakLock, RemoveLock, Go, diskVars, Acquiring
  <2> QED
    BY <2>1 DEF Saving, Acquiring, Holding, Releasing
<1>4. ASSUME NEW f \in Flows, Compare(f) PROVE RecordInv'
  BY <1>4 DEF Compare, Go, Saving, Acquiring, Holding, Releasing, diskVars
<1>5. ASSUME NEW f \in Flows, WriteTemp(f) \/ AssertHeld(f) PROVE RecordInv'
  BY <1>5 DEF WriteTemp, AssertHeld, Go, Saving, Acquiring, Holding, Releasing
<1>6. ASSUME NEW f \in Flows, Rename(f) PROVE RecordInv'
  <2>1. pc[f] = "rename" /\ pc[f] \in Holding \cup Releasing /\ record = cur[f]
    BY <1>6 DEF Rename, Go, Holding
  <2>2. \A g \in Flows : g # f => pc[g] \notin Holding \cup Releasing
    BY <2>1, HolderIsNamed, OneHolder DEF LockInv, Saving
  <2>3. /\ UNCHANGED <<disk, cur, tok, fate, resolved>>
        /\ \A g \in Flows : g # f => pc'[g] = pc[g]
        /\ \/ pc'[f] = "sync" /\ record' = record \cup {tok[f]}
           \/ pc'[f] = "release" /\ record' = record
    BY <1>6, <2>1 DEF Rename, Go
  <2> QED
    BY <2>1, <2>2, <2>3 DEF Saving, Acquiring, Holding, Releasing
<1>7. ASSUME NEW f \in Flows, SyncDirectory(f) PROVE RecordInv'
  BY <1>7 DEF SyncDirectory, Go, Saving, Acquiring, Holding, Releasing
<1>8. ASSUME NEW f \in Flows, Returns(f, "release") \/ Returns(f, "unlock"),
             UNCHANGED <<record, disk, tok, fate>>
      PROVE  RecordInv'
  BY <1>8 DEF Returns, Go, Saving, Acquiring, Holding, Releasing
<1>9. ASSUME NEW f \in Flows, Release(f) PROVE RecordInv'
  <2>1. CASE Go(f, "release", "unlock") /\ UNCHANGED <<cur, resolved>>
    BY <1>9, <2>1 DEF Release, Go, Saving, Acquiring, Holding, Releasing, diskVars
  <2> QED
    BY <1>8, <1>9, <2>1 DEF Release, diskVars
<1>10. ASSUME NEW f \in Flows, Unlock(f) PROVE RecordInv'
  BY <1>8, <1>10 DEF Unlock, diskVars
<1>11. ASSUME NEW f \in Flows, SaveThrows(f) PROVE RecordInv'
  <2>1. CASE Returns(f, "unlock")
    BY <1>8, <1>11, <2>1 DEF SaveThrows
  <2>2. CASE ~Returns(f, "unlock")
    <3>1. /\ UNCHANGED <<record, disk, cur, tok, fate, resolved>>
          /\ \A g \in Flows : g # f => pc'[g] = pc[g]
          /\ pc[f] \in Saving /\ pc'[f] \in {"failed", "release"}
      BY <1>11, <2>2 DEF SaveThrows, Go, Saving, Holding
    <3> QED
      BY <3>1 DEF Saving, Acquiring, Holding, Releasing
  <2> QED
    BY <2>1, <2>2
<1>12. ASSUME NEW p \in Pids, Crash(p) PROVE RecordInv'
  BY <1>12 DEF Crash, Lose, diskVars, Saving, Acquiring, Holding, Releasing
<1>13. CASE PowerCut
  BY <1>13 DEF PowerCut, Lose, Saving, Acquiring, Holding, Releasing
<1>14. CASE UNCHANGED vars
  BY <1>14 DEF vars, diskVars, flowVars
<1> QED
  BY <1>1, <1>2, <1>3, <1>4, <1>5, <1>6, <1>7, <1>9, <1>10, <1>11, <1>12, <1>13, <1>14
     DEF Next, SaveStep

\* StoreInv holds in every reachable state, under the rule.
THEOREM StoreInvHolds == ReadmeRule => (Spec => []StoreInv)
<1> SUFFICES ASSUME ReadmeRule PROVE Spec => []StoreInv
  OBVIOUS
<1>1. Init => StoreInv
  BY BaseInitially, LockInitially DEF StoreInv
<1>2. StoreInv /\ [Next]_vars => StoreInv'
  BY BaseNext, LockNext, RecordNext DEF StoreInv
<1> QED
  BY <1>1, <1>2, PTL DEF Spec

\* A save that has returned is never lost: no save of another process is made
\* from an older record than the one it replaces, and no crash or power cut
\* takes it back (FileFlowStore.save in flow-store.ts).
THEOREM ResolvedSavesStay == ReadmeRule => (Spec => []NoSaveLost)
<1>1. StoreInv => NoSaveLost
  BY DEF StoreInv, RecordInv, NoSaveLost
<1> QED
  BY <1>1, StoreInvHolds, PTL
=============================================================================
