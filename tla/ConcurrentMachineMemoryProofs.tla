-------------------- MODULE ConcurrentMachineMemoryProofs --------------------
(***************************************************************************)
(* Proofs about ConcurrentMachineMemory, for any number of executions,     *)
(* workflows and retries.                                                  *)
(*                                                                         *)
(* The argument: while removal is quiet, every execution that is waiting   *)
(* for a lock or holding one uses the mutex that the map has for its       *)
(* workflow (MutexAgreement), so that all of them contend for the same     *)
(* mutex; and a timely holder's mutex stays held (HoldersHold).  A second  *)
(* execution can then only acquire once the first has left.                *)
(***************************************************************************)
EXTENDS ConcurrentMachineMemory, TLAPS

\* Executions between their lock call and the end of their critical section.
Using(h) == pc[h] \in Locking \cup Critical

MutexAgreement ==
  \A h \in Handlers :
    Using(h) => ref[h] # None /\ lockMap[Subject[h]] = ref[h]

\* Mutexes of different workflows are different.
MutexBelongs ==
  \A id \in Ids : lockMap[id] # None => Subject[lockMap[id]] = id

HoldersHold ==
  \A h \in Handlers : pc[h] \in Critical => mutex[ref[h]] = "held"

\* An execution that has cleaned up but not yet unlocked is alone, and can only
\* unlock its own mutex.
CleanedAlone ==
  \A h \in Handlers : pc[h] = "cleaned" =>
    /\ lockMap[Subject[h]] \in {None, ref[h]}
    /\ \A g \in Handlers \ {h} :
         Subject[g] = Subject[h] => ~Using(g) /\ pc[g] # "cleaned"

ExclusionInv ==
  /\ TypeOK
  /\ MutexAgreement
  /\ MutexBelongs
  /\ HoldersHold
  /\ CleanedAlone
  /\ MutualExclusion

-----------------------------------------------------------------------------
\* The initial state is well typed.
LEMMA TypeInit == Init => TypeOK
  BY SubjectAssumption, NoneAssumption, RetriesAssumption
     DEF Init, TypeOK, AttemptNumbers, Locking, Critical, Finished

\* Every step, in any environment, leaves the variables well typed.
LEMMA TypeStep == ASSUME TypeOK, [Next]_vars PROVE TypeOK'
<1> USE SubjectAssumption, NoneAssumption, RetriesAssumption
    DEF TypeOK, AttemptNumbers, Locking, Critical, Finished
<1>1. ASSUME NEW h \in Handlers, LockCall(h) PROVE TypeOK'
  BY <1>1 DEF LockCall, MutexFor
<1>2. ASSUME NEW h \in Handlers, Acquire(h) PROVE TypeOK'
  BY <1>2 DEF Acquire
<1>3. ASSUME NEW h \in Handlers, Refuse(h) PROVE TypeOK'
  BY <1>3 DEF Refuse
<1>4. ASSUME NEW h \in Handlers, Delayed(h) PROVE TypeOK'
  BY <1>4 DEF Delayed, GivesUp
<1>5. ASSUME NEW h \in Handlers, Read(h) PROVE TypeOK'
  BY <1>5 DEF Read
<1>6. ASSUME NEW h \in Handlers, Write(h) PROVE TypeOK'
  BY <1>6 DEF Write
<1>7. ASSUME NEW h \in Handlers, Unlock(h) PROVE TypeOK'
  BY <1>7 DEF Unlock, Release, Outcome
<1>8. ASSUME NEW h \in Handlers, Crash(h) PROVE TypeOK'
  BY <1>8 DEF Crash
<1>9. ASSUME NEW h \in Handlers, Cleanup(h) PROVE TypeOK'
  BY <1>9 DEF Cleanup
<1>10. ASSUME NEW m \in Handlers, Expire(m) PROVE TypeOK'
  BY <1>10 DEF Expire
<1>11. CASE Clear
  BY <1>11 DEF Clear
<1>12. CASE UNCHANGED vars
  BY <1>12 DEF vars
<1> QED
  BY <1>1, <1>2, <1>3, <1>4, <1>5, <1>6, <1>7, <1>8, <1>9, <1>10, <1>11, <1>12 DEF Next

\* The variables keep their types, in every environment: in particular the
\* loop counter of lock only takes the values its bound allows (index.ts:165-206).
THEOREM TypeCorrect == Spec => []TypeOK
<1>1. TypeOK /\ [Next]_vars => TypeOK'
  BY TypeStep
<1> QED
  BY TypeInit, <1>1, PTL DEF Spec

-----------------------------------------------------------------------------
\* Every step of a disciplined system preserves the exclusion invariant.
LEMMA ExclusionStep ==
  ASSUME Disciplined, ExclusionInv, [Next]_vars PROVE ExclusionInv'
<1> USE SubjectAssumption, NoneAssumption
<1> DEFINE Rest == /\ MutexAgreement
                   /\ MutexBelongs
                   /\ HoldersHold
                   /\ CleanedAlone
                   /\ MutualExclusion
<1>t. TypeOK'
  BY TypeStep DEF ExclusionInv
<1>1. ASSUME NEW h \in Handlers, LockCall(h) PROVE Rest'
  <2> USE <1>1, <1>t DEF LockCall, MutexFor, ExclusionInv, TypeOK, Disciplined
  <2>1. MutexAgreement'
    BY DEF MutexAgreement, Using, Locking, Critical, MutexBelongs
  <2>2. MutexBelongs'
    BY DEF MutexBelongs
  <2>3. HoldersHold'
    BY DEF HoldersHold, Critical
  <2>4. CleanedAlone'
    BY DEF CleanedAlone, Using, Locking, Critical
  <2>5. MutualExclusion'
    BY DEF MutualExclusion, InCriticalSection, Critical
  <2> QED
    BY <2>1, <2>2, <2>3, <2>4, <2>5
<1>2. ASSUME NEW h \in Handlers, Acquire(h) PROVE Rest'
  <2> USE <1>2, <1>t DEF Acquire, IsLocked, ExclusionInv, TypeOK
  <2>1. MutexAgreement'
    BY DEF MutexAgreement, Using, Locking, Critical
  <2>2. MutexBelongs'
    BY DEF MutexBelongs
  <2>3. HoldersHold'
    BY DEF HoldersHold, Critical, MutexAgreement, Using, Locking
  <2>4. CleanedAlone'
    BY DEF CleanedAlone, Using, Locking, Critical
  <2>5. MutualExclusion'
    BY DEF MutualExclusion, InCriticalSection, Critical, Locking, HoldersHold,
           MutexAgreement, Using
  <2> QED
    BY <2>1, <2>2, <2>3, <2>4, <2>5
<1>3. ASSUME NEW h \in Handlers, Refuse(h) \/ Delayed(h) PROVE Rest'
  BY <1>3, <1>t DEF Refuse, Delayed, ExclusionInv, TypeOK, MutexAgreement, MutexBelongs,
       HoldersHold, CleanedAlone, MutualExclusion, InCriticalSection, Using, Locking, Critical
<1>4. ASSUME NEW h \in Handlers, Read(h) \/ Write(h) PROVE Rest'
  BY <1>4, <1>t DEF Read, Write, ExclusionInv, TypeOK, MutexAgreement, MutexBelongs,
       HoldersHold, CleanedAlone, MutualExclusion, InCriticalSection, Using, Locking, Critical
<1>5. ASSUME NEW h \in Handlers, Unlock(h) PROVE Rest'
  <2> USE <1>5, <1>t DEF Unlock, Release, Outcome, ExclusionInv, TypeOK
  <2>0. pc[h] \in Critical \cup {"cleaned"}
    BY DEF Disciplined
  <2>1. MutexAgreement'
    BY <2>0 DEF MutexAgreement, Using, Locking, Critical
  <2>2. MutexBelongs'
    BY DEF MutexBelongs
  <2>3. HoldersHold'
    <3> SUFFICES ASSUME NEW g \in Handlers, g # h, pc[g] \in Critical
                 PROVE mutex'[ref[g]] = "held"
      BY DEF HoldersHold, Critical
    <3>1. Subject[g] # Subject[h]
      BY <2>0 DEF MutualExclusion, InCriticalSection, CleanedAlone, Using
    <3>2. lockMap[Subject[h]] # ref[g]
      BY <3>1 DEF MutexAgreement, MutexBelongs, Using
    <3> QED
      BY <3>2 DEF HoldersHold, MutexAgreement, Using
  <2>4. CleanedAlone'
    BY <2>0 DEF CleanedAlone, Using, Locking, Critical
  <2>5. MutualExclusion'
    BY DEF MutualExclusion, InCriticalSection, Critical
  <2> QED
    BY <2>1, <2>2, <2>3, <2>4, <2>5
<1>6. ASSUME NEW h \in Handlers, Crash(h) PROVE Rest'
  BY <1>6, <1>t DEF Crash, ExclusionInv, TypeOK, MutexAgreement, MutexBelongs,
       HoldersHold, CleanedAlone, MutualExclusion, InCriticalSection, Using, Locking, Critical
<1>7. ASSUME NEW h \in Handlers, Cleanup(h) PROVE Rest'
  <2> USE <1>7, <1>t DEF Cleanup, Quiet, Finished, Disciplined, ExclusionInv, TypeOK
  <2>1. MutexAgreement'
    BY DEF MutexAgreement, Using, Locking, Critical
  <2>2. MutexBelongs'
    BY DEF MutexBelongs
  <2>3. HoldersHold'
    BY DEF HoldersHold, Critical
  <2>4. CleanedAlone'
    BY DEF CleanedAlone, MutexAgreement, Using, Locking, Critical
  <2>5. MutualExclusion'
    BY DEF MutualExclusion, InCriticalSection, Critical
  <2> QED
    BY <2>1, <2>2, <2>3, <2>4, <2>5
<1>8. ASSUME NEW m \in Handlers, Expire(m) PROVE Rest'
  BY <1>8, <1>t DEF Expire, Disciplined, ExclusionInv, TypeOK, MutexAgreement, MutexBelongs,
       HoldersHold, CleanedAlone, MutualExclusion, InCriticalSection, Using
<1>9. ASSUME Clear PROVE Rest'
  BY <1>9 DEF Clear, Quiet, Finished, Disciplined, ExclusionInv, TypeOK, MutexAgreement,
       MutexBelongs, HoldersHold, CleanedAlone, MutualExclusion, InCriticalSection, Using,
       Locking, Critical
<1>10. ASSUME UNCHANGED vars PROVE Rest'
  BY <1>10 DEF vars, ExclusionInv, MutexAgreement, MutexBelongs, HoldersHold, CleanedAlone,
       MutualExclusion, InCriticalSection, Using
<1> QED
  BY <1>t, <1>1, <1>2, <1>3, <1>4, <1>5, <1>6, <1>7, <1>8, <1>9, <1>10
     DEF Next, ExclusionInv

\* Initially no execution uses any mutex.
LEMMA ExclusionInit == Init => ExclusionInv
  BY TypeInit, NoneAssumption
     DEF Init, ExclusionInv, MutexAgreement, MutexBelongs, HoldersHold, CleanedAlone,
         MutualExclusion, InCriticalSection, Using, Locking, Critical

\* A disciplined system keeps the exclusion invariant.
THEOREM ExclusionInvariant ==
  ASSUME Disciplined PROVE Spec => []ExclusionInv
<1>1. ExclusionInv /\ [Next]_vars => ExclusionInv'
  BY ExclusionStep
<1> QED
  BY ExclusionInit, <1>1, PTL DEF Spec

\* No two executions ever work on a workflow at the same time, whatever the
\* number of executions, workflows and retries, and whichever of them crash.
THEOREM Exclusion ==
  ASSUME Disciplined PROVE Spec => []MutualExclusion
<1>1. ExclusionInv => MutualExclusion
  BY DEF ExclusionInv
<1> QED
  BY <1>1, ExclusionInvariant, PTL

-----------------------------------------------------------------------------
(* The memory implements the workflow store. *)

\* Nobody writes to a workflow between a holder's read and its write ...
SnapshotsFresh ==
  \A h \in Handlers : pc[h] = "read" => snapshot[h] = memoryMap[Subject[h]]

\* ... and no execution's update is in the store before it writes.
WritesPending ==
  \A h \in Handlers :
    pc[h] \in Locking \cup {"idle", "locked", "read"} =>
      \A id \in Ids : h \notin memoryMap[id]

StoreInv == ExclusionInv /\ SnapshotsFresh /\ WritesPending

\* Every step preserves the two facts above.
LEMMA StoreStep ==
  ASSUME Disciplined, StoreInv, [Next]_vars PROVE StoreInv'
<1> USE SubjectAssumption DEF Locking
<1>e. ExclusionInv'
  BY ExclusionStep DEF StoreInv
<1> DEFINE Rest == SnapshotsFresh /\ WritesPending
<1>1. ASSUME NEW h \in Handlers, Write(h) PROVE Rest'
  <2> USE <1>1 DEF Write, StoreInv, ExclusionInv, TypeOK
  <2>1. SnapshotsFresh'
    BY DEF SnapshotsFresh, MutualExclusion, InCriticalSection, Critical
  <2>2. WritesPending'
    BY DEF WritesPending, SnapshotsFresh
  <2> QED
    BY <2>1, <2>2
<1>2. ASSUME NEW h \in Handlers, Cleanup(h) PROVE Rest'
  BY <1>2 DEF Cleanup, Quiet, Finished, Disciplined, StoreInv, ExclusionInv, TypeOK,
       SnapshotsFresh, WritesPending
<1>3. ASSUME Clear PROVE Rest'
  BY <1>3 DEF Clear, Quiet, Finished, Disciplined, StoreInv, ExclusionInv, TypeOK,
       SnapshotsFresh, WritesPending
<1>4. ASSUME NEW h \in Handlers, Read(h) PROVE Rest'
  BY <1>4 DEF Read, StoreInv, ExclusionInv, TypeOK, SnapshotsFresh, WritesPending
<1>5. ASSUME NEW h \in Handlers,
             LockCall(h) \/ Acquire(h) \/ Refuse(h) \/ Delayed(h) \/ Unlock(h) \/ Crash(h)
      PROVE Rest'
  BY <1>5 DEF LockCall, Acquire, Refuse, Delayed, Unlock, Outcome, Crash, Critical, StoreInv,
       ExclusionInv, TypeOK, SnapshotsFresh, WritesPending
<1>6. ASSUME NEW m \in Handlers, Expire(m) PROVE Rest'
  BY <1>6 DEF Expire, StoreInv, SnapshotsFresh, WritesPending
<1>7. ASSUME UNCHANGED vars PROVE Rest'
  BY <1>7 DEF vars, StoreInv, SnapshotsFresh, WritesPending
<1> QED
  BY <1>e, <1>1, <1>2, <1>3, <1>4, <1>5, <1>6, <1>7 DEF Next, StoreInv

\* A write is the abstract commit of the execution's update; removing records
\* is forgetting them; every other step leaves the store alone.
LEMMA StoreSimulation ==
  ASSUME StoreInv, [Next]_vars PROVE [Store!Next]_memoryMap
<1> USE SubjectAssumption DEF StoreInv, ExclusionInv, TypeOK
<1>1. ASSUME NEW h \in Handlers, Write(h) PROVE Store!Next
  <2>1. h \notin memoryMap[Subject[h]]
    BY <1>1 DEF Write, WritesPending
  <2>2. memoryMap' = [memoryMap EXCEPT ![Subject[h]] = @ \cup {h}]
    BY <1>1 DEF Write, SnapshotsFresh
  <2>3. Store!Apply(Subject[h], h)
    BY <2>1, <2>2 DEF Store!Apply
  <2> QED
    BY <2>3 DEF Store!Next
<1>2. ASSUME NEW h \in Handlers, Cleanup(h) PROVE [Store!Next]_memoryMap
  <2>1. CASE EnableCleanup
    <3>1. Store!Forget({Subject[h]})
      BY <1>2, <2>1 DEF Cleanup, Store!Forget
    <3> QED
      BY <3>1 DEF Store!Next
  <2>2. CASE ~EnableCleanup
    BY <1>2, <2>2 DEF Cleanup
  <2> QED
    BY <2>1, <2>2
<1>3. CASE Clear
  <2>1. Store!Forget(Ids)
    BY <1>3 DEF Clear, Store!Forget
  <2> QED
    BY <2>1 DEF Store!Next
<1>4. ASSUME NEW h \in Handlers,
             LockCall(h) \/ Acquire(h) \/ Refuse(h) \/ Delayed(h) \/ Read(h) \/ Unlock(h)
             \/ Crash(h)
      PROVE UNCHANGED memoryMap
  BY <1>4 DEF LockCall, Acquire, Refuse, Delayed, Read, Unlock, Crash
<1>5. ASSUME NEW m \in Handlers, Expire(m) PROVE UNCHANGED memoryMap
  BY <1>5 DEF Expire
<1>6. CASE UNCHANGED vars
  BY <1>6 DEF vars
<1> QED
  BY <1>1, <1>2, <1>3, <1>4, <1>5, <1>6 DEF Next

\* The memory of a disciplined system is a workflow store: no committed update
\* is ever overwritten by an execution that did not know of it.
THEOREM StoreRefinement ==
  ASSUME Disciplined PROVE Spec => NoLostUpdate
<1>1. Init => StoreInv
  <2>1. Init => ExclusionInv
    BY ExclusionInit
  <2> QED
    BY <2>1, SubjectAssumption DEF Init, StoreInv, SnapshotsFresh, WritesPending
<1>2. StoreInv /\ [Next]_vars => StoreInv'
  BY StoreStep
<1>3. Init => Store!Init
  BY DEF Init, Store!Init
<1>4. StoreInv /\ [Next]_vars => [Store!Next]_memoryMap
  BY StoreSimulation
<1> QED
  BY <1>1, <1>2, <1>3, <1>4, PTL DEF Spec, Store!Spec, NoLostUpdate

-----------------------------------------------------------------------------
(* No mutex is held on behalf of nobody. *)

\* A mutex nobody has created is free and unknown.
Unborn ==
  \A h \in Handlers : pc[h] = "idle" =>
    /\ mutex[h] = "free"
    /\ \A g \in Handlers : ref[g] # h
    /\ \A id \in Ids : lockMap[id] # h

RefBelongs ==
  \A h \in Handlers : ref[h] # None => Subject[ref[h]] = Subject[h]

PhantomInv == ExclusionInv /\ Unborn /\ RefBelongs /\ NoPhantomLock

\* Every step of a disciplined system preserves this invariant.
LEMMA PhantomStep ==
  ASSUME Disciplined, PhantomInv, [Next]_vars PROVE PhantomInv'
<1> USE SubjectAssumption, NoneAssumption DEF Locking, Critical
<1>e. ExclusionInv'
  BY ExclusionStep DEF PhantomInv
<1> DEFINE Rest == Unborn /\ RefBelongs /\ NoPhantomLock
<1>1. ASSUME NEW h \in Handlers, LockCall(h) PROVE Rest'
  <2> USE <1>1 DEF LockCall, MutexFor, PhantomInv, ExclusionInv, TypeOK
  <2>1. Unborn'
    BY DEF Unborn
  <2>2. RefBelongs'
    BY DEF RefBelongs, MutexBelongs
  <2>3. NoPhantomLock'
    BY DEF NoPhantomLock, Unborn
  <2> QED
    BY <2>1, <2>2, <2>3
<1>2. ASSUME NEW h \in Handlers, Acquire(h) PROVE Rest'
  <2> USE <1>2 DEF Acquire, PhantomInv, ExclusionInv, TypeOK
  <2>1. Unborn'
    BY DEF Unborn
  <2>2. RefBelongs'
    BY DEF RefBelongs
  <2>3. NoPhantomLock'
    BY DEF NoPhantomLock
  <2> QED
    BY <2>1, <2>2, <2>3
<1>3. ASSUME NEW h \in Handlers, Unlock(h) PROVE Rest'
  <2> USE <1>3 DEF Unlock, Release, Outcome, PhantomInv, ExclusionInv, TypeOK
  <2>1. Unborn'
    BY DEF Unborn
  <2>2. RefBelongs'
    BY DEF RefBelongs
  <2>3. NoPhantomLock'
    <3> SUFFICES ASSUME NEW m \in Handlers, mutex'[m] # "free",
                        \/ \E id \in Ids : lockMap[id] = m
                        \/ \E g \in Handlers : ref[g] = m /\ pc'[g] \in Locking
                 PROVE \E g \in Handlers : ref[g] = m /\ pc'[g] \in Critical \cup {"cleaned", "crashed"}
      BY DEF NoPhantomLock
    <3>1. mutex[m] # "free"
      OBVIOUS
    <3>2. PICK g \in Handlers : ref[g] = m /\ pc[g] \in Critical \cup {"cleaned", "crashed"}
      BY <3>1 DEF NoPhantomLock
    <3>3. CASE g # h
      BY <3>2, <3>3
    <3>4. CASE g = h
      <4>1. pc[h] \in Critical => lockMap[Subject[h]] = m
        BY <3>2, <3>4 DEF MutexAgreement, Using
      <4>2. pc[h] = "cleaned" /\ lockMap[Subject[h]] = None
        BY <3>2, <3>4, <4>1 DEF CleanedAlone, Disciplined
      <4>3. Subject[m] = Subject[h]
        BY <3>2, <3>4 DEF RefBelongs
      <4>4. \A id \in Ids : lockMap[id] # m
        BY <4>2, <4>3 DEF MutexBelongs
      <4>5. \A k \in Handlers : ~(ref[k] = m /\ pc[k] \in Locking)
        BY <4>2, <4>4 DEF MutexAgreement, Using
      <4> QED
        BY <4>4, <4>5
    <3> QED
      BY <3>3, <3>4
  <2> QED
    BY <2>1, <2>2, <2>3
<1>4. ASSUME NEW h \in Handlers, Cleanup(h) PROVE Rest'
  <2> USE <1>4 DEF Cleanup, PhantomInv, ExclusionInv, TypeOK
  <2>1. Unborn'
    BY DEF Unborn
  <2>2. RefBelongs'
    BY DEF RefBelongs
  <2>3. NoPhantomLock'
    BY DEF NoPhantomLock
  <2> QED
    BY <2>1, <2>2, <2>3
<1>5. ASSUME Clear PROVE Rest'
  BY <1>5 DEF Clear, PhantomInv, ExclusionInv, TypeOK, Unborn, RefBelongs, NoPhantomLock
<1>6. ASSUME NEW h \in Handlers,
             Refuse(h) \/ Delayed(h) \/ Read(h) \/ Write(h) \/ Crash(h)
      PROVE Rest'
  BY <1>6 DEF Refuse, Delayed, Read, Write, Crash, PhantomInv, ExclusionInv, TypeOK, Unborn,
       RefBelongs, NoPhantomLock
<1>7. ASSUME NEW m \in Handlers, Expire(m) PROVE Rest'
  BY <1>7 DEF Expire, PhantomInv, ExclusionInv, TypeOK, Unborn, RefBelongs, NoPhantomLock
<1>8. ASSUME UNCHANGED vars PROVE Rest'
  BY <1>8 DEF vars, PhantomInv, Unborn, RefBelongs, NoPhantomLock
<1> QED
  BY <1>e, <1>1, <1>2, <1>3, <1>4, <1>5, <1>6, <1>7, <1>8 DEF Next, PhantomInv

\* In a disciplined system a lock call only ever waits for an execution that is
\* still at work, or for the lease of one that died.
THEOREM NoPhantom ==
  ASSUME Disciplined PROVE Spec => []NoPhantomLock
<1>1. Init => PhantomInv
  <2>1. Init => ExclusionInv
    BY ExclusionInit
  <2> QED
    BY <2>1, NoneAssumption DEF Init, PhantomInv, Unborn, RefBelongs, NoPhantomLock, Locking
<1>2. PhantomInv /\ [Next]_vars => PhantomInv'
  BY PhantomStep
<1>3. PhantomInv => NoPhantomLock
  BY DEF PhantomInv
<1> QED
  BY <1>1, <1>2, <1>3, PTL DEF Spec
=============================================================================
