----------------------- MODULE ConcurrentMachineMemory -----------------------
(***************************************************************************)
(* The in-process machine memory (concurrent/src/ConcurrentMachineMemory): *)
(* a map of workflow records and a map of TTL mutexes, used by handler     *)
(* executions that interleave at every await.                              *)
(*                                                                         *)
(* A handler execution follows the protocol of the class's example         *)
(* (index.ts:31-37): lock, and only if acquired read, write, unlock.  The  *)
(* execution that completes a workflow also calls cleanup.  An action is   *)
(* the code between two awaits.                                            *)
(*                                                                         *)
(* Data abstraction: a record is the set of executions whose updates it    *)
(* incorporates ({} is an absent record).  A TTLMutex is named by the      *)
(* execution whose call created it.  Wall-clock time is abstracted to the  *)
(* moment a held lease becomes older than its TTL (Expire).  A local        *)
(* variable is reset when its last use is over.                            *)
(***************************************************************************)
EXTENDS Naturals

CONSTANTS
  Handlers,              \* handler executions; each calls lock once
  Ids,                   \* workflow instances
  Subject,               \* the workflow instance each execution works on
  None,                  \* no mutex
  LockMaxRetries,        \* config.lockMaxRetries
  EnableCleanup,         \* config.enableCleanup
  Timely,                \* environment: a live holder finishes within lockTTLMs
  QuietCleanup,          \* environment: a workflow is removed, by an execution's cleanup
                         \* or by clear, only when nobody else is using it
  ReleaseWhenRejected    \* caller: unlocks in a `finally` even if not acquired

ASSUME SubjectAssumption == Subject \in [Handlers -> Ids]
ASSUME NoneAssumption    == None \notin Handlers
ASSUME RetriesAssumption == LockMaxRetries \in Nat
ASSUME RegimeAssumption  ==
  /\ EnableCleanup \in BOOLEAN
  /\ Timely \in BOOLEAN
  /\ QuietCleanup \in BOOLEAN
  /\ ReleaseWhenRejected \in BOOLEAN

VARIABLES
  memoryMap,  \* id -> record
  lockMap,    \* id -> its TTLMutex, or None
  mutex,      \* TTLMutex -> "free", "held", or "lapsed" (held past its TTL)
  pc,         \* where each execution is
  ref,        \* the TTLMutex captured by the execution's lock call; kept after
              \* the call as a history of what it acquired
  attempt,    \* the lock call's loop counter
  snapshot    \* the record the execution has read

vars == <<memoryMap, lockMap, mutex, pc, ref, attempt, snapshot>>

Locking  == {"trying", "delaying"}
Critical == {"locked", "read", "written"}
Finished == {"rejected", "failed", "done", "closed", "crashed"}

\* The attempts a lock call can make are numbered from 0.
AttemptNumbers == {0} \cup {n \in 0 .. LockMaxRetries : n < LockMaxRetries}

TypeOK ==
  /\ memoryMap \in [Ids -> SUBSET Handlers]
  /\ lockMap \in [Ids -> Handlers \cup {None}]
  /\ mutex \in [Handlers -> {"free", "held", "lapsed"}]
  /\ pc \in [Handlers -> {"idle", "cleaned"} \cup Locking \cup Critical \cup Finished]
  /\ ref \in [Handlers -> Handlers \cup {None}]
  /\ attempt \in [Handlers -> AttemptNumbers]
  /\ snapshot \in [Handlers -> SUBSET Handlers]

Init ==
  /\ memoryMap = [id \in Ids |-> {}]
  /\ lockMap = [id \in Ids |-> None]
  /\ mutex = [h \in Handlers |-> "free"]
  /\ pc = [h \in Handlers |-> "idle"]
  /\ ref = [h \in Handlers |-> None]
  /\ attempt = [h \in Handlers |-> 0]
  /\ snapshot = [h \in Handlers |-> {}]

-----------------------------------------------------------------------------
(* TTLMutex *)

\* Variant: the TTL is ignored.
IsLockedForever(m) == mutex[m] # "free"

\* An expired lock does not count as locked (TTLMutex.isLocked).
IsLocked(m) == mutex[m] = "held"

\* The lease of m grows older than its TTL.  If holders are timely, this only
\* happens once no live execution relies on it.
Expire(m) ==
  /\ mutex[m] = "held"
  /\ Timely => ~\E h \in Handlers : ref[h] = m /\ pc[h] \in Critical
  /\ mutex' = [mutex EXCEPT ![m] = "lapsed"]
  /\ UNCHANGED <<memoryMap, lockMap, pc, ref, attempt, snapshot>>

-----------------------------------------------------------------------------
(* lock *)

\* Variant: every call makes a mutex of its own.
NewMutex(h) == h

\* The mutex the map holds for the workflow, or a fresh one (getTTLMutex).
MutexFor(h) ==
  IF lockMap[Subject[h]] = None THEN h ELSE lockMap[Subject[h]]

\* The call captures the mutex once, before its first await.
LockCall(h) ==
  /\ pc[h] = "idle"
  /\ QuietCleanup =>
       ~\E g \in Handlers : Subject[g] = Subject[h] /\ pc[g] = "cleaned"
  /\ ref' = [ref EXCEPT ![h] = MutexFor(h)]
  /\ lockMap' = [lockMap EXCEPT ![Subject[h]] = MutexFor(h)]
  /\ pc' = [pc EXCEPT ![h] = "trying"]
  /\ UNCHANGED <<memoryMap, mutex, attempt, snapshot>>

\* The body of TTLMutex.lock runs without an await: it takes a mutex that is
\* free or whose lease has expired.
Acquire(h) ==
  /\ pc[h] = "trying"
  /\ ~IsLocked(ref[h])
  /\ mutex' = [mutex EXCEPT ![ref[h]] = "held"]
  /\ pc' = [pc EXCEPT ![h] = "locked"]
  /\ attempt' = [attempt EXCEPT ![h] = 0]
  /\ UNCHANGED <<memoryMap, lockMap, ref, snapshot>>

\* Variant: only the test of the while itself.
GivesUpLate(n) == n > LockMaxRetries

\* The loop's test after attempt++: attempt number n is not made.
GivesUp(n) == n >= LockMaxRetries

\* The refused attempt is followed by a delay if retries remain; otherwise
\* (only when lockMaxRetries is 0) the call returns false at once.
Refuse(h) ==
  /\ pc[h] = "trying"
  /\ IsLocked(ref[h])
  /\ pc' = [pc EXCEPT ![h] = IF attempt[h] < LockMaxRetries THEN "delaying"
                             ELSE "rejected"]
  /\ UNCHANGED <<memoryMap, lockMap, mutex, ref, attempt, snapshot>>

\* Variant: attempt++ is missing.
UncountedDelay(h) ==
  /\ pc[h] = "delaying"
  /\ pc' = [pc EXCEPT ![h] = "trying"]
  /\ UNCHANGED <<memoryMap, lockMap, mutex, ref, attempt, snapshot>>

\* The timer of the backoff fires; the call tries again, or returns false
\* having slept after its last attempt.
Delayed(h) ==
  /\ pc[h] = "delaying"
  /\ IF GivesUp(attempt[h] + 1)
     THEN /\ pc' = [pc EXCEPT ![h] = "rejected"]
          /\ attempt' = [attempt EXCEPT ![h] = 0]
     ELSE /\ pc' = [pc EXCEPT ![h] = "trying"]
          /\ attempt' = [attempt EXCEPT ![h] = @ + 1]
  /\ UNCHANGED <<memoryMap, lockMap, mutex, ref, snapshot>>

-----------------------------------------------------------------------------
(* read, write, unlock *)

Read(h) ==
  /\ pc[h] = "locked"
  /\ snapshot' = [snapshot EXCEPT ![h] = memoryMap[Subject[h]]]
  /\ pc' = [pc EXCEPT ![h] = "read"]
  /\ UNCHANGED <<memoryMap, lockMap, mutex, ref, attempt>>

\* The record is replaced unconditionally by one computed from the snapshot.
Write(h) ==
  /\ pc[h] = "read"
  /\ memoryMap' = [memoryMap EXCEPT ![Subject[h]] = snapshot[h] \cup {h}]
  /\ snapshot' = [snapshot EXCEPT ![h] = {}]
  /\ pc' = [pc EXCEPT ![h] = "written"]
  /\ UNCHANGED <<lockMap, mutex, ref, attempt>>

\* Variant: unlock only reports success.
ReleaseForgotten(id) == UNCHANGED mutex

\* unlock looks the mutex up again by id and releases it whoever holds it; a
\* missing mutex counts as unlocked.
Release(id) ==
  mutex' = IF lockMap[id] = None THEN mutex
           ELSE [mutex EXCEPT ![lockMap[id]] = "free"]

\* An execution that has not written ends without effect.
Outcome(state) ==
  IF state = "written" THEN "done"
  ELSE IF state = "cleaned" THEN "closed" ELSE "failed"

Unlock(h) ==
  /\ \/ pc[h] \in Critical \cup {"cleaned"}
     \/ pc[h] = "rejected" /\ ReleaseWhenRejected
  /\ Release(Subject[h])
  /\ pc' = [pc EXCEPT ![h] = Outcome(@)]
  /\ snapshot' = [snapshot EXCEPT ![h] = {}]
  /\ UNCHANGED <<memoryMap, lockMap, ref, attempt>>

\* The execution dies, or hangs for ever, without reaching its unlock.
Crash(h) ==
  /\ pc[h] \in Critical
  /\ pc' = [pc EXCEPT ![h] = "crashed"]
  /\ snapshot' = [snapshot EXCEPT ![h] = {}]
  /\ UNCHANGED <<memoryMap, lockMap, mutex, ref, attempt>>

-----------------------------------------------------------------------------
(* cleanup, clear *)

\* No execution other than those in Own is between its lock call and its end.
Quiet(id, Own) ==
  \A g \in Handlers \ Own :
    Subject[g] = id => pc[g] \in {"idle"} \cup Finished

\* The execution that completed its workflow drops record and mutex, before or
\* after it unlocks.  Only the map forgets the mutex: a lock call that has
\* captured it goes on using it.
Cleanup(h) ==
  /\ pc[h] \in {"written", "done"}
  /\ QuietCleanup => Quiet(Subject[h], {h})
  /\ pc' = [pc EXCEPT ![h] = IF @ = "written" THEN "cleaned" ELSE "closed"]
  /\ IF EnableCleanup
     THEN /\ memoryMap' = [memoryMap EXCEPT ![Subject[h]] = {}]
          /\ lockMap' = [lockMap EXCEPT ![Subject[h]] = None]
     ELSE UNCHANGED <<memoryMap, lockMap>>
  /\ UNCHANGED <<mutex, ref, attempt, snapshot>>

\* All records and mutexes are dropped.
Clear ==
  /\ QuietCleanup => \A id \in Ids : Quiet(id, {})
  /\ memoryMap' = [id \in Ids |-> {}]
  /\ lockMap' = [id \in Ids |-> None]
  /\ UNCHANGED <<mutex, pc, ref, attempt, snapshot>>

-----------------------------------------------------------------------------
Next ==
  \/ \E h \in Handlers :
       \/ LockCall(h)
       \/ Acquire(h)
       \/ Refuse(h)
       \/ Delayed(h)
       \/ Read(h)
       \/ Write(h)
       \/ Unlock(h)
       \/ Crash(h)
       \/ Cleanup(h)
  \/ \E m \in Handlers : Expire(m)
  \/ Clear

Spec == Init /\ [][Next]_vars

\* The event loop runs every callback that is due and every timer fires: a
\* lock call, once made, is never left waiting.  Nothing is assumed of the
\* holders, which may keep the lock for ever.
LockCallFairness ==
  \A h \in Handlers :
    WF_vars(Acquire(h)) /\ WF_vars(Refuse(h)) /\ WF_vars(Delayed(h))

FairSpec == Spec /\ LockCallFairness

-----------------------------------------------------------------------------
(* Properties *)

\* The discipline under which the memory keeps its promises: leases outlast
\* the work done under them, workflows are removed only when unused, and only
\* an execution that acquired the lock releases it.
Disciplined == Timely /\ QuietCleanup /\ ~ReleaseWhenRejected

InCriticalSection(h) == pc[h] \in Critical

\* At most one execution at a time is between its acquired lock and its unlock
\* on a workflow: lock "prevents concurrent processing of the same workflow
\* instance" (index.ts:131-133).
MutualExclusion ==
  \A g, h \in Handlers :
    g # h /\ Subject[g] = Subject[h] =>
      ~(InCriticalSection(g) /\ InCriticalSection(h))

\* A mutex that an execution can still come to wait for (through the map, or
\* because its lock call captured it) is never held on behalf of nobody: there
\* is a live holder that has yet to unlock it, or a crashed one.
\* A phantom hold would make lock calls fail while the workflow is unused.
NoPhantomLock ==
  \A m \in Handlers :
    /\ mutex[m] # "free"
    /\ \/ \E id \in Ids : lockMap[id] = m
       \/ \E h \in Handlers : ref[h] = m /\ pc[h] \in Locking
    => \E h \in Handlers : ref[h] = m /\ pc[h] \in Critical \cup {"cleaned", "crashed"}

\* Every committed update stays in the record until the record is removed: the
\* memory is a WorkflowStore.  This is the corruption by overlapping
\* read-modify-write that the locks are there to prevent (README.md:35-37).
Store == INSTANCE WorkflowStore WITH Updates <- Handlers, store <- memoryMap
NoLostUpdate == Store!Spec

\* Every lock call returns, even if the current holder never unlocks and its
\* lease never runs out: the retries are bounded.
LockCallReturns ==
  \A h \in Handlers : pc[h] \in Locking ~> pc[h] \notin Locking

\* A lock call that has an attempt left.
Waiting(h) ==
  \/ pc[h] = "trying"
  \/ pc[h] = "delaying" /\ ~GivesUp(attempt[h] + 1)

\* A lease that has run out keeps nobody out: if a lock call waits for the mutex,
\* it or another is given the lock, however the holder ended, and even if the
\* workflow has been removed from the map meanwhile (TTLMutex.ts:25-27, 56-60).
LapsedLockIsTakenOver ==
  \A h \in Handlers :
    Waiting(h) /\ mutex[ref[h]] = "lapsed" ~>
      \E g \in Handlers : ref[g] = ref[h] /\ pc[g] = "locked"
=============================================================================
