--------------------- MODULE PostgresMachineMemoryProofs ---------------------
(***************************************************************************)
(* Proofs about PostgresMachineMemory, for any number of executions,       *)
(* subjects, processes, clients and retries.                               *)
(*                                                                         *)
(* The arguments.  Updates: as long as a subject has not been removed,     *)
(* the version of its row identifies its data, so that a row that still    *)
(* has the version an execution has read has the data it has read          *)
(* (VersionsIdentify); an insert waits for the other inserts of its        *)
(* subject, so that a row is not replaced by one (InsertsAlone).           *)
(* Exclusion: the one holder of a lock that is not compromised finds it    *)
(* held (HolderAlone).  Roots: a parent's row is there before a child's    *)
(* (ParentsFirst), and does not change until it is removed.                *)
(***************************************************************************)
EXTENDS PostgresMachineMemory, FiniteSetTheorems, TLAPS

\* The loop of lock backs off only if it has a retry left.
DelaysAreRetries ==
  \A h \in Handlers : pc[h] = "delay" => attempt[h] < MaxRetries

TypeInv == TypeOK /\ DelaysAreRetries

\* What an execution has read is a local of its write.
ReadIsLocal ==
  \A h \in Handlers : prevData[h] # None => pc[h] = "write"

\* An execution that has not written is in no row and in no copy of one.
NotWritten == {"idle", "lock", "delay", "read", "write", "commit"}
WrittenOnce ==
  \A h \in Handlers : pc[h] \in NotWritten =>
    /\ \A id \in Ids : state[id] # None => h \notin state[id].data
    /\ \A g \in Handlers : prevData[g] # None => h \notin prevData[g].data

\* Between INSERT and COMMIT the row is not there, and no other INSERT of it
\* is under way.
InsertsAlone ==
  \A h \in Handlers : pc[h] = "commit" =>
    /\ state[Subject[h]] = None
    /\ \A g \in Handlers \ {h} : Subject[g] = Subject[h] => pc[g] # "commit"

\* A row that has been read and was not removed is still there, with the same
\* version only if it has the same data.
VersionsIdentify ==
  \A h \in Handlers : prevData[h] # None /\ Subject[h] \notin removed =>
    /\ state[Subject[h]] # None
    /\ prevData[h].version <= state[Subject[h]].version
    /\ prevData[h].version = state[Subject[h]].version =>
         prevData[h].data = state[Subject[h]].data

UpdateInv ==
  /\ TypeInv
  /\ ReadIsLocal
  /\ WrittenOnce
  /\ InsertsAlone
  /\ VersionsIdentify

\* While its lease is good, the execution between lock and unlock finds the
\* lock held, and is the only one there.
HolderAlone ==
  \A h \in Handlers : pc[h] \in Holding /\ Subject[h] \notin compromised =>
    /\ lockTable[Subject[h]] = "held"
    /\ \A g \in Handlers \ {h} : Subject[g] = Subject[h] => pc[g] \notin Holding

\* Where a client is held, and that there are finitely many held.
PoolInv ==
  /\ IsFiniteSet(clients)
  /\ ClientsAreReturned

\* A subject that was created has its rows until it is removed.
RowsOfCreated ==
  \A id \in created \ removed : state[id] # None /\ hierarchy[id] # None

\* Work on a subject begins once its parent has been created.
ParentsFirst ==
  /\ \A h \in Handlers : pc[h] # "idle" => Parent[Subject[h]] \in created \cup {None}
  /\ \A id \in Ids : hierarchy[id] # None => Parent[id] \in created \cup {None}

\* The root an open transaction has looked up is still the parent's.
RootIsCurrent ==
  \A h \in Handlers : pc[h] = "commit" =>
    /\ root[h] # None
    /\ Parent[Subject[h]] \notin removed \cup {None} =>
         root[h] = hierarchy[Parent[Subject[h]]]

TreeInv ==
  /\ TypeInv
  /\ InsertsAlone
  /\ RowsOfCreated
  /\ ParentsFirst
  /\ RootIsCurrent
  /\ TreeSharesRoot

-----------------------------------------------------------------------------
\* The initial state is well typed.
LEMMA TypeInit == Init => TypeInv
  BY SubjectsAssumption, ConfigAssumption
     DEF Init, TypeInv, TypeOK, DelaysAreRetries, Operations, Ended

\* An operation that ends leaves well-typed locals.
LEMMA ReturnType ==
  ASSUME TypeInv, NEW h \in Handlers, NEW data \in Rows \cup {None},
         NEW next \in Operations \cup Ended, Return(h, next, data)
  PROVE  /\ clients' \in SUBSET Handlers
         /\ pc' \in [Handlers -> {"idle", "delay", "commit"} \cup Operations \cup Ended]
         /\ attempt' \in [Handlers -> 0 .. MaxRetries]
         /\ prevData' \in [Handlers -> Rows \cup {None}]
         /\ root' \in [Handlers -> Ids \cup {None}]
         /\ DelaysAreRetries'
<1> USE ConfigAssumption DEF TypeInv, TypeOK, Return, Release, DelaysAreRetries
<1>1. 0 \in 0 .. MaxRetries
  OBVIOUS
<1>2. pc'[h] # "delay"
  BY DEF Operations, Ended
<1> QED
  BY <1>1, <1>2

\* Every step leaves the variables well typed.
LEMMA TypeStep == ASSUME TypeInv, [Next]_vars PROVE TypeInv'
<1> USE SubjectsAssumption, ConfigAssumption
    DEF TypeInv, rows, locals, history
<1>thr. ASSUME NEW h \in Handlers, Throw(h)
        PROVE  \E next \in Operations \cup Ended : Return(h, next, None)
  BY <1>thr DEF Throw, Operations, Ended
<1>wr. ASSUME NEW h \in Handlers, NEW answered \in BOOLEAN, ReturnWritten(h, answered)
       PROVE  \E next \in Operations \cup Ended : Return(h, next, None)
  <2>1. CASE ~answered
    BY <2>1, <1>wr, <1>thr DEF ReturnWritten
  <2>2. CASE answered
    BY <2>2, <1>wr DEF ReturnWritten, Operations
  <2> QED
    BY <2>1, <2>2
<1>ret. ASSUME NEW h \in Handlers, NEW next \in Operations \cup Ended,
               Return(h, next, None) \/ Return(h, next, state[Subject[h]]),
               state' \in [Ids -> Rows \cup {None}],
               hierarchy' \in [Ids -> Ids \cup {None}],
               lockTable' \in [Ids -> {"free", "held", "lapsed"}],
               created' \in SUBSET Ids, removed' \in SUBSET Ids, compromised' \in SUBSET Ids
        PROVE  TypeInv'
  <2>1. state[Subject[h]] \in Rows \cup {None}
    BY DEF TypeOK
  <2> QED
    BY <1>ret, <2>1, ReturnType DEF TypeOK
<1>1. ASSUME NEW h \in Handlers, Start(h) PROVE TypeInv'
  BY <1>1 DEF Start, TypeOK, DelaysAreRetries, Operations
<1>2. ASSUME NEW h \in Handlers, Connect(h) PROVE TypeInv'
  BY <1>2 DEF Connect, TypeOK, DelaysAreRetries
<1>3. ASSUME NEW h \in Handlers, ConnectTimesOut(h) PROVE TypeInv'
  BY <1>3, <1>thr, <1>ret DEF ConnectTimesOut, TypeOK
<1>4. ASSUME NEW h \in Handlers, QueryFails(h) PROVE TypeInv'
  BY <1>4, <1>thr, <1>ret DEF QueryFails, TypeOK, Operations
<1>5. ASSUME NEW h \in Handlers, NEW answered \in BOOLEAN, TryLock(h, answered)
      PROVE  TypeInv'
  <2>1. CASE CanBeLocked(Subject[h])
    <3>1. lockTable' \in [Ids -> {"free", "held", "lapsed"}]
      BY <1>5, <2>1 DEF TryLock, TypeOK
    <3>2. \E next \in Operations \cup Ended : Return(h, next, None)
      BY <1>5, <2>1, <1>thr DEF TryLock, Operations
    <3> QED
      BY <1>5, <3>1, <3>2, <1>ret DEF TryLock, TypeOK
  <2>2. CASE ~CanBeLocked(Subject[h]) /\ RetriesLeft(attempt[h])
    BY <1>5, <2>2 DEF TryLock, RetriesLeft, TypeOK, DelaysAreRetries
  <2>3. CASE ~CanBeLocked(Subject[h]) /\ ~RetriesLeft(attempt[h])
    BY <1>5, <2>3, <1>ret DEF TryLock, TypeOK, Ended
  <2> QED
    BY <2>1, <2>2, <2>3
<1>6. ASSUME NEW h \in Handlers, Delayed(h) PROVE TypeInv'
  <2>1. attempt[h] + 1 \in 0 .. MaxRetries
    BY <1>6 DEF Delayed, TypeOK, DelaysAreRetries
  <2> QED
    BY <1>6, <2>1 DEF Delayed, TypeOK, DelaysAreRetries, Operations
<1>7. ASSUME NEW h \in Handlers, Read(h) PROVE TypeInv'
  BY <1>7, <1>ret DEF Read, TypeOK, Operations
<1>8. ASSUME NEW h \in Handlers, InsertState(h) PROVE TypeInv'
  <2>1. CASE state[Subject[h]] = None
    <3>1. RootFor(Subject[h]) \in Ids
      BY DEF RootFor, TypeOK
    <3> QED
      BY <1>8, <2>1, <3>1 DEF InsertState, TypeOK, DelaysAreRetries
  <2>2. CASE state[Subject[h]] # None
    BY <1>8, <2>2, <1>thr, <1>ret DEF InsertState, TypeOK
  <2> QED
    BY <2>1, <2>2
<1>9. ASSUME NEW h \in Handlers, NEW answered \in BOOLEAN, CommitInsert(h, answered)
      PROVE  TypeInv'
  <2>1. [version |-> 1, data |-> {h}] \in Rows
    BY DEF Rows
  <2>2. state' \in [Ids -> Rows \cup {None}] /\ hierarchy' \in [Ids -> Ids \cup {None}]
    BY <1>9, <2>1 DEF CommitInsert, TypeOK
  <2>3. /\ lockTable' \in [Ids -> {"free", "held", "lapsed"}]
        /\ created' \in SUBSET Ids /\ removed' \in SUBSET Ids /\ compromised' \in SUBSET Ids
    BY <1>9 DEF CommitInsert, TypeOK
  <2>4. \E next \in Operations \cup Ended : Return(h, next, None)
    BY <1>9, <1>wr DEF CommitInsert
  <2> QED
    BY <2>2, <2>3, <2>4, <1>ret
<1>10. ASSUME NEW h \in Handlers, NEW answered \in BOOLEAN, UpdateState(h, answered)
       PROVE  TypeInv'
  <2>1. prevData[h] \in Rows
    BY <1>10 DEF UpdateState, TypeOK
  <2>2. [version |-> NewVersion(prevData[h].version), data |-> prevData[h].data \cup {h}]
          \in Rows
    BY <2>1 DEF Rows, NewVersion
  <2>3. state' \in [Ids -> Rows \cup {None}]
    BY <1>10, <2>2 DEF UpdateState, TypeOK
  <2>4. \E next \in Operations \cup Ended : Return(h, next, None)
    BY <1>10, <1>wr, <1>thr DEF UpdateState
  <2> QED
    BY <1>10, <2>3, <2>4, <1>ret DEF UpdateState, TypeOK
<1>11. ASSUME NEW h \in Handlers, Unlock(h) PROVE TypeInv'
  <2>1. lockTable' \in [Ids -> {"free", "held", "lapsed"}]
    BY <1>11 DEF Unlock, TypeOK
  <2> QED
    BY <1>11, <2>1, <1>ret DEF Unlock, TypeOK, Operations, Ended
<1>12. ASSUME NEW h \in Handlers, Cleanup(h) PROVE TypeInv'
  <2>1. /\ state' \in [Ids -> Rows \cup {None}]
        /\ hierarchy' \in [Ids -> Ids \cup {None}]
        /\ lockTable' \in [Ids -> {"free", "held", "lapsed"}]
    BY <1>12 DEF Cleanup, TypeOK
  <2>2. removed' \in SUBSET Ids /\ compromised' \in SUBSET Ids /\ created' \in SUBSET Ids
    BY <1>12 DEF Cleanup, TypeOK
  <2> QED
    BY <1>12, <2>1, <2>2, <1>ret DEF Cleanup, Operations, Ended
<1>13. ASSUME NEW id \in Ids, Expire(id) PROVE TypeInv'
  BY <1>13 DEF Expire, TypeOK, DelaysAreRetries
<1>14. ASSUME NEW p \in Processes, Crash(p) PROVE TypeInv'
  <2>1. 0 \in 0 .. MaxRetries
    OBVIOUS
  <2>2. /\ pc' \in [Handlers -> {"idle", "delay", "commit"} \cup Operations \cup Ended]
        /\ attempt' \in [Handlers -> 0 .. MaxRetries]
    BY <1>14, <2>1 DEF Crash, TypeOK, Ended
  <2>3. /\ prevData' \in [Handlers -> Rows \cup {None}]
        /\ root' \in [Handlers -> Ids \cup {None}]
        /\ clients' \in SUBSET Handlers
    BY <1>14 DEF Crash, TypeOK
  <2>4. DelaysAreRetries'
    BY <1>14 DEF Crash, TypeOK, DelaysAreRetries
  <2> QED
    BY <1>14, <2>2, <2>3, <2>4 DEF Crash, TypeOK
<1>15. CASE UNCHANGED vars
  BY <1>15 DEF vars, TypeOK, DelaysAreRetries
<1> QED
  BY <1>1, <1>2, <1>3, <1>4, <1>5, <1>6, <1>7, <1>8, <1>9, <1>10, <1>11, <1>12, <1>13,
     <1>14, <1>15 DEF Next, Step

\* The variables keep their types; the loop of lock never counts beyond its
\* retries (index.ts:293-334).
THEOREM TypeCorrect == Spec => []TypeOK
<1>1. TypeInv /\ [Next]_vars => TypeInv'
  BY TypeStep
<1>2. TypeInv => TypeOK
  BY DEF TypeInv
<1> QED
  BY TypeInit, <1>1, <1>2, PTL DEF Spec

-----------------------------------------------------------------------------
(* Updates *)

\* A step that leaves the rows alone, and no execution closer to writing.
Quiet ==
  /\ state' = state
  /\ removed' = removed
  /\ \A h \in Handlers :
       /\ pc'[h] \in NotWritten => pc[h] \in NotWritten
       /\ pc'[h] = "commit" => pc[h] = "commit"
       /\ prevData'[h] = None \/ (prevData'[h] = prevData[h] /\ pc'[h] = pc[h])

\* The INSERT of the state row succeeds.
Opens(h) == InsertState(h) /\ state[Subject[h]] = None

\* The UPDATE finds the version that was read.
Updates(h, answered) == UpdateState(h, answered) /\ VersionMatches(h)

\* An operation that ends without touching the rows is quiet.
LEMMA ReturnIsQuiet ==
  ASSUME TypeOK, NEW h \in Handlers, NEW next \in Operations \cup Ended,
         Return(h, next, None), state' = state, removed' = removed,
         next \in NotWritten => pc[h] \in NotWritten
  PROVE  Quiet
<1>1. next # "commit"
  BY DEF Operations, Ended
<1> QED
  BY <1>1 DEF TypeOK, Return, Quiet

\* An operation that throws without touching the rows is quiet.
LEMMA ThrowIsQuiet ==
  ASSUME TypeOK, NEW h \in Handlers, Throw(h), state' = state, removed' = removed
  PROVE  Quiet
<1>1. \E next \in {"rejected", "done", "unlock"} : Return(h, next, None)
  BY DEF Throw
<1>2. {"rejected", "done", "unlock"} \subseteq (Operations \cup Ended) \ NotWritten
  BY DEF Operations, Ended, NotWritten
<1> QED
  BY <1>1, <1>2, ReturnIsQuiet

\* Where an execution goes on that has written.
LEMMA ReturnWrittenEnds ==
  ASSUME NEW h \in Handlers, NEW answered \in BOOLEAN, ReturnWritten(h, answered)
  PROVE  \E next \in (Operations \cup Ended) \ NotWritten : Return(h, next, None)
<1>1. {"rejected", "done", "unlock", "unlockFirst", "cleanup"}
        \subseteq (Operations \cup Ended) \ NotWritten
  BY DEF Operations, Ended, NotWritten
<1> QED
  BY <1>1 DEF ReturnWritten, Throw

\* The steps that matter to the rows are five; all others are quiet.
LEMMA StepKinds ==
  ASSUME TypeOK, ReadIsLocal, [Next]_vars
  PROVE  \/ Quiet
         \/ \E h \in Handlers : Read(h) \/ Opens(h) \/ Cleanup(h)
         \/ \E h \in Handlers, answered \in BOOLEAN :
              CommitInsert(h, answered) \/ Updates(h, answered)
<1> USE DEF rows, locals, history
<1>1. ASSUME NEW h \in Handlers, Start(h) PROVE Quiet
  BY <1>1 DEF Start, Quiet, NotWritten, TypeOK, ReadIsLocal
<1>2. ASSUME NEW h \in Handlers, Connect(h) PROVE Quiet
  BY <1>2 DEF Connect, Quiet
<1>3. ASSUME NEW h \in Handlers, ConnectTimesOut(h) PROVE Quiet
  BY <1>3, ThrowIsQuiet DEF ConnectTimesOut
<1>4. ASSUME NEW h \in Handlers, QueryFails(h) PROVE Quiet
  BY <1>4, ThrowIsQuiet, ReturnIsQuiet DEF QueryFails, Operations, NotWritten
<1>5. ASSUME NEW h \in Handlers, NEW answered \in BOOLEAN, TryLock(h, answered)
      PROVE  Quiet
  <2>1. state' = state /\ removed' = removed /\ pc[h] = "lock"
    BY <1>5 DEF TryLock
  <2>2. CASE \E next \in {"read", "rejected"} : Return(h, next, None)
    BY <2>1, <2>2, ReturnIsQuiet DEF Operations, Ended, NotWritten
  <2>3. CASE Throw(h)
    BY <2>1, <2>3, ThrowIsQuiet
  <2>4. CASE pc' = [pc EXCEPT ![h] = "delay"] /\ UNCHANGED locals
    BY <2>1, <2>4 DEF Quiet, NotWritten, TypeOK, ReadIsLocal
  <2> QED
    BY <1>5, <2>2, <2>3, <2>4 DEF TryLock
<1>6. ASSUME NEW h \in Handlers, Delayed(h) PROVE Quiet
  BY <1>6 DEF Delayed, Quiet, NotWritten, TypeOK, ReadIsLocal
<1>7. ASSUME NEW h \in Handlers, InsertState(h), ~Opens(h) PROVE Quiet
  BY <1>7, ThrowIsQuiet DEF InsertState, Opens
<1>8. ASSUME NEW h \in Handlers, NEW answered \in BOOLEAN,
             UpdateState(h, answered), ~Updates(h, answered)
      PROVE  Quiet
  BY <1>8, ThrowIsQuiet DEF UpdateState, Updates
<1>9. ASSUME NEW h \in Handlers, Unlock(h) PROVE Quiet
  BY <1>9, ReturnIsQuiet DEF Unlock, Operations, Ended, NotWritten
<1>10. ASSUME NEW id \in Ids, Expire(id) PROVE Quiet
  BY <1>10 DEF Expire, Quiet
<1>11. ASSUME NEW p \in Processes, Crash(p) PROVE Quiet
  BY <1>11 DEF Crash, Quiet, NotWritten
<1>12. CASE UNCHANGED vars
  BY <1>12 DEF vars, Quiet
<1> QED
  BY <1>1, <1>2, <1>3, <1>4, <1>5, <1>6, <1>7, <1>8, <1>9, <1>10, <1>11, <1>12
     DEF Next, Step

\* No rows, no copies, no transactions.
LEMMA UpdateInit == Init => UpdateInv
  BY TypeInit
     DEF Init, UpdateInv, ReadIsLocal, WrittenOnce, InsertsAlone, VersionsIdentify

\* Every step keeps the version of a row an identification of its data.
LEMMA UpdateStep == ASSUME UpdateInv, [Next]_vars PROVE UpdateInv'
<1> DEFINE Parts == ReadIsLocal /\ WrittenOnce /\ InsertsAlone /\ VersionsIdentify
<1> USE SubjectsAssumption, NoneAssumption DEF rows, locals, history
<1>t. TypeInv /\ TypeInv' /\ TypeOK /\ Parts
  BY TypeStep DEF UpdateInv, TypeInv
<1>1. CASE Quiet
  <2>1. ReadIsLocal' /\ WrittenOnce'
    BY <1>1, <1>t DEF Quiet, ReadIsLocal, WrittenOnce
  <2>2. InsertsAlone' /\ VersionsIdentify'
    BY <1>1, <1>t DEF Quiet, InsertsAlone, VersionsIdentify
  <2> QED
    BY <2>1, <2>2, <1>t DEF UpdateInv
<1>2. ASSUME NEW h \in Handlers, Read(h) PROVE Parts'
  <2>1. /\ state' = state /\ removed' = removed
        /\ pc' = [pc EXCEPT ![h] = "write"]
        /\ prevData' = [prevData EXCEPT ![h] = state[Subject[h]]]
        /\ pc[h] = "read"
    BY <1>2 DEF Read, Return
  <2>2. ReadIsLocal' /\ WrittenOnce' /\ InsertsAlone'
    BY <2>1, <1>t DEF ReadIsLocal, WrittenOnce, InsertsAlone, TypeOK, NotWritten
  <2>3. VersionsIdentify'
    <3> SUFFICES ASSUME NEW g \in Handlers, prevData'[g] # None, Subject[g] \notin removed
                 PROVE  /\ state[Subject[g]] # None
                        /\ prevData'[g].version <= state[Subject[g]].version
                        /\ prevData'[g].version = state[Subject[g]].version =>
                             prevData'[g].data = state[Subject[g]].data
      BY <2>1 DEF VersionsIdentify
    <3>1. CASE g = h
      <4>1. prevData'[g] = state[Subject[g]] /\ state[Subject[g]] \in Rows
        BY <2>1, <3>1, <1>t DEF TypeOK
      <4> QED
        BY <4>1 DEF Rows
    <3>2. CASE g # h
      BY <2>1, <3>2, <1>t DEF VersionsIdentify, TypeOK
    <3> QED
      BY <3>1, <3>2
  <2> QED
    BY <2>2, <2>3
<1>3. ASSUME NEW h \in Handlers, Opens(h) PROVE Parts'
  <2>1. /\ state' = state /\ removed' = removed /\ prevData' = prevData
        /\ pc' = [pc EXCEPT ![h] = "commit"]
        /\ pc[h] = "write" /\ prevData[h] = None /\ state[Subject[h]] = None
        /\ ~\E g \in Handlers : Subject[g] = Subject[h] /\ pc[g] = "commit"
    BY <1>3 DEF Opens, InsertState
  <2> QED
    BY <2>1, <1>t
       DEF ReadIsLocal, WrittenOnce, InsertsAlone, VersionsIdentify, TypeOK, NotWritten
<1>4. ASSUME NEW h \in Handlers, Cleanup(h) PROVE Parts'
  <2>1. /\ state' = [state EXCEPT ![Subject[h]] = None]
        /\ removed' = removed \cup {Subject[h]}
        /\ prevData' = [prevData EXCEPT ![h] = None]
        /\ \E next \in {"unlock", "done"} : pc' = [pc EXCEPT ![h] = next]
        /\ pc[h] \in {"cleanup", "lateCleanup"}
    BY <1>4 DEF Cleanup, Return
  <2>2. ReadIsLocal' /\ WrittenOnce'
    BY <2>1, <1>t DEF ReadIsLocal, WrittenOnce, TypeOK, NotWritten
  <2>3. InsertsAlone' /\ VersionsIdentify'
    BY <2>1, <1>t DEF InsertsAlone, VersionsIdentify, TypeOK
  <2> QED
    BY <2>2, <2>3
<1>5. ASSUME NEW h \in Handlers, NEW answered \in BOOLEAN, CommitInsert(h, answered)
      PROVE  Parts'
  <2> DEFINE new == [version |-> 1, data |-> {h}]
  <2>1. /\ state' = [state EXCEPT ![Subject[h]] = new]
        /\ removed' = removed /\ pc[h] = "commit" /\ state[Subject[h]] = None
    BY <1>5, <1>t DEF CommitInsert, InsertsAlone
  <2>2. PICK next \in (Operations \cup Ended) \ NotWritten : Return(h, next, None)
    BY <1>5, ReturnWrittenEnds DEF CommitInsert
  <2>3. /\ pc' = [pc EXCEPT ![h] = next] /\ prevData' = [prevData EXCEPT ![h] = None]
        /\ next \notin NotWritten
    BY <2>2 DEF Return
  <2>4. ReadIsLocal' /\ WrittenOnce'
    BY <2>1, <2>3, <1>t DEF ReadIsLocal, WrittenOnce, TypeOK
  <2>5. InsertsAlone'
    BY <2>1, <2>3, <1>t DEF InsertsAlone, TypeOK, NotWritten
  <2>6. VersionsIdentify'
    BY <2>1, <2>3, <1>t DEF VersionsIdentify, TypeOK
  <2> QED
    BY <2>4, <2>5, <2>6
<1>6. ASSUME NEW h \in Handlers, NEW answered \in BOOLEAN, Updates(h, answered)
      PROVE  Parts'
  <2> DEFINE new == [version |-> prevData[h].version + 1, data |-> prevData[h].data \cup {h}]
  <2>1. /\ state' = [state EXCEPT ![Subject[h]] = new]
        /\ removed' = removed /\ pc[h] = "write" /\ prevData[h] # None
        /\ state[Subject[h]] # None /\ state[Subject[h]].version = prevData[h].version
    BY <1>6 DEF Updates, UpdateState, NewVersion, VersionMatches
  <2>2. PICK next \in (Operations \cup Ended) \ NotWritten : Return(h, next, None)
    BY <1>6, ReturnWrittenEnds DEF Updates, UpdateState
  <2>3. /\ pc' = [pc EXCEPT ![h] = next] /\ prevData' = [prevData EXCEPT ![h] = None]
        /\ next \notin NotWritten
    BY <2>2 DEF Return
  <2>4. prevData[h] \in Rows /\ prevData[h].version \in Nat
    BY <2>1, <1>t DEF TypeOK, Rows
  <2>5. new \in Rows
    BY <2>4 DEF Rows
  <2>6. ReadIsLocal' /\ WrittenOnce'
    BY <2>1, <2>3, <1>t DEF ReadIsLocal, WrittenOnce, TypeOK
  <2>7. InsertsAlone'
    BY <2>1, <2>3, <1>t DEF InsertsAlone, TypeOK, NotWritten
  <2>8. VersionsIdentify'
    <3> SUFFICES ASSUME NEW g \in Handlers, prevData'[g] # None, Subject[g] \notin removed
                 PROVE  /\ state'[Subject[g]] # None
                        /\ prevData'[g].version <= state'[Subject[g]].version
                        /\ prevData'[g].version = state'[Subject[g]].version =>
                             prevData'[g].data = state'[Subject[g]].data
      BY <2>1 DEF VersionsIdentify
    <3>1. prevData'[g] = prevData[g] /\ prevData[g] # None /\ prevData[g].version \in Nat
      BY <2>3, <1>t DEF TypeOK, Rows
    <3>2. CASE Subject[g] = Subject[h]
      <4>1. state'[Subject[g]] = new /\ state'[Subject[g]] # None
        BY <2>1, <2>5, <3>2, <1>t DEF TypeOK
      <4>2. prevData[g].version <= prevData[h].version
        BY <2>1, <3>1, <3>2, <1>t DEF VersionsIdentify
      <4> QED
        BY <4>1, <4>2, <3>1, <2>4
    <3>3. CASE Subject[g] # Subject[h]
      BY <2>1, <3>1, <3>3, <1>t DEF VersionsIdentify, TypeOK
    <3> QED
      BY <3>2, <3>3
  <2> QED
    BY <2>6, <2>7, <2>8
<1> QED
  BY <1>1, <1>2, <1>3, <1>4, <1>5, <1>6, <1>t, StepKinds DEF UpdateInv

\* The invariant holds in every reachable state.
LEMMA UpdateInvariant == Spec => []UpdateInv
<1>1. UpdateInv /\ [Next]_vars => UpdateInv'
  BY UpdateStep
<1> QED
  BY UpdateInit, <1>1, PTL DEF Spec

\* What one step can do to a record that has not been removed before.
LEMMA RecordStep ==
  ASSUME UpdateInv, [Next]_vars, NEW id \in Ids \ removed, DataOf(id)' # DataOf(id)
  PROVE  \/ id \in removed'
         \/ \E h \in Handlers \ DataOf(id) :
              Subject[h] = id /\ DataOf(id)' = DataOf(id) \cup {h}
<1> DEFINE Goal == \/ id \in removed'
                   \/ \E h \in Handlers \ DataOf(id) :
                        Subject[h] = id /\ DataOf(id)' = DataOf(id) \cup {h}
<1> USE SubjectsAssumption, NoneAssumption DEF rows, locals, history
<1>t. TypeOK /\ ReadIsLocal /\ WrittenOnce /\ InsertsAlone /\ VersionsIdentify
  BY DEF UpdateInv, TypeInv
<1>1. CASE state' = state
  BY <1>1 DEF DataOf
<1>2. ASSUME NEW h \in Handlers, Read(h) \/ Opens(h) PROVE Goal
  BY <1>2, <1>1 DEF Read, Opens, InsertState
<1>3. ASSUME NEW h \in Handlers, Cleanup(h) PROVE Goal
  BY <1>3, <1>t DEF Cleanup, DataOf, TypeOK
<1>4. ASSUME NEW h \in Handlers, NEW answered \in BOOLEAN, CommitInsert(h, answered)
      PROVE  Goal
  <2>1. /\ state' = [state EXCEPT ![Subject[h]] = [version |-> 1, data |-> {h}]]
        /\ state[Subject[h]] = None
    BY <1>4, <1>t DEF CommitInsert, InsertsAlone
  <2>2. Subject[h] = id
    BY <2>1, <1>t DEF DataOf, TypeOK
  <2>3. [version |-> 1, data |-> {h}] \in Rows
    BY DEF Rows
  <2>4. DataOf(id) = {} /\ DataOf(id)' = {h}
    BY <2>1, <2>2, <2>3, <1>t DEF DataOf, TypeOK
  <2> QED
    BY <2>2, <2>4
<1>5. ASSUME NEW h \in Handlers, NEW answered \in BOOLEAN, Updates(h, answered)
      PROVE  Goal
  <2> DEFINE new == [version |-> prevData[h].version + 1, data |-> prevData[h].data \cup {h}]
  <2>1. /\ state' = [state EXCEPT ![Subject[h]] = new]
        /\ pc[h] = "write" /\ prevData[h] # None
        /\ state[Subject[h]] # None /\ state[Subject[h]].version = prevData[h].version
    BY <1>5 DEF Updates, UpdateState, NewVersion, VersionMatches
  <2>2. Subject[h] = id
    BY <2>1, <1>t DEF DataOf, TypeOK
  <2>3. prevData[h] \in Rows /\ new \in Rows
    BY <2>1, <1>t DEF TypeOK, Rows
  <2>4. DataOf(id) = state[id].data /\ state[id].data = prevData[h].data
    BY <2>1, <2>2, <1>t DEF DataOf, VersionsIdentify
  <2>5. DataOf(id)' = new.data
    BY <2>1, <2>2, <2>3, <1>t DEF DataOf, TypeOK
  <2>6. h \notin DataOf(id)
    BY <2>1, <2>2, <2>4, <1>t DEF WrittenOnce, NotWritten
  <2> QED
    BY <2>2, <2>4, <2>5, <2>6
<1> QED
  BY <1>1, <1>2, <1>3, <1>4, <1>5, <1>t, StepKinds DEF Quiet

\* Whatever leases expire, connections break and processes crash, and however
\* many executions write at a time: no write undoes another's (index.ts:211-230).
THEOREM UpdatesAreKept == Spec => NoLostUpdate
<1> DEFINE Adds(id) == \/ id \in removed'
                       \/ \E h \in Handlers \ DataOf(id) :
                            Subject[h] = id /\ DataOf(id)' = DataOf(id) \cup {h}
<1>1. UpdateInv /\ [Next]_vars =>
        [\A id \in Ids \ removed : DataOf(id)' # DataOf(id) => Adds(id)]_vars
  BY RecordStep
<1> QED
  BY UpdateInvariant, <1>1, PTL DEF Spec, NoLostUpdate

-----------------------------------------------------------------------------
(* The table as a WorkflowStore *)

\* With config.enableCleanup off, nothing is ever removed.
KeptInv ==
  /\ removed = {}
  /\ \A h \in Handlers : pc[h] \notin {"cleanup", "unlockFirst", "lateCleanup"}

\* No step leads to a cleanup.
LEMMA KeptStep == ASSUME ~EnableCleanup, TypeOK, KeptInv, [Next]_vars PROVE KeptInv'
<1> USE DEF rows, locals, history
<1>1. ASSUME NEW h \in Handlers, NEW next, NEW data, Return(h, next, data),
             next \notin {"cleanup", "unlockFirst", "lateCleanup"}, removed' = removed
      PROVE  KeptInv'
  BY <1>1 DEF Return, KeptInv, TypeOK
<1>2. ASSUME NEW h \in Handlers, Throw(h), removed' = removed PROVE KeptInv'
  BY <1>2, <1>1 DEF Throw
<1>3. ASSUME NEW h \in Handlers, NEW answered \in BOOLEAN, ReturnWritten(h, answered),
             removed' = removed
      PROVE  KeptInv'
  BY <1>3, <1>1, <1>2 DEF ReturnWritten
<1>4. ASSUME NEW h \in Handlers,
             Start(h) \/ Connect(h) \/ Delayed(h) \/ UNCHANGED vars
      PROVE  KeptInv'
  BY <1>4 DEF Start, Connect, Delayed, vars, KeptInv, TypeOK
<1>5. ASSUME NEW h \in Handlers, ConnectTimesOut(h) \/ QueryFails(h) \/ Read(h) \/ Unlock(h)
      PROVE  KeptInv'
  BY <1>5, <1>1, <1>2 DEF ConnectTimesOut, QueryFails, Read, Unlock, KeptInv
<1>6. ASSUME NEW h \in Handlers, Cleanup(h) PROVE FALSE
  BY <1>6 DEF Cleanup, KeptInv
<1>7. ASSUME NEW h \in Handlers, InsertState(h) PROVE KeptInv'
  BY <1>7, <1>2 DEF InsertState, KeptInv, TypeOK
<1>8. ASSUME NEW h \in Handlers, NEW answered \in BOOLEAN,
             CommitInsert(h, answered) \/ UpdateState(h, answered)
      PROVE  KeptInv'
  BY <1>8, <1>2, <1>3 DEF CommitInsert, UpdateState
<1>9. ASSUME NEW h \in Handlers, NEW answered \in BOOLEAN, TryLock(h, answered)
      PROVE  KeptInv'
  <2>1. removed' = removed
    BY <1>9 DEF TryLock
  <2>2. CASE pc' = [pc EXCEPT ![h] = "delay"]
    BY <2>1, <2>2 DEF KeptInv, TypeOK
  <2> QED
    BY <1>9, <2>1, <2>2, <1>1, <1>2 DEF TryLock
<1>10. ASSUME NEW id \in Ids, Expire(id) PROVE KeptInv'
  BY <1>10 DEF Expire, KeptInv
<1>11. ASSUME NEW p \in Processes, Crash(p) PROVE KeptInv'
  BY <1>11 DEF Crash, KeptInv
<1>12. CASE UNCHANGED vars
  BY <1>12 DEF vars, KeptInv
<1> QED
  BY <1>4, <1>5, <1>6, <1>7, <1>8, <1>9, <1>10, <1>11, <1>12 DEF Next, Step

\* With config.enableCleanup off, the state table implements what a machine
\* memory promises (WorkflowStore): every step that touches a row applies one
\* execution's update on top of all the earlier ones (index.ts:160-240).
THEOREM TableIsStore == ASSUME ~EnableCleanup PROVE Spec => Store!Spec
<1> DEFINE store == [id \in Ids |-> DataOf(id)]
<1>1. Init => Store!Init /\ KeptInv
  BY DEF Init, Store!Init, DataOf, KeptInv
<1>2. UpdateInv /\ KeptInv /\ [Next]_vars => KeptInv'
  BY KeptStep DEF UpdateInv, TypeInv
<1>3. ASSUME UpdateInv, KeptInv, KeptInv', [Next]_vars PROVE [Store!Next]_store
  <2>1. CASE \A id \in Ids : DataOf(id)' = DataOf(id)
    BY <2>1
  <2>2. ASSUME NEW id \in Ids, DataOf(id)' # DataOf(id) PROVE Store!Next
    <3>1. PICK h \in Handlers \ DataOf(id) :
            Subject[h] = id /\ DataOf(id)' = DataOf(id) \cup {h}
      BY <1>3, <2>2, RecordStep DEF KeptInv
    <3>2. ASSUME NEW other \in Ids \ {id} PROVE DataOf(other)' = DataOf(other)
      <4>1. SUFFICES state'[other] = state[other]
        BY DEF DataOf
      <4> USE SubjectsAssumption DEF rows, locals, history
      <4>2. TypeOK /\ ReadIsLocal
        BY <1>3 DEF UpdateInv, TypeInv
      <4>3. ~\E g \in Handlers : Cleanup(g)
        BY <1>3 DEF Cleanup, KeptInv
      <4>4. PICK g \in Handlers : state' = state \/ \E r : state' = [state EXCEPT ![Subject[g]] = r]
        BY <1>3, <4>2, <4>3, StepKinds
           DEF Quiet, Read, Opens, InsertState, CommitInsert, Updates, UpdateState
      <4>5. Subject[g] = id
        BY <2>2, <4>2, <4>4 DEF DataOf, TypeOK
      <4> QED
        BY <4>2, <4>4, <4>5 DEF TypeOK
    <3>3. store' = [store EXCEPT ![id] = @ \cup {h}]
      BY <3>1, <3>2
    <3>4. Store!Apply(id, h)
      BY <3>1, <3>3 DEF Store!Apply
    <3> QED
      BY <3>4 DEF Store!Next
  <2> QED
    BY <2>1, <2>2
<1> QED
  BY UpdateInvariant, <1>1, <1>2, <1>3, PTL DEF Spec, Store!Spec

-----------------------------------------------------------------------------
(* Exclusion *)

\* Every step keeps the holder of a good lease alone.
LEMMA HolderStep == ASSUME TypeOK, HolderAlone, [Next]_vars PROVE HolderAlone'
<1> USE SubjectsAssumption DEF TypeOK, HolderAlone, Holding, rows, locals, history
\* A step of h that does not take it into the critical section.
<1>1. ASSUME NEW h \in Handlers, NEW next,
             pc' = [pc EXCEPT ![h] = next], next \in Holding => pc[h] \in Holding,
             lockTable' = lockTable, compromised \subseteq compromised'
      PROVE  HolderAlone'
  BY <1>1
<1>2. ASSUME NEW h \in Handlers, NEW next, NEW data, Return(h, next, data),
             next \in Holding => pc[h] \in Holding,
             lockTable' = lockTable, compromised \subseteq compromised'
      PROVE  HolderAlone'
  BY <1>2, <1>1 DEF Return
<1>3. ASSUME NEW h \in Handlers, Throw(h), pc[h] \in Operations \cup {"commit"},
             lockTable' = lockTable, compromised \subseteq compromised'
      PROVE  HolderAlone'
  BY <1>3, <1>2 DEF Throw, Operations
<1>4. ASSUME NEW h \in Handlers, NEW answered \in BOOLEAN, ReturnWritten(h, answered),
             pc[h] \in {"write", "commit"},
             lockTable' = lockTable, compromised \subseteq compromised'
      PROVE  HolderAlone'
  <2>1. CASE Throw(h)
    BY <2>1, <1>4, <1>3 DEF Operations
  <2>2. CASE \E next \in {"unlock", "unlockFirst", "cleanup"} : Return(h, next, None)
    BY <2>2, <1>4, <1>2
  <2> QED
    BY <1>4, <2>1, <2>2 DEF ReturnWritten
<1>5. ASSUME NEW h \in Handlers, Start(h) \/ Delayed(h) PROVE HolderAlone'
  BY <1>5, <1>1 DEF Start, Delayed
<1>6. CASE (\E h \in Handlers : Connect(h)) \/ UNCHANGED vars
  BY <1>6 DEF Connect, vars
<1>7. ASSUME NEW h \in Handlers, ConnectTimesOut(h) PROVE HolderAlone'
  BY <1>7, <1>3 DEF ConnectTimesOut
<1>8. ASSUME NEW h \in Handlers, QueryFails(h) PROVE HolderAlone'
  BY <1>8, <1>2, <1>3 DEF QueryFails
<1>9. ASSUME NEW h \in Handlers, NEW answered \in BOOLEAN, TryLock(h, answered)
      PROVE  HolderAlone'
  <2>1. pc[h] = "lock" /\ compromised' = compromised
    BY <1>9 DEF TryLock
  <2>2. CASE CanBeLocked(Subject[h])
    <3>1. lockTable' = [lockTable EXCEPT ![Subject[h]] = "held"] /\ lockTable[Subject[h]] # "held"
      BY <1>9, <2>2 DEF TryLock, CanBeLocked
    <3>2. \E next \in {"read", "rejected"} : pc' = [pc EXCEPT ![h] = next]
      BY <1>9, <2>1, <2>2 DEF TryLock, Throw, Return
    <3> QED
      BY <2>1, <3>1, <3>2
  <2>3. CASE ~CanBeLocked(Subject[h])
    <3>1. lockTable' = lockTable
      BY <1>9, <2>3 DEF TryLock
    <3>2. \E next \in {"delay", "rejected"} : pc' = [pc EXCEPT ![h] = next]
      BY <1>9, <2>3 DEF TryLock, Return
    <3> QED
      BY <2>1, <3>1, <3>2, <1>1
  <2> QED
    BY <2>2, <2>3
<1>10. ASSUME NEW h \in Handlers, Read(h) PROVE HolderAlone'
  BY <1>10, <1>2 DEF Read
<1>11. ASSUME NEW h \in Handlers, InsertState(h) PROVE HolderAlone'
  <2>1. CASE pc' = [pc EXCEPT ![h] = "commit"]
    BY <1>11, <2>1, <1>1 DEF InsertState
  <2>2. CASE Throw(h)
    BY <1>11, <2>2, <1>3 DEF InsertState, Operations
  <2> QED
    BY <1>11, <2>1, <2>2 DEF InsertState
<1>12. ASSUME NEW h \in Handlers, NEW answered \in BOOLEAN,
              CommitInsert(h, answered) \/ UpdateState(h, answered)
       PROVE  HolderAlone'
  BY <1>12, <1>3, <1>4 DEF CommitInsert, UpdateState, Operations
<1>13. ASSUME NEW h \in Handlers, Unlock(h) PROVE HolderAlone'
  <2>1. /\ pc[h] \in Holding /\ compromised' = compromised
        /\ lockTable' = [lockTable EXCEPT ![Subject[h]] = "free"]
        /\ \E next \in {"done", "lateCleanup"} : pc' = [pc EXCEPT ![h] = next]
    BY <1>13 DEF Unlock, Return
  <2> QED
    BY <2>1
<1>14. ASSUME NEW h \in Handlers, Cleanup(h) PROVE HolderAlone'
  <2>1. /\ pc[h] \in {"cleanup", "lateCleanup"}
        /\ compromised' = compromised \cup {Subject[h]}
        /\ lockTable' = [lockTable EXCEPT ![Subject[h]] = "free"]
        /\ pc' = [pc EXCEPT ![h] = IF pc[h] = "cleanup" THEN "unlock" ELSE "done"]
    BY <1>14 DEF Cleanup, Return
  <2> QED
    BY <2>1
<1>15. ASSUME NEW id \in Ids, Expire(id) PROVE HolderAlone'
  BY <1>15 DEF Expire
<1>16. ASSUME NEW p \in Processes, Crash(p) PROVE HolderAlone'
  BY <1>16 DEF Crash
<1> QED
  BY <1>5, <1>6, <1>7, <1>8, <1>9, <1>10, <1>11, <1>12, <1>13, <1>14, <1>15, <1>16
     DEF Next, Step

\* Across any number of processes, two executions are in the critical section
\* of a subject at once only after its lease ran out or was removed under its
\* holder (index.ts:293-380).
THEOREM LeasesExclude == Spec => []ExclusionUnlessCompromised
<1>1. Init => HolderAlone
  BY DEF Init, HolderAlone, Holding
<1>2. TypeOK /\ HolderAlone /\ [Next]_vars => HolderAlone'
  BY HolderStep
<1>3. HolderAlone => ExclusionUnlessCompromised
  BY DEF HolderAlone, ExclusionUnlessCompromised, Holding
<1> QED
  BY TypeCorrect, <1>1, <1>2, <1>3, PTL DEF Spec

-----------------------------------------------------------------------------
(* The pool *)

\* A pool that only gives clients back stays within its limit.
LEMMA PoolShrinks ==
  ASSUME PoolInv, clients' \subseteq clients,
         \A h \in clients' : pc'[h] \in Operations \cup {"delay", "commit"}
  PROVE  PoolInv'
<1>1. IsFiniteSet(clients')
  BY FS_Subset DEF PoolInv
<1>2. ASSUME NEW p \in Processes PROVE Cardinality(InUse(p)') <= PoolMax
  <2>1. IsFiniteSet(InUse(p))
    BY FS_Subset DEF PoolInv, InUse
  <2>2. InUse(p)' \subseteq InUse(p)
    BY DEF InUse
  <2>3. /\ Cardinality(InUse(p)') <= Cardinality(InUse(p))
        /\ IsFiniteSet(InUse(p)')
    BY <2>1, <2>2, FS_Subset
  <2>4. Cardinality(InUse(p)') \in Nat /\ Cardinality(InUse(p)) \in Nat
    BY <2>1, <2>3, FS_CardinalityType
  <2> QED
    BY <2>3, <2>4, PoolAssumption DEF PoolInv, ClientsAreReturned
<1> QED
  BY <1>1, <1>2 DEF PoolInv, ClientsAreReturned

\* Every step takes a client within the limit, keeps it for the rest of an
\* operation, or gives it back.
LEMMA PoolStep == ASSUME TypeOK, PoolInv, [Next]_vars PROVE PoolInv'
<1> DEFINE During == Operations \cup {"delay", "commit"}
<1> USE DEF rows, locals, history
<1>c. \A h \in clients : h \in Handlers /\ pc[h] \in During
  BY DEF TypeOK, PoolInv, ClientsAreReturned
<1>1. ASSUME NEW h \in Handlers, NEW next \in During,
             clients' = clients, pc' = [pc EXCEPT ![h] = next]
      PROVE  PoolInv'
  BY <1>1, <1>c, PoolShrinks DEF TypeOK
<1>2. ASSUME NEW h \in Handlers, NEW next, NEW data, Return(h, next, data) PROVE PoolInv'
  BY <1>2, <1>c, PoolShrinks DEF TypeOK, Return, Release
<1>3. ASSUME NEW h \in Handlers, Throw(h) PROVE PoolInv'
  BY <1>3, <1>2 DEF Throw
<1>4. ASSUME NEW h \in Handlers, NEW answered \in BOOLEAN, ReturnWritten(h, answered)
      PROVE  PoolInv'
  BY <1>4, <1>2, <1>3 DEF ReturnWritten
<1>5. ASSUME NEW h \in Handlers, Start(h) \/ Delayed(h) PROVE PoolInv'
  BY <1>5, <1>1 DEF Start, Delayed, Operations
<1>6. ASSUME NEW h \in Handlers, Connect(h) PROVE PoolInv'
  <2>1. /\ clients' = clients \cup {h} /\ pc' = pc /\ pc[h] \in Operations
        /\ h \notin clients /\ PoolHasRoom(ProcessOf[h])
    BY <1>6 DEF Connect
  <2>2. IsFiniteSet(clients')
    BY <2>1, FS_AddElement DEF PoolInv
  <2>3. ASSUME NEW p \in Processes PROVE Cardinality(InUse(p)') <= PoolMax
    <3>1. IsFiniteSet(InUse(p))
      BY FS_Subset DEF PoolInv, InUse
    <3>2. CASE ProcessOf[h] = p
      <4>1. InUse(p)' = InUse(p) \cup {h} /\ h \notin InUse(p)
        BY <2>1, <3>2 DEF InUse
      <4>2. Cardinality(InUse(p)') = Cardinality(InUse(p)) + 1
        BY <3>1, <4>1, FS_AddElement
      <4> QED
        BY <2>1, <3>1, <3>2, <4>2, FS_CardinalityType, PoolAssumption DEF PoolHasRoom
    <3>3. CASE ProcessOf[h] # p
      <4>1. InUse(p)' = InUse(p)
        BY <2>1, <3>3 DEF InUse
      <4> QED
        BY <4>1 DEF PoolInv, ClientsAreReturned
    <3> QED
      BY <3>2, <3>3
  <2> QED
    BY <2>1, <2>2, <2>3, <1>c DEF PoolInv, ClientsAreReturned
<1>7. ASSUME NEW h \in Handlers, ConnectTimesOut(h) \/ QueryFails(h) PROVE PoolInv'
  BY <1>7, <1>2, <1>3 DEF ConnectTimesOut, QueryFails
<1>8. ASSUME NEW h \in Handlers, NEW answered \in BOOLEAN, TryLock(h, answered)
      PROVE  PoolInv'
  BY <1>8, <1>1, <1>2, <1>3 DEF TryLock
<1>9. ASSUME NEW h \in Handlers, Read(h) \/ Unlock(h) \/ Cleanup(h) PROVE PoolInv'
  BY <1>9, <1>2 DEF Read, Unlock, Cleanup
<1>10. ASSUME NEW h \in Handlers, InsertState(h) PROVE PoolInv'
  BY <1>10, <1>1, <1>3 DEF InsertState
<1>11. ASSUME NEW h \in Handlers, NEW answered \in BOOLEAN,
              CommitInsert(h, answered) \/ UpdateState(h, answered)
       PROVE  PoolInv'
  BY <1>11, <1>3, <1>4 DEF CommitInsert, UpdateState
<1>12. ASSUME NEW id \in Ids, Expire(id) PROVE PoolInv'
  BY <1>12, <1>c, PoolShrinks DEF Expire
<1>13. ASSUME NEW p \in Processes, Crash(p) PROVE PoolInv'
  BY <1>13, <1>c, PoolShrinks DEF Crash
<1>14. CASE UNCHANGED vars
  BY <1>14, <1>c, PoolShrinks DEF vars
<1> QED
  BY <1>5, <1>6, <1>7, <1>8, <1>9, <1>10, <1>11, <1>12, <1>13, <1>14 DEF Next, Step

\* A client is held in the middle of an operation only, and never more than
\* config.max of a process, on any path through lock's backoff, an error, a
\* timeout or a crash (the finally blocks of index.ts).
THEOREM NoClientLeaks == Spec => []ClientsAreReturned
<1>1. Init => PoolInv
  <2> SUFFICES ASSUME Init PROVE PoolInv
    OBVIOUS
  <2>1. clients = {} /\ \A p \in Processes : InUse(p) = {}
    BY DEF Init, InUse
  <2> QED
    BY <2>1, FS_EmptySet, PoolAssumption DEF PoolInv, ClientsAreReturned
<1>2. TypeOK /\ PoolInv /\ [Next]_vars => PoolInv'
  BY PoolStep
<1>3. PoolInv => ClientsAreReturned
  BY DEF PoolInv
<1> QED
  BY TypeCorrect, <1>1, <1>2, <1>3, PTL DEF Spec

-----------------------------------------------------------------------------
(* The tree of workflows *)

\* A step that leaves the tables alone, and opens no transaction.
TreeQuiet ==
  /\ UNCHANGED <<state, hierarchy, created, removed>>
  /\ \A h \in Handlers :
       /\ pc'[h] = "commit" => pc[h] = "commit" /\ root'[h] = root[h]
       /\ pc'[h] # "idle" => pc[h] # "idle" \/ Parent[Subject[h]] \in created \cup {None}

\* The steps that matter to the tree are three; all others are quiet.
LEMMA TreeStepKinds ==
  ASSUME TypeOK, [Next]_vars
  PROVE  \/ TreeQuiet
         \/ \E h \in Handlers, answered \in BOOLEAN : UpdateState(h, answered)
         \/ \E h \in Handlers : Opens(h) \/ Cleanup(h)
         \/ \E h \in Handlers, answered \in BOOLEAN : CommitInsert(h, answered)
<1> USE DEF rows, locals, history
<1>1. ASSUME NEW h \in Handlers, NEW next, NEW data, Return(h, next, data),
             next # "commit", pc[h] # "idle",
             UNCHANGED <<state, hierarchy, created, removed>>
      PROVE  TreeQuiet
  BY <1>1 DEF Return, TreeQuiet, TypeOK
<1>2. ASSUME NEW h \in Handlers, Throw(h), pc[h] # "idle",
             UNCHANGED <<state, hierarchy, created, removed>>
      PROVE  TreeQuiet
  BY <1>2, <1>1 DEF Throw
<1>3. ASSUME NEW h \in Handlers,
             Start(h) \/ Connect(h) \/ Delayed(h) \/ UNCHANGED vars
      PROVE  TreeQuiet
  BY <1>3 DEF Start, Connect, Delayed, vars, TreeQuiet, TypeOK
<1>4. ASSUME NEW h \in Handlers, ConnectTimesOut(h) \/ QueryFails(h) \/ Read(h) \/ Unlock(h)
      PROVE  TreeQuiet
  BY <1>4, <1>1, <1>2 DEF ConnectTimesOut, QueryFails, Read, Unlock, Operations
<1>5. ASSUME NEW h \in Handlers, NEW answered \in BOOLEAN, TryLock(h, answered)
      PROVE  TreeQuiet
  <2>1. CASE pc' = [pc EXCEPT ![h] = "delay"] /\ UNCHANGED locals
    BY <1>5, <2>1 DEF TryLock, TreeQuiet, TypeOK
  <2> QED
    BY <1>5, <2>1, <1>1, <1>2 DEF TryLock
<1>6. ASSUME NEW h \in Handlers, InsertState(h), ~Opens(h) PROVE TreeQuiet
  BY <1>6, <1>2 DEF InsertState, Opens
<1>7. ASSUME NEW id \in Ids, Expire(id) PROVE TreeQuiet
  BY <1>7 DEF Expire, TreeQuiet
<1>8. ASSUME NEW p \in Processes, Crash(p) PROVE TreeQuiet
  BY <1>8 DEF Crash, TreeQuiet
<1>9. CASE UNCHANGED vars
  BY <1>9 DEF vars, TreeQuiet
<1> QED
  BY <1>3, <1>4, <1>5, <1>6, <1>7, <1>8, <1>9 DEF Next, Step

\* Every step keeps the roots of parents and children together.
LEMMA TreeStep == ASSUME UpdateInv, TreeInv, [Next]_vars PROVE TreeInv'
<1> DEFINE Parts == RowsOfCreated /\ ParentsFirst /\ RootIsCurrent /\ TreeSharesRoot
<1> USE SubjectsAssumption, NoneAssumption DEF rows, locals, history
<1>t. TypeInv' /\ InsertsAlone' /\ TypeOK /\ InsertsAlone /\ Parts
  BY UpdateStep DEF UpdateInv, TypeInv, TreeInv
<1>1. CASE TreeQuiet
  <2>1. RowsOfCreated' /\ TreeSharesRoot'
    BY <1>1, <1>t DEF TreeQuiet, RowsOfCreated, TreeSharesRoot
  <2>2. ParentsFirst'
    BY <1>1, <1>t DEF TreeQuiet, ParentsFirst
  <2>3. RootIsCurrent'
    BY <1>1, <1>t DEF TreeQuiet, RootIsCurrent
  <2> QED
    BY <2>1, <2>2, <2>3, <1>t DEF TreeInv
<1>2. ASSUME NEW h \in Handlers, NEW answered \in BOOLEAN, UpdateState(h, answered)
      PROVE  Parts'
  <2>1. /\ UNCHANGED <<hierarchy, created, removed>>
        /\ state' = state \/ \E r \in Rows : state' = [state EXCEPT ![Subject[h]] = r]
    <3>1. prevData[h] \in Rows
      BY <1>2, <1>t DEF UpdateState, TypeOK
    <3>2. [version |-> NewVersion(prevData[h].version), data |-> prevData[h].data \cup {h}]
            \in Rows
      BY <3>1 DEF Rows, NewVersion
    <3> QED
      BY <1>2, <3>2 DEF UpdateState
  <2>2. \E next \in Operations \cup Ended :
          pc' = [pc EXCEPT ![h] = next] /\ root' = [root EXCEPT ![h] = None]
    BY <1>2, ReturnWrittenEnds DEF UpdateState, Throw, Return, Operations, Ended
  <2>3. pc[h] = "write"
    BY <1>2 DEF UpdateState
  <2>4. RowsOfCreated'
    BY <2>1, <1>t DEF RowsOfCreated, TypeOK
  <2>5. ParentsFirst' /\ TreeSharesRoot'
    BY <2>1, <2>2, <2>3, <1>t DEF ParentsFirst, TreeSharesRoot, TypeOK
  <2>6. RootIsCurrent'
    BY <2>1, <2>2, <1>t DEF RootIsCurrent, TypeOK, Operations, Ended
  <2> QED
    BY <2>4, <2>5, <2>6
<1>3. ASSUME NEW h \in Handlers, Opens(h) PROVE Parts'
  <2>1. /\ UNCHANGED <<state, hierarchy, created, removed>>
        /\ pc' = [pc EXCEPT ![h] = "commit"] /\ pc[h] = "write"
        /\ root' = [root EXCEPT ![h] = RootFor(Subject[h])]
    BY <1>3 DEF Opens, InsertState
  <2>2. Subject[h] \in Ids /\ Parent[Subject[h]] \in created \cup {None}
    BY <2>1, <1>t DEF ParentsFirst
  <2>3. /\ RootFor(Subject[h]) # None
        /\ Parent[Subject[h]] \notin removed \cup {None} =>
             RootFor(Subject[h]) = hierarchy[Parent[Subject[h]]]
    BY <2>2, <1>t DEF RootFor, RowsOfCreated
  <2>4. RootIsCurrent'
    BY <2>1, <2>3, <1>t DEF RootIsCurrent, TypeOK
  <2> QED
    BY <2>1, <2>4, <1>t DEF RowsOfCreated, ParentsFirst, TreeSharesRoot, TypeOK
<1>4. ASSUME NEW h \in Handlers, Cleanup(h) PROVE Parts'
  <2>1. /\ state' = [state EXCEPT ![Subject[h]] = None]
        /\ hierarchy' = [hierarchy EXCEPT ![Subject[h]] = None]
        /\ removed' = removed \cup {Subject[h]} /\ created' = created
        /\ root' = [root EXCEPT ![h] = None]
        /\ \E next \in {"unlock", "done"} : pc' = [pc EXCEPT ![h] = next]
        /\ pc[h] \in {"cleanup", "lateCleanup"}
    BY <1>4 DEF Cleanup, Return
  <2>2. RowsOfCreated' /\ ParentsFirst'
    BY <2>1, <1>t DEF RowsOfCreated, ParentsFirst, TypeOK
  <2>3. RootIsCurrent'
    BY <2>1, <1>t DEF RootIsCurrent, TypeOK
  <2>4. TreeSharesRoot'
    BY <2>1, <1>t DEF TreeSharesRoot, TypeOK
  <2> QED
    BY <2>2, <2>3, <2>4
<1>5. ASSUME NEW h \in Handlers, NEW answered \in BOOLEAN, CommitInsert(h, answered)
      PROVE  Parts'
  <2> DEFINE new == [version |-> 1, data |-> {h}]
  <2>1. /\ state' = [state EXCEPT ![Subject[h]] = new]
        /\ hierarchy' = [hierarchy EXCEPT ![Subject[h]] = root[h]]
        /\ created' = created \cup {Subject[h]} /\ removed' = removed
        /\ pc[h] = "commit"
    BY <1>5 DEF CommitInsert
  <2>2. \E next \in Operations \cup Ended :
          pc' = [pc EXCEPT ![h] = next] /\ root' = [root EXCEPT ![h] = None]
    BY <1>5, ReturnWrittenEnds DEF CommitInsert, Return
  <2>3. new # None /\ root[h] # None /\ Subject[h] \notin created \ removed
    BY <2>1, <1>t DEF Rows, RootIsCurrent, RowsOfCreated, InsertsAlone
  <2>4. RowsOfCreated'
    BY <2>1, <2>3, <1>t DEF RowsOfCreated, TypeOK
  <2>5. ParentsFirst'
    BY <2>1, <2>2, <1>t DEF ParentsFirst, TypeOK
  <2>6. RootIsCurrent'
    <3> SUFFICES ASSUME NEW g \in Handlers, pc'[g] = "commit"
                 PROVE  /\ root'[g] # None
                        /\ Parent[Subject[g]] \notin removed \cup {None} =>
                             root'[g] = hierarchy'[Parent[Subject[g]]]
      BY <2>1 DEF RootIsCurrent
    <3>1. g # h /\ pc[g] = "commit" /\ root'[g] = root[g]
      BY <2>2, <1>t DEF TypeOK, Operations, Ended
    <3>2. Parent[Subject[g]] \in created \cup {None}
      BY <3>1, <1>t DEF ParentsFirst
    <3>3. Parent[Subject[g]] \notin removed \cup {None} => Parent[Subject[g]] # Subject[h]
      BY <2>3, <3>2
    <3> QED
      BY <2>1, <3>1, <3>2, <3>3, <1>t DEF RootIsCurrent, TypeOK
  <2>7. TreeSharesRoot'
    <3> SUFFICES ASSUME NEW id \in Ids, hierarchy'[id] # None, Parent[id] # None,
                        Parent[id] \notin removed
                 PROVE  hierarchy'[id] = hierarchy'[Parent[id]]
      BY <2>1 DEF TreeSharesRoot
    <3>1. CASE id = Subject[h]
      <4>1. Parent[id] \in created
        BY <2>1, <3>1, <1>t DEF ParentsFirst
      <4>2. Parent[id] # Subject[h]
        BY <2>3, <4>1
      <4> QED
        BY <2>1, <3>1, <4>1, <4>2, <1>t DEF RootIsCurrent, TypeOK
    <3>2. CASE id # Subject[h]
      <4>1. hierarchy'[id] = hierarchy[id] /\ Parent[id] \in created
        BY <2>1, <3>2, <1>t DEF ParentsFirst, TypeOK
      <4>2. Parent[id] # Subject[h]
        BY <2>3, <4>1
      <4> QED
        BY <2>1, <4>1, <4>2, <1>t DEF TreeSharesRoot, TypeOK
    <3> QED
      BY <3>1, <3>2
  <2> QED
    BY <2>4, <2>5, <2>6, <2>7
<1> QED
  BY <1>1, <1>2, <1>3, <1>4, <1>5, <1>t, TreeStepKinds DEF TreeInv

\* In a tree of any depth and shape, a workflow is recorded under the root of
\* its parent, until the parent is removed (index.ts:183-192).
THEOREM RootsAreShared == Spec => []TreeSharesRoot
<1>1. Init => TreeInv
  BY TypeInit
     DEF Init, TreeInv, InsertsAlone, RowsOfCreated, ParentsFirst, RootIsCurrent,
         TreeSharesRoot
<1>2. UpdateInv /\ TreeInv /\ [Next]_vars => TreeInv'
  BY TreeStep
<1>3. TreeInv => TreeSharesRoot
  BY DEF TreeInv
<1> QED
  BY UpdateInvariant, <1>1, <1>2, <1>3, PTL DEF Spec
=============================================================================
