------------------------ MODULE PostgresMachineMemory ------------------------
(***************************************************************************)
(* The PostgreSQL machine memory (postgres/src/memory/v1): three tables    *)
(* shared by the processes that run handler executions, a connection pool  *)
(* per process, leases in the lock table and optimistic writes.            *)
(*                                                                         *)
(* Every operation takes a client from the pool, runs its statements and   *)
(* releases the client; lock keeps its client while it backs off.  An      *)
(* execution follows the protocol of ConcurrentMachineMemory: lock, read,  *)
(* write, unlock, with a cleanup before or after the unlock if it has      *)
(* completed its workflow; once it has acquired the lock it unlocks, also  *)
(* after an error.  An action is one step of an operation against the      *)
(* database.  A transaction takes effect at its COMMIT.                    *)
(*                                                                         *)
(* PostgreSQL (external): statements are atomic, uncommitted rows are      *)
(* invisible but block an INSERT of the same key, the answer to a          *)
(* statement that took effect may be lost, and the end of a connection     *)
(* rolls its transaction back.  A record's data is the set of executions   *)
(* whose updates it incorporates; time is abstracted to the moment a lease *)
(* is past its expires_at (Expire).                                        *)
(***************************************************************************)
EXTENDS Naturals, FiniteSets

CONSTANTS
  Handlers,        \* handler executions
  Ids,             \* workflow subjects
  Subject,         \* execution -> the subject it works on
  Parent,          \* subject -> parentSubject, or None
  Processes,
  ProcessOf,       \* execution -> the process it runs in
  PoolMax,         \* config.max: clients of a process's pool
  MaxRetries,      \* lockConfig.maxRetries
  EnableCleanup,   \* config.enableCleanup
  None             \* no row, no parent

ASSUME SubjectsAssumption ==
  /\ Subject \in [Handlers -> Ids]
  /\ Parent \in [Ids -> Ids \cup {None}]
  /\ None \notin Ids
ASSUME PoolAssumption ==
  /\ ProcessOf \in [Handlers -> Processes]
  /\ PoolMax \in Nat \ {0}
ASSUME ConfigAssumption == MaxRetries \in Nat /\ EnableCleanup \in BOOLEAN

VARIABLES
  state,        \* subject -> row of the state table, or None
  hierarchy,    \* subject -> root_subject in the hierarchy table, or None
  lockTable,    \* subject -> "free" (no row), "held", or "lapsed" (expired)
  clients,      \* executions that hold a client of their pool
  pc,           \* the operation each execution is in
  attempt,      \* the loop counter of lock
  prevData,     \* what the execution has read, given to write as prevData
  root,         \* the root subject its open transaction will insert
  created,      \* subjects that have had a row
  removed,      \* subjects whose rows have been removed by cleanup
  compromised   \* subjects whose lease ran out, or was removed, under its holder

rows == <<state, hierarchy, lockTable>>
locals == <<attempt, prevData, root>>
history == <<created, removed, compromised>>
vars == <<rows, clients, pc, locals, history>>

Rows == [version : Nat \ {0}, data : SUBSET Handlers]

ASSUME NoneAssumption == None \notin Rows

\* An operation waits for a client unless it is among clients.
Operations == {"lock", "read", "write", "cleanup", "unlock", "unlockFirst", "lateCleanup"}
Holding == {"read", "write", "commit", "cleanup", "unlock", "unlockFirst"}
Ended == {"rejected", "done", "crashed"}

TypeOK ==
  /\ state \in [Ids -> Rows \cup {None}]
  /\ hierarchy \in [Ids -> Ids \cup {None}]
  /\ lockTable \in [Ids -> {"free", "held", "lapsed"}]
  /\ clients \in SUBSET Handlers
  /\ pc \in [Handlers -> {"idle", "delay", "commit"} \cup Operations \cup Ended]
  /\ attempt \in [Handlers -> 0 .. MaxRetries]
  /\ prevData \in [Handlers -> Rows \cup {None}]
  /\ root \in [Handlers -> Ids \cup {None}]
  /\ created \in SUBSET Ids
  /\ removed \in SUBSET Ids
  /\ compromised \in SUBSET Ids

Init ==
  /\ state = [id \in Ids |-> None]
  /\ hierarchy = [id \in Ids |-> None]
  /\ lockTable = [id \in Ids |-> "free"]
  /\ clients = {}
  /\ pc = [h \in Handlers |-> "idle"]
  /\ attempt = [h \in Handlers |-> 0]
  /\ prevData = [h \in Handlers |-> None]
  /\ root = [h \in Handlers |-> None]
  /\ created = {}
  /\ removed = {}
  /\ compromised = {}

-----------------------------------------------------------------------------
(* The pool, and the way from one operation to the next *)

InUse(p) == {h \in clients : ProcessOf[h] = p}
PoolHasRoom(p) == Cardinality(InUse(p)) < PoolMax

\* Variant: lock returns false without releasing its client.
ReleaseUnlessRejected(h, next) == clients' = IF next = "rejected" THEN clients ELSE clients \ {h}

\* `finally { client.release() }`
Release(h, next) == clients' = clients \ {h}

\* The operation ends, and with it its local variables; the execution goes on to
\* the next, with the data it has read.
Return(h, next, data) ==
  /\ pc' = [pc EXCEPT ![h] = next]
  /\ Release(h, next)
  /\ attempt' = [attempt EXCEPT ![h] = 0]
  /\ prevData' = [prevData EXCEPT ![h] = data]
  /\ root' = [root EXCEPT ![h] = None]

\* The operation throws: an execution that has the lock unlocks.
Throw(h) ==
  Return(h, IF pc[h] = "lock" THEN "rejected"
            ELSE IF pc[h] \in {"unlock", "unlockFirst", "lateCleanup"} THEN "done"
            ELSE "unlock", None)

\* The execution is started once the parent workflow has been persisted.
Start(h) ==
  /\ pc[h] = "idle"
  /\ Parent[Subject[h]] \in created \cup {None}
  /\ pc' = [pc EXCEPT ![h] = "lock"]
  /\ UNCHANGED <<rows, clients, locals, history>>

\* pool.connect
Connect(h) ==
  /\ pc[h] \in Operations
  /\ h \notin clients
  /\ PoolHasRoom(ProcessOf[h])
  /\ clients' = clients \cup {h}
  /\ UNCHANGED <<rows, pc, locals, history>>

\* connectionTimeoutMillis: connect is outside the operations' try, so that
\* even unlock throws.
ConnectTimesOut(h) ==
  /\ pc[h] \in Operations
  /\ h \notin clients
  /\ ~PoolHasRoom(ProcessOf[h])
  /\ Throw(h)
  /\ UNCHANGED <<rows, history>>

\* A statement fails without effect; an open transaction is rolled back.  A
\* ROLLBACK fails only if its connection has ended, which rolls back as well: its
\* error replaces the first, and `finally` releases the client all the same.
\* unlock returns true after a failure.
QueryFails(h) ==
  /\ h \in clients
  /\ pc[h] \in Operations \cup {"commit"}
  /\ IF pc[h] = "unlockFirst" THEN Return(h, "lateCleanup", None) ELSE Throw(h)
  /\ UNCHANGED <<rows, history>>

-----------------------------------------------------------------------------
(* lock *)

\* Variant: the ON CONFLICT has no WHERE.
AlwaysFree(id) == TRUE

\* There is no lock row, or one WHERE expires_at < now.
CanBeLocked(id) == lockTable[id] # "held"

\* Variant: the loop's last delay is not skipped.
RetriesLeftLate(n) == n <= MaxRetries

RetriesLeft(n) == n < MaxRetries

\* The upsert inserts the lock row, or takes over one that has expired.  If its
\* answer is lost, the row stays locked for nobody.
TryLock(h, answered) ==
  /\ pc[h] = "lock" /\ h \in clients
  /\ IF CanBeLocked(Subject[h])
     THEN /\ lockTable' = [lockTable EXCEPT ![Subject[h]] = "held"]
          /\ IF answered THEN Return(h, "read", None) ELSE Throw(h)
     ELSE /\ UNCHANGED lockTable
          /\ IF RetriesLeft(attempt[h])
             THEN pc' = [pc EXCEPT ![h] = "delay"] /\ UNCHANGED <<clients, locals>>
             ELSE Return(h, "rejected", None)
  /\ UNCHANGED <<state, hierarchy, history>>

\* The backoff's timer fires; the client has been kept.
Delayed(h) ==
  /\ pc[h] = "delay"
  /\ pc' = [pc EXCEPT ![h] = "lock"]
  /\ attempt' = [attempt EXCEPT ![h] = @ + 1]
  /\ UNCHANGED <<rows, clients, prevData, root, history>>

-----------------------------------------------------------------------------
(* read, write *)

Read(h) ==
  /\ pc[h] = "read" /\ h \in clients
  /\ Return(h, "write", state[Subject[h]])
  /\ UNCHANGED <<rows, history>>

\* The write returns, unless its answer is lost.  An execution that has written
\* may have completed the workflow, and then cleans up before or after it unlocks.
ReturnWritten(h, answered) ==
  IF ~answered THEN Throw(h)
  ELSE \E next \in IF EnableCleanup THEN {"unlock", "unlockFirst", "cleanup"} ELSE {"unlock"} :
         Return(h, next, None)

\* root_subject of the parent's row; without one, the subject itself.
RootFor(id) ==
  IF Parent[id] = None \/ hierarchy[Parent[id]] = None THEN id ELSE hierarchy[Parent[id]]

\* prevData is null: BEGIN, insert the state row, and look the parent up.  The
\* INSERT waits for a transaction that inserts the same subject, and fails on
\* a row that is there.
InsertState(h) ==
  /\ pc[h] = "write" /\ h \in clients
  /\ prevData[h] = None
  /\ ~\E g \in Handlers : Subject[g] = Subject[h] /\ pc[g] = "commit"
  /\ IF state[Subject[h]] = None
     THEN /\ root' = [root EXCEPT ![h] = RootFor(Subject[h])]
          /\ pc' = [pc EXCEPT ![h] = "commit"]
          /\ UNCHANGED <<clients, attempt, prevData>>
     ELSE Throw(h)
  /\ UNCHANGED <<rows, history>>

\* The hierarchy row is inserted and the transaction committed.
CommitInsert(h, answered) ==
  /\ pc[h] = "commit"
  /\ state' = [state EXCEPT ![Subject[h]] = [version |-> 1, data |-> {h}]]
  /\ hierarchy' = [hierarchy EXCEPT ![Subject[h]] = root[h]]
  /\ created' = created \cup {Subject[h]}
  /\ ReturnWritten(h, answered)
  /\ UNCHANGED <<lockTable, removed, compromised>>

\* Variant: the UPDATE has no version in its WHERE.
AnyVersion(h) == state[Subject[h]] # None

\* WHERE subject = $4 AND version = $5
VersionMatches(h) ==
  /\ state[Subject[h]] # None
  /\ state[Subject[h]].version = prevData[h].version

NewVersion(v) == v + 1

\* prevData is not null: the row is replaced if it has the version that was
\* read; no row updated is an error.
UpdateState(h, answered) ==
  /\ pc[h] = "write" /\ h \in clients
  /\ prevData[h] # None
  /\ IF VersionMatches(h)
     THEN /\ state' = [state EXCEPT ![Subject[h]] =
                         [version |-> NewVersion(prevData[h].version),
                          data |-> prevData[h].data \cup {h}]]
          /\ ReturnWritten(h, answered)
     ELSE Throw(h) /\ UNCHANGED state
  /\ UNCHANGED <<hierarchy, lockTable, history>>

-----------------------------------------------------------------------------
(* unlock, cleanup *)

\* The lock row is deleted, whoever holds the lock.
Unlock(h) ==
  /\ pc[h] \in {"unlock", "unlockFirst"} /\ h \in clients
  /\ lockTable' = [lockTable EXCEPT ![Subject[h]] = "free"]
  /\ Return(h, IF pc[h] = "unlock" THEN "done" ELSE "lateCleanup", None)
  /\ UNCHANGED <<state, hierarchy, history>>

\* One transaction deletes the rows of the three tables.
Cleanup(h) ==
  /\ pc[h] \in {"cleanup", "lateCleanup"} /\ h \in clients
  /\ state' = [state EXCEPT ![Subject[h]] = None]
  /\ hierarchy' = [hierarchy EXCEPT ![Subject[h]] = None]
  /\ lockTable' = [lockTable EXCEPT ![Subject[h]] = "free"]
  /\ Return(h, IF pc[h] = "cleanup" THEN "unlock" ELSE "done", None)
  /\ removed' = removed \cup {Subject[h]}
  /\ compromised' = compromised \cup {Subject[h]}
  /\ UNCHANGED created

-----------------------------------------------------------------------------
(* Time and crashes *)

Expire(id) ==
  /\ lockTable[id] = "held"
  /\ lockTable' = [lockTable EXCEPT ![id] = "lapsed"]
  /\ compromised' = IF \E h \in Handlers : Subject[h] = id /\ pc[h] \in Holding
                    THEN compromised \cup {id} ELSE compromised
  /\ UNCHANGED <<state, hierarchy, clients, pc, locals, created, removed>>

\* A process dies with its pool and its executions.
Crash(p) ==
  LET lost == {h \in Handlers : ProcessOf[h] = p /\ pc[h] \notin {"idle"} \cup Ended} IN
  /\ lost # {}
  /\ pc' = [h \in Handlers |-> IF h \in lost THEN "crashed" ELSE pc[h]]
  /\ clients' = clients \ lost
  /\ attempt' = [h \in Handlers |-> IF h \in lost THEN 0 ELSE attempt[h]]
  /\ prevData' = [h \in Handlers |-> IF h \in lost THEN None ELSE prevData[h]]
  /\ root' = [h \in Handlers |-> IF h \in lost THEN None ELSE root[h]]
  /\ UNCHANGED <<rows, history>>

-----------------------------------------------------------------------------
Step(h) ==
  \/ Connect(h)
  \/ QueryFails(h)
  \/ \E answered \in BOOLEAN :
       TryLock(h, answered) \/ CommitInsert(h, answered) \/ UpdateState(h, answered)
  \/ Delayed(h)
  \/ Read(h)
  \/ InsertState(h)
  \/ Unlock(h)
  \/ Cleanup(h)

Next ==
  \/ \E h \in Handlers : Start(h) \/ Step(h) \/ ConnectTimesOut(h)
  \/ \E id \in Ids : Expire(id)
  \/ \E p \in Processes : Crash(p)

Spec == Init /\ [][Next]_vars

\* The database answers and timers fire; no lease needs to run out, and no wait
\* for a client to time out.
FairSpec == Spec /\ \A h \in Handlers : WF_vars(Step(h))

-----------------------------------------------------------------------------
(* Properties *)

DataOf(id) == IF state[id] = None THEN {} ELSE state[id].data

\* No update that took effect is lost, whatever happens to the leases: a change
\* of a record adds one execution's update to all earlier ones, or removes the
\* record (the optimistic write of index.ts:211-230).  Only on a subject that
\* was removed and inserted anew can a version be the same, and the data not.
NoLostUpdate ==
  [][\A id \in Ids \ removed : DataOf(id)' # DataOf(id) =>
       \/ id \in removed'
       \/ \E h \in Handlers \ DataOf(id) :
            Subject[h] = id /\ DataOf(id)' = DataOf(id) \cup {h}]_vars

\* Without cleanup, the table is a WorkflowStore.
Store == INSTANCE WorkflowStore WITH Updates <- Handlers,
                                     store <- [id \in Ids |-> DataOf(id)]

\* Two executions overlap in their work on a subject only if a lease ran out, or
\* was removed, under its holder; unlock has no owner and would go on from there.
ExclusionUnlessCompromised ==
  \A g, h \in Handlers :
    /\ g # h /\ Subject[g] = Subject[h]
    /\ pc[g] \in {"read", "write", "commit"} /\ pc[h] \in {"read", "write", "commit"}
    => Subject[g] \in compromised

\* A client is held by executions in the middle of an operation only, and never
\* more than the pool has: nothing leaks on any path.
ClientsAreReturned ==
  /\ \A h \in clients : pc[h] \in Operations \cup {"delay", "commit"}
  /\ \A p \in Processes : Cardinality(InUse(p)) <= PoolMax

\* A child has the root of its parent, as long as the parent has not been
\* removed (index.ts:183-192).
TreeSharesRoot ==
  \A id \in Ids :
    /\ hierarchy[id] # None
    /\ Parent[id] # None
    /\ Parent[id] \notin removed
    => hierarchy[id] = hierarchy[Parent[id]]

\* Every execution that has started ends: lock calls that keep their clients
\* while they back off cannot block the holder of the lock for ever.
EveryExecutionEnds == \A h \in Handlers : pc[h] # "idle" ~> pc[h] \in Ended
=============================================================================
