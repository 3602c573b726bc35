-------------------------- MODULE PostgresEventBroker --------------------------
(***************************************************************************)
(* The event broker over pg-boss (postgres/src/broker/index.ts), as used   *)
(* by one process that may crash and start again: it registers its         *)
(* handlers and the completion listener and dispatches events, in any      *)
(* order the broker allows; the workers of the queues execute jobs and     *)
(* emit what the handlers return.                                          *)
(*                                                                         *)
(* Data abstraction: an event is a model value with a destination and a    *)
(* cause, as in ConcurrentEventBroker.  The outputs of an execution are    *)
(* the events it causes.  A job is one send of an event.                   *)
(*                                                                         *)
(* pg-boss (external): jobs and queues are in the database and survive the *)
(* process.  A job is created, fetched by one worker, and then completed,  *)
(* or failed and fetched again while it has retries left; a job that has   *)
(* been active for too long fails, while its execution goes on unseen.     *)
(* The answer to a send may be lost, and a send may be refused without an  *)
(* error when its queue holds a job of the same singleton key or slot.     *)
(*                                                                         *)
(* exposed is history: no action is guarded by it.                         *)
(***************************************************************************)
EXTENDS Naturals, FiniteSets

CONSTANTS
  Names,         \* sources of the handlers and of the completion listener
  Home,          \* the source given to onWorkflowComplete
  Events,
  To,            \* event -> its destination
  Cause,         \* event -> event whose handler emits it, or None
  Domained,      \* events with a domain
  Jobs,          \* the sends that can be made
  EventOf,       \* job -> its event
  Bare,          \* names for which the application calls createQueue itself
  Throttled,     \* names whose options may make pg-boss refuse a send
  Recreate,      \* names registered with options.recreateQueue
  Concurrency,   \* name -> options.worker.concurrency
  RetryLimit,    \* name -> options.worker.retryLimit
  MaxCrashes,    \* bound: crashes of the process
  None

ASSUME NamesAssumption ==
  /\ Home \in Names
  /\ Recreate \subseteq Names /\ Throttled \subseteq Names
  /\ Concurrency \in [Names -> Nat]
  /\ RetryLimit \in [Names -> Nat]
ASSUME EventsAssumption ==
  /\ None \notin Events
  /\ Cause \in [Events -> Events \cup {None}]
  /\ EventOf \in [Jobs -> Events]
  /\ \A j \in Jobs : To[EventOf[j]] \in Names
  /\ Domained \subseteq {e \in Events : Cause[e] # None}
  /\ \A e \in Events : Cause[e] # None => To[Cause[e]] # Home  \* the listener emits nothing
ASSUME MaxCrashesAssumption == MaxCrashes \in Nat

VARIABLES
  handlers,      \* names with an entry in the registry
  queues,        \* _queues
  registration,  \* name -> where its registration is
  existing,      \* queues in the database
  jobState,      \* job -> its state in the database, or "unsent"
  retries,       \* job -> retries it has used
  executions,    \* executions in progress, also those pg-boss has given up
  handed,        \* job -> outputs that have been sent or given to a callback
  unroutable,    \* events given to onHandlerNotFound
  heard,         \* events the completion listener has been called with
  exposed,       \* an event was dispatched before all names were listed, or a
                 \* restart has left jobs to be worked on
  crashes

database == <<existing, jobState, retries>>
registry == <<handlers, queues, registration>>
history == <<handed, unroutable, heard, exposed>>
vars == <<registry, database, executions, history, crashes>>

Queue(j) == To[EventOf[j]]
OutputsOf(j) == {f \in Events : Cause[f] = EventOf[j]}

Live == {"created", "active"}
Ended == {"completed", "failed", "deleted"}

Executions ==
  [job : Jobs, attempt : Nat, phase : {"executing", "emitting"}, pending : SUBSET Events]

TypeOK ==
  /\ handlers \in SUBSET Names
  /\ queues \in SUBSET (Names \cup Bare)
  /\ registration \in [Names -> {"none", "deleting", "creating", "working", "failed"}]
  /\ existing \in SUBSET (Names \cup Bare)
  /\ jobState \in [Jobs -> {"unsent"} \cup Live \cup Ended]
  /\ \A j \in Jobs : retries[j] \in 0 .. RetryLimit[Queue(j)]
  /\ executions \in SUBSET Executions
  /\ handed \in [Jobs -> SUBSET Events]
  /\ unroutable \in SUBSET Events
  /\ heard \in SUBSET Events
  /\ exposed \in BOOLEAN
  /\ crashes \in 0 .. MaxCrashes

Init ==
  /\ handlers = {}
  /\ queues = {}
  /\ registration = [n \in Names |-> "none"]
  /\ existing = {}
  /\ jobState = [j \in Jobs |-> "unsent"]
  /\ retries = [j \in Jobs |-> 0]
  /\ executions = {}
  /\ handed = [j \in Jobs |-> {}]
  /\ unroutable = {}
  /\ heard = {}
  /\ exposed = FALSE
  /\ crashes = 0

-----------------------------------------------------------------------------
(* register, onWorkflowComplete, createQueue *)

\* register refuses a source that has an entry, also one left by a registration
\* that failed; onWorkflowComplete does not.
CanRegister(n) ==
  \/ registration[n] = "none"
  \/ registration[n] = "failed" /\ n = Home

\* createQueue notes the name before it asks the database for the queue.
List(n) == queues' = queues \cup {n}

\* Up to the first await.
Register(n) ==
  /\ CanRegister(n)
  /\ handlers' = handlers \cup {n}
  /\ IF n \in Recreate
     THEN registration' = [registration EXCEPT ![n] = "deleting"] /\ UNCHANGED queues
     ELSE registration' = [registration EXCEPT ![n] = "creating"] /\ List(n)
  /\ UNCHANGED <<database, executions, history, crashes>>

\* deleteQueue deletes the queue's jobs, whatever their state.
Deleted(n) ==
  /\ existing' = existing \ {n}
  /\ jobState' = [j \in Jobs |-> IF Queue(j) = n /\ jobState[j] \in Live
                                 THEN "deleted" ELSE jobState[j]]

QueueDeleted(n) ==
  /\ registration[n] = "deleting"
  /\ registration' = [registration EXCEPT ![n] = "creating"]
  /\ List(n)
  /\ Deleted(n)
  /\ UNCHANGED <<handlers, retries, executions, history, crashes>>

\* The queue exists, and its workers are started.
QueueCreated(n) ==
  /\ registration[n] = "creating"
  /\ registration' = [registration EXCEPT ![n] = "working"]
  /\ existing' = existing \cup {n}
  /\ UNCHANGED <<handlers, queues, jobState, retries, executions, history, crashes>>

\* The database refuses, or its answer is lost after it has deleted or created
\* the queue: the call throws before it has started a worker, and its entries stay.
RegistrationFails(n) ==
  /\ \/ registration[n] = "deleting" /\ (Deleted(n) \/ UNCHANGED <<existing, jobState>>)
     \/ /\ registration[n] = "creating"
        /\ existing' \in {existing, existing \cup {n}}
        /\ UNCHANGED jobState
  /\ registration' = [registration EXCEPT ![n] = "failed"]
  /\ UNCHANGED <<handlers, queues, retries, executions, history, crashes>>

\* createQueue called by the application: it lists the name, whether or not the
\* database makes the queue, and there is no handler entry.
CreateQueue(n) ==
  /\ n \in Bare \ queues
  /\ List(n)
  /\ existing' \in {existing, existing \cup {n}}
  /\ UNCHANGED <<handlers, registration, jobState, retries, executions, history, crashes>>

-----------------------------------------------------------------------------
(* dispatch *)

\* The unused jobs for e.  Which of them is created does not matter.
Unsent(e) == {j \in Jobs : EventOf[j] = e /\ jobState[j] = "unsent"}
AnyUnsent(e) == CHOOSE j \in Unsent(e) : TRUE

\* A send to n creates a job: n has an entry in the registry, whose options go
\* with the event, and its queue exists.
CanSend(n) == n \in handlers /\ n \in existing

\* dispatch demands onWorkflowComplete and a listed queue for the event, and no
\* more; a send that fails throws, and the application may try again.
Dispatch(e) ==
  /\ Cause[e] = None
  /\ Home \in handlers
  /\ To[e] \in queues
  /\ CanSend(To[e])
  /\ Unsent(e) # {}
  /\ jobState' = [jobState EXCEPT ![AnyUnsent(e)] = "created"]
  /\ exposed' = (exposed \/ ~ (Names \subseteq queues))
  /\ UNCHANGED <<registry, existing, retries, executions, handed, unroutable, heard, crashes>>

-----------------------------------------------------------------------------
(* The workers *)

\* Variant: a queue has as many workers as are asked for, so that by default it
\* has none.
WorkersAsked(n) == Concurrency[n]

\* At least one worker.
Workers(n) == IF Concurrency[n] > 1 THEN Concurrency[n] ELSE 1

\* The execution that pg-boss is waiting for.
Current(x) == jobState[x.job] = "active" /\ x.attempt = retries[x.job]

BusyWorkers(n) == Cardinality({x \in executions : Queue(x.job) = n /\ Current(x)})

Fetch(j) ==
  /\ jobState[j] = "created"
  /\ registration[Queue(j)] = "working"
  /\ BusyWorkers(Queue(j)) < Workers(Queue(j))
  /\ jobState' = [jobState EXCEPT ![j] = "active"]
  /\ executions' = executions \cup
       {[job |-> j, attempt |-> retries[j], phase |-> "executing", pending |-> {}]}
  /\ UNCHANGED <<registry, existing, retries, history, crashes>>

\* Variant: the options are not passed on, so that pg-boss takes its default.
DefaultLimit(n) == 2

\* The options of the destination go with every event sent to it.
Limit(n) == RetryLimit[n]

\* The state of the jobs, and the retries used, when j fails.
Failed(states, j) ==
  [states EXCEPT ![j] = IF retries[j] < Limit(Queue(j)) THEN "created" ELSE "failed"]
RetriesAfter(j) == IF retries[j] < Limit(Queue(j)) THEN retries[j] + 1 ELSE retries[j]

\* Variant: the worker logs the error and does not throw it again.
ErrorSwallowed(x, states) ==
  /\ jobState' = IF Current(x) THEN [states EXCEPT ![x.job] = "completed"] ELSE states
  /\ UNCHANGED retries

\* The worker's promise rejects; pg-boss has stopped listening to an execution
\* that is not the current one.  Jobs have otherwise got to be as in states.
Rejects(x, states) ==
  IF Current(x)
  THEN /\ jobState' = Failed(states, x.job)
       /\ retries' = [retries EXCEPT ![x.job] = RetriesAfter(x.job)]
  ELSE jobState' = states /\ UNCHANGED retries

Resolves(x) ==
  /\ jobState' = IF Current(x) THEN [jobState EXCEPT ![x.job] = "completed"] ELSE jobState
  /\ UNCHANGED retries

\* The listener returns or throws; its errors are logged.
Listen(x) ==
  /\ x.phase = "executing"
  /\ Queue(x.job) = Home
  /\ heard' = heard \cup {EventOf[x.job]}
  /\ Resolves(x)
  /\ executions' = executions \ {x}
  /\ UNCHANGED <<registry, existing, handed, unroutable, exposed, crashes>>

ExecuteFails(x) ==
  /\ x.phase = "executing"
  /\ Queue(x.job) # Home
  /\ Rejects(x, jobState)
  /\ executions' = executions \ {x}
  /\ UNCHANGED <<registry, existing, history, crashes>>

\* Variant: a name counts as listed only when its registration is over.
UnroutableUntilWorking(f) ==
  f \notin Domained /\ (To[f] \in queues \cap Names => registration[To[f]] # "working")

\* No queue is listed for the event (_emitArvoEvent).
Unroutable(f) == f \notin Domained /\ To[f] \notin queues

\* All outputs are mapped to their promises before the first await, so that
\* their routes are decided at once.  onHandlerNotFound is called with those that
\* have none; its errors are logged, and the wait for it is left out.
ExecuteReturns(x) ==
  LET lost == {f \in OutputsOf(x.job) : Unroutable(f)} IN
  /\ x.phase = "executing"
  /\ Queue(x.job) # Home
  /\ executions' = (executions \ {x}) \cup
       {[x EXCEPT !.phase = "emitting", !.pending = OutputsOf(x.job) \ lost]}
  /\ unroutable' = unroutable \cup lost
  /\ handed' = [handed EXCEPT ![x.job] = @ \cup lost]
  /\ UNCHANGED <<registry, database, heard, exposed, crashes>>

\* Variant: the promise of f may try again before it is over.
EmittedAgain(x, f) ==
  \E rest \in {x.pending, x.pending \ {f}} :
    executions' = (executions \ {x}) \cup {[x EXCEPT !.pending = rest]}

\* The promise of f is over; the others of the execution go on.
Emitted(x, f) == executions' = (executions \ {x}) \cup {[x EXCEPT !.pending = @ \ {f}]}

\* onDomainedEvent is awaited, and its errors logged.
EmitDomained(x, f) ==
  /\ x.phase = "emitting"
  /\ f \in x.pending \cap Domained
  /\ Emitted(x, f)
  /\ handed' = [handed EXCEPT ![x.job] = @ \cup {f}]
  /\ UNCHANGED <<registry, database, unroutable, heard, exposed, crashes>>

\* The job is created; if the answer is lost, the promise rejects all the same.
Send(x, f, answered) ==
  /\ x.phase = "emitting"
  /\ f \in x.pending \ Domained
  /\ CanSend(To[f])
  /\ Unsent(f) # {}
  /\ LET sent == [jobState EXCEPT ![AnyUnsent(f)] = "created"] IN
     IF answered THEN jobState' = sent /\ UNCHANGED retries ELSE Rejects(x, sent)
  /\ Emitted(x, f)
  /\ handed' = [handed EXCEPT ![x.job] = @ \cup {f}]
  /\ UNCHANGED <<registry, existing, unroutable, heard, exposed, crashes>>

\* pg-boss answers null and creates no job, because of another of the queue; the
\* answer is not looked at.
SendIgnored(x, f) ==
  /\ x.phase = "emitting"
  /\ f \in x.pending \ Domained
  /\ To[f] \in Throttled
  /\ CanSend(To[f])
  /\ \E k \in Jobs : Queue(k) = To[f] /\ jobState[k] # "unsent"
  /\ Emitted(x, f)
  /\ handed' = [handed EXCEPT ![x.job] = @ \cup {f}]
  /\ UNCHANGED <<registry, database, unroutable, heard, exposed, crashes>>

\* The send has no effect: the database refuses, there is no queue, or the queue
\* was made with createQueue alone, and reading the options of its name throws.
SendFails(x, f) ==
  /\ x.phase = "emitting"
  /\ f \in x.pending \ Domained
  /\ Rejects(x, jobState)
  /\ Emitted(x, f)
  /\ UNCHANGED <<registry, existing, history, crashes>>

\* Promise.all resolves, unless it has rejected: then x is not current any more.
Finish(x) ==
  /\ x.phase = "emitting"
  /\ x.pending = {}
  /\ Resolves(x)
  /\ executions' = executions \ {x}
  /\ UNCHANGED <<registry, existing, history, crashes>>

\* expireInSeconds
Expire(j) ==
  /\ jobState[j] = "active"
  /\ jobState' = Failed(jobState, j)
  /\ retries' = [retries EXCEPT ![j] = RetriesAfter(j)]
  /\ UNCHANGED <<registry, existing, executions, history, crashes>>

\* The process dies and starts again with an empty registry.
Crash ==
  /\ crashes < MaxCrashes
  /\ crashes' = crashes + 1
  /\ handlers' = {}
  /\ queues' = {}
  /\ registration' = [n \in Names |-> "none"]
  /\ executions' = {}
  /\ exposed' = (exposed \/ \E j \in Jobs : jobState[j] \in Live)
  /\ UNCHANGED <<database, handed, unroutable, heard>>

-----------------------------------------------------------------------------
SetUp(n) == Register(n) \/ QueueDeleted(n) \/ QueueCreated(n)

Work(x) ==
  \/ Listen(x)
  \/ ExecuteFails(x)
  \/ ExecuteReturns(x)
  \/ \E f \in Events :
       \/ EmitDomained(x, f) \/ SendIgnored(x, f) \/ SendFails(x, f)
       \/ \E answered \in BOOLEAN : Send(x, f, answered)
  \/ Finish(x)

WorkOn(j) == \E x \in executions : x.job = j /\ Work(x)

Next ==
  \/ \E n \in Names : SetUp(n) \/ RegistrationFails(n)
  \/ \E n \in Bare : CreateQueue(n)
  \/ \E e \in Events : Dispatch(e)
  \/ \E j \in Jobs : Fetch(j) \/ WorkOn(j) \/ Expire(j)
  \/ Crash

Spec == Init /\ [][Next]_vars

\* Registrations go on, jobs are fetched, executions come to an end, and those
\* that do not are noticed.  Nothing needs to be dispatched.
Fairness ==
  /\ \A n \in Names : WF_vars(SetUp(n))
  /\ \A j \in Jobs : WF_vars(Fetch(j)) /\ WF_vars(WorkOn(j)) /\ WF_vars(Expire(j))

FairSpec == Spec /\ Fairness

-----------------------------------------------------------------------------
(* Properties *)

\* A job completes only when every output has been sent, or given to the
\* callback for domained or unroutable events: no failure in the middle of
\* Promise.all is taken for success (index.ts:323-345).
CompletedMeansHanded ==
  \A j \in Jobs : jobState[j] = "completed" => OutputsOf(j) \subseteq handed[j]

\* Without retries there are no duplicates: if every job of an event completed
\* at its first attempt, no output of it has more jobs than the event
\* (index.ts:325-337), whatever was expired, crashed or answered late elsewhere.
DuplicatesComeFromRetries ==
  \A e \in Events :
    LET JobsOf(f) == {j \in Jobs : EventOf[j] = f /\ jobState[j] # "unsent"} IN
    (\A j \in JobsOf(e) : jobState[j] = "completed" /\ retries[j] = 0) =>
      \A f \in Events : Cause[f] = e => Cardinality(JobsOf(f)) <= Cardinality(JobsOf(e))

\* The jobs that have been sent all end, completed, failed or deleted, through
\* crashes, expiry and registrations in any order, unless a registration has
\* failed (index.ts:182, 347: a queue has at least one worker).
EveryJobEnds ==
  []<>(\/ \A j \in Jobs : jobState[j] \in Ended \cup {"unsent"}
       \/ \E n \in Names : registration[n] = "failed")

\* The persistent queues lose no event (postgres/README.md:13): when a job has
\* completed, each of its outputs for a name of the application has a job of its
\* own, unless the options of the name let pg-boss refuse it.
NoEventIsLost ==
  \A j \in Jobs : jobState[j] = "completed" =>
    \A f \in OutputsOf(j) \ Domained : To[f] \in Names \ Throttled =>
      \E k \in Jobs : EventOf[k] = f /\ jobState[k] # "unsent"

\* That is so as long as all names were listed when an event was dispatched, and no
\* restart has left jobs behind: then no name is taken for unroutable, however
\* far its registration has come, and whatever fails, expires or is answered late
\* (index.ts:265-268, 368-375).
NothingIsDropped == ~exposed => NoEventIsLost
=============================================================================
