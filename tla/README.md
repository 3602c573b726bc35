# Arvo tools in TLA+

A verification project for the packages of this repository: `concurrent`
(in-process machine memory and event broker), `postgres` (the same two over
PostgreSQL and pg-boss) and `agentic` (event-driven LLM agents). It holds TLA+
modules translated from the source, TLC configurations that check them on small
instances, and TLAPS proofs of what matters most for every instance.
`PROJECT.json` maps each definition to the lines it models and lists the runs,
the mutants (what a plausible bug would be, and which property catches it), the
hazards of the code and the theorems.

## The system

An application consists of *event handlers* connected by an *event broker*. A
handler that orchestrates others keeps the state of each *workflow instance* in a
*machine memory*, and takes the memory's lock for the time it works on it. An
*agent* is such a handler whose next step is chosen by a language model: it calls
tools in place, or sends events to services and is suspended until they answer.

| Component | State | Operations | Interacts with |
|---|---|---|---|
| `ConcurrentMachineMemory`, `TTLMutex` | `memoryMap`, `lockMap`, per mutex lock state and time | read, write, lock (retries with backoff), unlock, cleanup, clear | handler executions, through await points |
| `ConcurrentEventBroker` | `subscriptions`, one p-queue per subscription, `inFlightMap` | subscribe, unsubscribe, publish, waitForIdle, clear | handlers it calls, which publish in turn |
| `createConcurrentEventBroker`, `resolve` | locals of one execution and of one call | handler execution with middleware, retries, onError, output; resolve | the broker above |
| `PostgresMachineMemory` v1 | tables state, lock, hierarchy; connection pool | read, write (versioned), lock (lease), unlock, cleanup | several processes through one database |
| memory factory, schema validation | none | create and check the tables | database |
| `PostgresEventBroker` | `handlers`, `_queues`; pg-boss jobs | register, onWorkflowComplete, dispatch, the workers | pg-boss queues |
| agent handler, agent loop | `AgentState` in the memory; locals | init, resume, the tool loop | model, services, MCP, permission manager |
| `SimplePermissionManager` | permissions per workflow | get, set, requestBuilder, cleanup | agent handler |
| `MCPClient` | `client`, `isConnected`, `availableTools` | connect, getTools, invokeTool, disconnect | all executions of one agent |
| LLM adapters (OpenAI, Anthropic) | the parts of a streamed response | transform and format the history, read a response plain or streamed | agent loop, vendors' SDKs |

What is hard, and what makes each part correct:

* **Memory (concurrent).** `lock` captures a mutex and uses it across awaits while
  `cleanup` and `clear` replace it; `unlock` has no owner; leases expire under
  slow holders; `write` overwrites. Correct: at most one execution at a time works
  on a workflow, no update is lost, no lock is held for nobody or for ever.
* **Broker (concurrent).** The count of work in flight is kept per topic over
  several subscriptions, queues and clears. Correct: the counts are exact,
  `waitForIdle` neither returns early nor hangs, nothing published is forgotten.
* **Factory and resolve.** A retry loop with two bounds that disagree, an error
  variable dealt with after the loop, outputs emitted one by one, a reply
  subscription keyed by source. Correct: a handling is all or nothing, a reply is
  neither missed nor given to another call.
* **Memory (postgres).** Leases are advisory; statements fail, and answers to
  statements that took effect are lost; processes crash; `lock` keeps its pool
  client while it waits. Correct: the version check loses no update whatever
  happens to leases; clients are returned; nobody waits for ever.
* **Agent.** Replies arrive in any order and more than once; permissions live in
  the process, the conversation in the memory; the budget spans suspensions.
  Correct: each tool call has one result, no tool runs without a permission, the
  workflow ends and leaves no permission behind.
* **Broker (postgres).** A worker emits its outputs concurrently and its job is
  retried as a whole; a queue is listed before it exists.
* **MCP client.** Its connection is shared by the concurrent executions of an
  agent, each of which connects and disconnects, and which read and reset it on
  both sides of an await. Correct: an execution that is alone finds it fresh,
  whatever overlapping ones left behind, and sessions end with their executions.
* **LLM adapters.** A streamed response is put together from parts of several
  calls; the history is formatted anew for every request, with results moved to
  their calls and media replaced once seen. Correct: what the model sent is what
  the loop gets, every call on the wire has its result, every attachment is shown
  once, and each request continues the one before.

## Modules

| Module | Models | Proved in |
|---|---|---|
| `WorkflowStore` | abstract: what a memory promises | |
| `ConcurrentMachineMemory` | `concurrent/src/ConcurrentMachineMemory` | `ConcurrentMachineMemoryProofs` |
| `ConcurrentEventBroker` | `concurrent/src/ConcurrentEventBroker/index.ts` | `ConcurrentEventBrokerProofs` |
| `EventBrokerFactory` | `concurrent/src/ConcurrentEventBroker/factory.ts`, extends the broker | `EventBrokerFactoryProofs` |
| `PostgresMachineMemory` | `postgres/src/memory/v1/index.ts` | `PostgresMachineMemoryProofs` |
| `PostgresEventBroker` | `postgres/src/broker/index.ts` | `PostgresEventBrokerProofs` |
| `ArvoAgent` | `agentic/src/Agent`, `agentic/src/SimplePermissionManager` | `ArvoAgentProofs` |
| `MCPClient` | `agentic/src/Integrations/MCPClient.ts` and its use in `Agent/index.ts` | `MCPClientProofs` |
| `LLMIntegration` | `agentic/src/Integrations` (`openai`, `anthropic`, `defaultContextTransformer.ts`) with the history kept by `Agent/agentLoop.ts` | `LLMIntegrationProofs` |

Each `MC...` module holds the small instances of the module it is named after.

**How state and actions correspond to code.** JavaScript runs one callback at a
time, so an action of the in-process modules is the code between two awaits, and
executions interleave at every await. An action of `PostgresMachineMemory` is one
step against the database; of `ArvoAgent`, one await of the handler at which
something else can happen. Variables named as in the code are that code's state;
`pc`, `phase` and `waiter` say which await a call is at; captured locals have
variables of their own (`ref` is the mutex a lock call has captured, `snapshot`
what it has read, `prevData` what is passed to `write`). Names after "Variant:"
are mutated forms that no specification uses.

**Data abstraction.** A workflow's record is the set of executions whose updates
it incorporates, which is exactly what tells a lost update from a kept one. An
event is a model value with a destination and the event that causes it. A tool
call is a model value; the message history is the calls it contains and how many
results each has, and in `LLMIntegration`, which is about its order, a sequence of
messages without their wording. The JSON text of a call's arguments is the
sequence of the parts in which it is sent. A list of MCP tools is its version.
Time is abstracted to the moment a lease runs out or a timer fires, so backoff
lengths and jitter are left out. Telemetry, logging and wording are left out.

### ConcurrentMachineMemory

One action per step of `lock` (`LockCall`, `Acquire`, `Refuse`, `Delayed`), and
`Read`, `Write`, `Unlock`, `Cleanup`, `Clear`; `Expire` is a lease running out and
`Crash` a holder that never unlocks. A `TTLMutex` object is named by the execution
whose call created it, so that a mutex forgotten by the map lives on in the calls
that captured it. Three constants say how the memory is used:

* `Timely`: a live holder finishes before its lease (`lockTTLMs`) runs out;
* `QuietCleanup`: a workflow is cleaned up or cleared only while no other execution
  is between its lock call and its end;
* `ReleaseWhenRejected`: callers unlock in a `finally` even if `lock` returned
  false.

`Disciplined` is the first two without the third. The documentation takes it
for granted and the code enforces none of it: if `QuietCleanup` is set to FALSE, or
`ReleaseWhenRejected` to TRUE, in `memory_exclusion.cfg` with `MutualExclusion` as
its only invariant, TLC finds it violated.

### ConcurrentEventBroker and EventBrokerFactory

The broker's actions are its methods and the two ends of a queue's task. p-queue
is external: a concurrency limit and a FIFO. `inFlightMap` is a total function, an
absent entry being zero. A subscription stands for one call of `subscribe` with
its own queue, so a topic can be freed and taken again while tasks of its old
subscription still run. `EventBrokerFactory` extends the module and refines the
handling of an event into the steps of the handler the factory subscribes, and
adds `resolve`, whose wait is the broker's `waitForIdle`. What is assumed of the
event loop is `RepliesTaken`: microtasks run before timers.

### PostgresMachineMemory

Per execution: wait for a client (`Connect`, `ConnectTimesOut`), run the statements
of an operation, release the client in `Return` or `Throw`. `QueryFails` is a
statement without effect; the parameter `answered` is FALSE when a statement took
effect but its answer is lost. The insert of a new subject is a transaction
(`InsertState`, `CommitInsert`) because it blocks other inserts of the same key;
other transactions take effect at their COMMIT. A ROLLBACK that fails counts as one
that succeeds, for it fails when the connection has ended, which rolls back all the
same; the client is released on that path as well. `Crash` takes a whole process.
`removed` and `compromised` are history variables: subjects cleaned up, and
subjects whose lease ran out or was removed under a holder.

### PostgresEventBroker

One process that registers its names, in any order and overlap (`Register`, up to
the first await; `QueueDeleted`, `QueueCreated`, `RegistrationFails`), may call
`createQueue` itself (`Bare`), dispatches, and runs the workers of its queues;
`Crash` starts it again with an empty registry. `Dispatch` demands what `dispatch`
does, the completion handler and a listed queue for the event, and may thus come
between two registrations. A send to a listed name without a handler entry
fails (`CanSend`), as reading its options throws. An execution of a job is a
record with the attempt it was fetched for, so that one that pg-boss has given up
(`Expire`) goes on beside its successor. `ExecuteReturns` decides the routes of
all outputs at once, as the mapping to promises does; each promise then ends on
its own (`EmitDomained`, `Send`, `SendIgnored`, `SendFails`), the first rejection
fails the job, and `Finish` is the end of `Promise.all`. pg-boss is external:
persistent queues and jobs, one worker per fetched job, retries up to the limit
sent with the job. A send that takes effect may go unanswered, and one to a name
in `Throttled` may be refused without an error, as pg-boss does for a singleton or
a full policy. `exposed` is a history variable: an event was dispatched while a
name was not listed yet, or a restart has left jobs. There is one process; two
processes with the same names would share the queues.

### ArvoAgent

One workflow of an agent. An invocation starts with `Initiate`, `Deliver` or
`Redeliver`; goes through `Begin` or `Resume`; loops through `Decide`, `Act`,
`OutputRejected`; and ends by suspending, in `Complete`, or by throwing
(`DecisionFailed`, `Exhausted`, `Fail`). The model may request any tools, the
services may answer anything. `createArvoResumable`, a library, is external: one
invocation at a time, at-least-once delivery, state persisted together with the
emission of the returned events. `Restart` loses the invocation and the
permissions.

### MCPClient

Per execution of the agent: `Connect` up to the handshake, `List` up to the
listing, `ListDone`; `GetTools`; `Invoke` and `InvokeReturns` for each call;
`Disconnect`, `CloseSession` while its close is awaited, and `Reset` after it.
Each await can fail (`ConfigFails`, `HandshakeFails`, `ListFails`, `CloseFails`),
and a listing can find no client any more (`NoClientToList`). An SDK client with
its session is named by the execution whose connect created it, and `target` is
the one a request in progress went to, which `this.client` need no longer be. The
server may drop a session (`Lose`) and change its tools (`Upgrade`). History
variables say which executions were not alone (`overlapped`) and which had a
listing or a close fail (`stranded`). The module has no fairness: what it shows is
safety.

### LLMIntegration

One conversation of an agent with one vendor, plain or streamed. A request
(`InvokeOpenAI`, `InvokeAnthropic`) is the history through
`defaultContextTransformer` and the vendor's formatter. The response comes as the
vendor sends it: `OpenAIOpens` and `OpenAIContinues` for calls whose arguments may
be interleaved, `AnthropicOpens`, `AnthropicContinues`, `AnthropicStops` for blocks
one after the other; for a plain response the same actions only say what it will
hold, and nothing is kept of it until it is returned whole (`OpenAIAnswers`,
`AnthropicAnswers`; streamed: `OpenAIStreamEnds`, `AnthropicStreamEnds`). A
response may stop for a reason the adapters do not know, or a stream may end without
one, in the middle of a block (`Reasons`, `Unfinished`). What the
loop adds to the history follows (`Act`, `Resume`, `Accepts`, `Rejects`). Which
calls are selected and permitted is `ArvoAgent`'s question: here any may be
dropped, and the constant `Kind` says whether a call is answered at once, in place
or by a service.

## Runs

All bounds are constants of a configuration; none of the modules restricts its
state space otherwise. Deadlock is not checked: in every instance the work ends,
and then nothing happens any more.

| Run | Question | Instance and why it is enough |
|---|---|---|
| `memory_exclusion` | With discipline: exclusion, no phantom lock, no lost update (refinement of `WorkflowStore`) | three executions on one workflow, so that one can hold, one wait with an old mutex and one create a new one; one on another workflow; two retries, so that the loop's bound is met |
| `memory_adversity` | Without discipline: do lock calls return, is a lapsed lock taken over by who waits for it | the same three, expiring leases, cleanups at any time, unlocks after failure |
| `broker_idle` | Exact counts, sound and live `waitForIdle`, no forgotten event | a topic subscribed twice with prefetch 1 and 2, a chain of three events across two topics, a waiter with and one without timeout |
| `broker_clear` (violated) | Does `waitForIdle` return after a clear | the same |
| `factory` | All or nothing, resolve's replies and end, within the bound of retries | two resolve calls of one source, of which one may time out; a handler with a reply, an output with a domain, one without destination, and a second hop; two retries |
| `factory_suppress` (violated) | Does SUPPRESS end the handling | the same |
| `postgres_memory` | No lost update, exclusion unless a lease was lost, no leaked client, no starvation | three executions on one subject, so that one can overtake another whose lease ran out while a third waits; two share a process with a pool of one client, so that the holder may need the client a waiting lock call keeps; the third is in another process; one retry; all failures |
| `pg_broker` | Completed jobs have emitted everything, duplicates only by retries, no output dropped unless exposed, every job ends | two handlers and the listener, registered in any order and overlap, dispatches at any time, one handler with `recreateQueue`, whose deletion can fail before the name is listed; a job with a request, a domained event and an unroutable one as outputs, one retry; a second hop without retries and with two workers; a third to the listener; two jobs per later hop, which is what the retry can send; `createQueue` called by the application for one of the handlers, before or during its registration; refused sends to the listener; one crash |
| `agent` | One result per call, permitted runs, clean-up, end | three calls of a restricted service (request, use, use again), one of a restricted tool in place, one of an unknown tool; budget 2, one restart, one repeated delivery; single-use and workflow-wide permissions |
| `agent_budget` (violated) | Are tools executed in at most `maxToolInteractions` loops | the same |
| `mcp` | A fresh start for whoever is alone, no session left open without a reason | three executions, so that one can follow two that overlap; two versions of the tools, one call each; symmetric |
| `llm` | Responses as sent, a result for every call, media shown once, requests that continue each other | both vendors, plain and streamed; arguments in no, one and two parts; calls refused, blocked, run in place and by a service; two calls a response, three requests; all reasons to stop; a picture, a PDF and another file |

The violated runs are the findings in `PROJECT.json`: each quotes the line of
documentation that the code contradicts.

**Fairness.** In-process modules assume that callbacks that are due run and timers
fire (weak fairness of lock's steps, of polls, of the handling of events), which
the event loop gives, and that handlers settle, without which `waitForIdle` is not
meant to return. Nothing is assumed about holders of the memory's lock in
`LockCallReturns` and `LapsedLockIsTakenOver`: a lease may never run out, but when
it has, whoever waits takes the lock over. `PostgresMachineMemory` assumes that
the database answers, in one way or another, but not that leases expire or waits
for a client time out. `PostgresEventBroker` assumes that registrations go on,
that workers fetch jobs and executions end, or else expire; not that anything is
dispatched. `ArvoAgent` assumes that events are delivered and services and model
answer, not what they answer. `MCPClient` and `LLMIntegration` state safety only
and assume nothing. Crashes, failures and restarts are never fair.

## Theorems

Each theorem is about the specification its run checks, for every value of the
constants that satisfies the module's assumptions; hypotheses beyond those are
named in the table.

| Theorem | Module | Says |
|---|---|---|
| `TypeCorrect` | all; `FactoryTypeCorrect` for the factory | the type invariant |
| `Exclusion`, given `Disciplined` | `ConcurrentMachineMemoryProofs` | `[]MutualExclusion` |
| `NoPhantom`, given `Disciplined` | same | `[]NoPhantomLock` |
| `StoreRefinement`, given `Disciplined` | same | the memory implements `WorkflowStore` |
| `ExactCounts` | `ConcurrentEventBrokerProofs` | `[]CountsAreExact` |
| `IdleIsSound` | same | `IdleMeansSettled` |
| `FactoryCountsExactly` | `EventBrokerFactoryProofs` | `[]CountsAreExact` under the steps of the factory's handlers and of `resolve` |
| `OutputsAllOrNothing` | same | `[]AllOrNothing` |
| `RepliesAreNotMissed` | same | `[]NoReplyMissed` |
| `RepliesAreOwn`, given `RepliesGoBack` | same | `[]ForeignReplyOnlyAfterTimeOut` |
| `UpdatesAreKept` | `PostgresMachineMemoryProofs` | `NoLostUpdate` |
| `TableIsStore`, given `~EnableCleanup` | same | the state table implements `WorkflowStore` |
| `LeasesExclude` | same | `[]ExclusionUnlessCompromised` |
| `NoClientLeaks` | same | `[]ClientsAreReturned` |
| `RootsAreShared` | same | `[]TreeSharesRoot` |
| `CompletionIsEarned` | `PostgresEventBrokerProofs` | `[]CompletedMeansHanded` |
| `OutputsAreRouted` | same | `[]NothingIsDropped` |
| `DuplicatesNeedRetries` | same | `[]DuplicatesComeFromRetries` |
| `ResultsAreComplete` | `ArvoAgentProofs` | `[]EveryCallAnsweredOnce` |
| `RunsArePermitted` | same | `[]PermittedRuns` |
| `NothingLeftBehind` | same | `[]PermissionsCleared` |
| `BudgetHolds` | same | `[]InteractionsBounded`: one loop more than documented, and no more |
| `Fresh` | `MCPClientProofs` | `[]FreshStart` |
| `Ended` | same | `[]SessionsEnd` |
| `ResponsesAsSent` | `LLMIntegrationProofs` | `[]StreamedAsSent` |
| `RequestsComplete` | same | `[]EveryCallHasItsResult` |
| `MediaAreShownOnce` | same | `[]MediaShownOnce` |
| `ConversationOnlyGrows` | same | `ConversationGrows` |

*Memory (concurrent).* `MutualExclusion` is not inductive: it says nothing of
executions that still wait. `ExclusionInv` adds that whoever waits or holds uses the
mutex the map has (`MutexAgreement`), that mutexes of different workflows differ
(`MutexBelongs`), that a holder's mutex is held and not lapsed (`HoldersHold`) and
that an execution that has cleaned up is alone until it unlocks (`CleanedAlone`).
All contenders thus meet at one mutex, which admits one. The refinement adds that
a holder's snapshot is the current record until it writes (`SnapshotsFresh`) and
that an update which is still to be made is in no record (`WritesPending`); a
`Write` then is an `Apply`, `Cleanup` and `Clear` are `Forget`, and all else
stutters. `NoPhantom` adds that mutexes not yet created are free (`Unborn`) and
that captured mutexes belong to the workflow (`RefBelongs`). Where the discipline
is needed it is a hypothesis of the theorem.

*Broker (concurrent).* `CountsAreExact` alone is not inductive, since a step that
moves an event could count it twice. `BrokerInv` adds that an event is in at most
one place (`Placement`) and that the published events are those settled, on their
way or discarded (`Accounted`). Publishing adds one element to the set counted for
its topic, settling removes one, and unsubscribing and clearing move elements
within it. If all counts are zero, the sets are empty, and by `Accounted`
everything published is settled.

*Factory and resolve.* The lemmas about the broker's steps say what each does to
the places of events, so that the factory's steps, which contain them, keep
`BrokerInv` as well: `waitForIdle` is sound for `resolve`. `AllOrNothing` needs to
know what each phase of a handling has done (`Stages`), which is stable because an
event is published by its cause only and once (`PublishedOnce`), and because only
its handler moves it on (`Untouched`). `NoReplyMissed` follows an event back to its
request. `Root` is recursive, and the library's theorems for such definitions cannot
be used (their parameters are operators); `RootUnfolds` proves the recursion from the
set of requests reached through `Cause` instead, which has one element at most
whatever the causes are. Then: a call holds its source until it ends (`Holders`), all
that a request leads to is settled when the call returns, since nothing is active
then and only what is active leads to more (`ReturnedDone`), and a reply is at the
call's subscription or has been resolved to (`Tracked`). `RepliesGoBack` is about the
application: what a request leads to is addressed to no source of a call but its
own, as handlers reply to the source of the event they handle; without it, a
handler could send anybody's reply to anybody.

*Memory (postgres).* Nothing about locks is used for updates. A row that was read
and not removed is there with the same version only if it has the same data
(`VersionsIdentify`): an update increments the version, so it invalidates all
earlier copies, and an insert waits for others of its subject, so it never replaces
a row (`InsertsAlone`). That an execution's own update is new needs that it is in no
row or copy before its write (`WrittenOnce`). `TableIsStore` is the same step by step
against `WorkflowStore`. Cleanup is excluded from it by hypothesis: after one, a
stale writer's version may match (see below). For exclusion, the holder whose lease
is good finds the lock held and nobody else there (`HolderAlone`). For clients, that
finitely many are out (`PoolInv`). For roots, a subject that was created has its rows
until it is removed, and its parent was created before it (`RowsOfCreated`,
`ParentsFirst`, `RootIsCurrent`).

*Broker (postgres).* What must not happen is that an execution which pg-boss has
given up completes its job. An execution belongs to an attempt its job has come to
(`Attempts`) and jobs only move on, so that it is enough to look at the current
one: what it does not have pending it has handed over (`Handover`), and it completes
with nothing pending. For duplicates, a job in its first attempt has one execution,
which has an output pending or handed over, never both (`FirstAttempt`); so the sends
of an output never outnumber the jobs that handed it over (`Sends`). For routes,
as long as nothing is exposed all names are listed whenever a job or an execution
is alive, so that what an execution hands over to a name has been sent (`Routed`).

*Agent.* In every state that is saved or worked on, the calls without a result are
those awaited, received, or in the batch being acted on (`Accounted`); when the model
is asked there are none. A permission that is granted, or was just drained for the
batch in progress, is covered by a grant that no batch has used up
(`PermissionsCovered`): the two are counted apart, since a drain takes a permission
out of the manager before its batch has run. The interactions counted in the state
in force are the responses of the model (`CountedInteractions`). Permissions are
cleared by the step that ends the workflow, and no invocation starts after it
(`LifeCycle`).

*MCP client.* `FreshStart` speaks of executions that have got their tools, and
`SessionsEnd` of those that are over; `ClientInv` says what holds on the way.
While an execution that was never overlapped is in progress, no other is
(`Alone`): entering marks all that are in progress. Nobody else can therefore
replace, reset or close what it uses (`Holds`), and at each point of its way out
its session is closed, or is the one `disconnect` will close because client and
`isConnected` still say so, or its listing or closing failed (`Ends`). `Bystander`
is the lemma that a step of one execution leaves those alone that have not begun
or are over.

*LLM adapters.* A formatted request is a concatenation of the pieces its messages
become, so half of the work is what `FlattenSeq` returns, for every sequence.
`SetInduction` replaces the induction theorem, from the existence of a least
element in a set of naturals. `Flattens` finds the recursive definition behind
`FlattenSeq`, and `FlattenPlaces`, `FlattenConcat` and `FlattenRange` say where each
piece ends up. `StreamedAsSent` needs `Assembled`: a block holds the parts sent so
far of the call at its index, and Anthropic's calls are those of the stopped blocks.
`EveryCallHasItsResult` needs `Recorded`: a call in the history is not in the
response under way, occurs once, and has its result or is awaited, and nothing is
awaited when the model is asked. The formatter moves results to their calls, so
that the history may be in any other order. For `MediaShownOnce`, an attachment
keeps its place in the history and is seen exactly if a request has shown it
(`MediaKept`). For `ConversationGrows`, the last request, without what the next one
may drop or replace (`Lasting`), is a beginning of what the history is formatted to
(`Covered`), because `Lasting` of a concatenation is the concatenation of the
`Lasting`s, and the history is only added to.

The proofs changed the model where it was wrong: an earlier property said that
without a restart nothing is given up as unroutable, and no invariant implied it,
for a dispatch may come before the last registration has listed its name, or when
a failed one never will. `exposed` records exactly that, and `NothingIsDropped` is
stated with it. Assumptions that the proofs needed are in the modules: `None` is
not among the rows, ids and events it is distinguished from, and events have no
cause addressed to the completion listener, as its worker ignores what it returns.
`Filter` of `LLMIntegration` is a concatenation of singletons, where it used to be
`SelectSeq`, which no prover can expand; the two agree.

**Only proved.** `RootsAreShared`: the instance of `postgres_memory` has no child, as
the races it is for are those for one subject.

**Only model-checked.** Every liveness property (the prover has no fairness
reasoning here): `LockCallReturns`, `LapsedLockIsTakenOver`,
`EveryEventSettles`, `IdleIsReportedIfNothingDiscarded`, `EveryCallEnds`,
`EveryExecutionEnds`, `EveryJobEnds`, `EveryWorkflowEnds`. Every safety property a
passing run checks is stated by a theorem above.

## What the checks say about the code

* The memory's lock is sound under the discipline above. The example in its
  documentation (`ConcurrentMachineMemory/index.ts:139-152`) unlocks in a `finally`
  whatever `lock` returned, which frees the lock of the holder, against "prevents
  concurrent processing of the same workflow instance" (131-133); a cleanup while
  another execution waits splits the workflow's mutex in two, against "only one
  handler modifies state at any given time" (`concurrent/README.md:37`).
* The broker's counting survives unsubscribing, resubscribing and clearing while
  tasks run; what it does not survive is a clear of *queued* tasks, after which it
  counts them for ever (`broker_clear`).
* An error answered with SUPPRESS is retried like any other (`factory_suppress`).
* PostgreSQL's versioned write protects the data whatever happens to the leases,
  with one exception the property names: after a cleanup versions start at 1
  again, so that a writer from before the cleanup may match a record it has not
  read.
* A child that is persisted after its parent was cleaned up becomes the root of its
  own tree, although `getRootSubject` promises the top-level workflow
  (`memory/v1/index.ts:416-419`); in no other way does it miss its parent's root
  (theorem `RootsAreShared`).
* The PostgreSQL broker never takes a job for done with an output unsent, but what
  it emits may be executed more than once, and it may drop events in two ways:
  after a restart a queue is worked on as soon as it is registered, and outputs to
  handlers that are registered a moment later go to `onHandlerNotFound`, although
  `postgres/README.md:13` says that no events are lost; and likewise if an event is dispatched before all names are
  listed, which `dispatch` does not prevent. There is no third way
  (`NothingIsDropped`), apart from sends that pg-boss refuses by a policy.
* An agent asks its model once more than `maxToolInteractions` says, and may then
  execute tools once more (`agent_budget`); never more than that (`BudgetHolds`).
* Executions of an agent that overlap disturb each other's MCP sessions: a call may
  go over another execution's session or find it closed, and `getTools` may return
  nothing. `FreshStart` shows that none of it outlasts the overlap. Sessions stay
  open after an overlap, and also, without one, after a failed listing: the failed
  connect leaves `isConnected` false, and `disconnect` then does nothing, although
  it "closes the transport session" (`interfaces.mcp.ts:28`).
* A text is marked as cut only for the reasons the adapters know; a response that
  stops for another, or a stream that breaks off without one, is taken for a whole
  answer.
* Calls without arguments are dropped by all adapters except Anthropic's plain one,
  because the empty text is no JSON; if a response has no other calls, its text,
  possibly empty, becomes the agent's answer.
* Of a file that is neither an image nor a PDF, Anthropic's formatter sends
  nothing, and later requests tell the model that it has looked at it
  (`MediaShownOnce` exempts such files by name: `Omitted`).

**What the properties exempt.** Some hazards happen, in the model as in the code,
and no property catches them. Most show in a single execution: a late unsubscribe
that removes a newer subscription, a publish that throws after earlier outputs went
out, an `unlock` that finds no client or deletes a successor's row. Others are
excluded by an assumption or exempted by a history variable, which is named where
it is used: a cleanup while another execution waits for the mutex, an `unlock` by an
execution that was refused, versions that start again after a cleanup, a parent
cleaned up before its child is persisted, an output dropped after an early dispatch
or a restart. Permission grants are counted by calls of `set`, so that a decision
delivered twice is two grants, as it is in the code.

## Not modelled

* The memory factory and the schema validation of `postgres`: straight-line
  set-up whose outcome a test observes.
* Of the LLM adapters: system prompts, tool and response schemas, token usage,
  events to `onStream`, and a context transformer of the application's own.
* Of the MCP client: `getToolPriority`, which reads the configuration, and the
  choice of the transport.
* Schemas and the output builder of `AgentDefaults` (its context builder is the
  initial history of `LLMIntegration`), stream and contract schemas, OpenTelemetry:
  no state and no influence on control flow.
* `getStats`, `getSubjectsByRoot`, `getRootSubject`: they only read.

## Plan

The safety properties of the runs are proved. What is left is an abstract
specification of a broker (an event is settled at most once, by the handler of its
topic or as discarded), which `ConcurrentEventBroker` implements step by step;
`Placement` and `Accounted` are the invariants its refinement needs.
