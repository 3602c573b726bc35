------------------------------- MODULE ArvoAgent -------------------------------
(***************************************************************************)
(* One workflow of an agent (agentic/src/Agent: createArvoAgent, agentLoop, *)
(* prioritizeToolCalls) with its SimplePermissionManager.  The handler is  *)
(* invoked with the initial event, and again with each reply of a service  *)
(* the agent has called; between invocations only the persisted state is   *)
(* left.  The model, the services and whoever decides on permissions may   *)
(* answer anything.                                                        *)
(*                                                                         *)
(* Data abstraction: a tool call is a model value, standing for the id the *)
(* model gives it, with a fixed tool.  Of the message history only the     *)
(* tool calls in it, and the number of results each has, are kept.  MCP    *)
(* and internal tools are tools that run in place.                         *)
(*                                                                         *)
(* ArvoResumable (external): it runs one invocation of a workflow at a     *)
(* time (under the lock of the memory), persists the returned context and  *)
(* then emits the returned service events, answers a thrown error with a   *)
(* system error that ends the workflow, and ignores what comes after the   *)
(* end.  An event is delivered at least once: again if its invocation was  *)
(* lost in a crash, and sometimes without need.                            *)
(***************************************************************************)
EXTENDS Naturals, FiniteSets

CONSTANTS
  Calls,              \* tool calls the model may make
  Tools,              \* the tools the agent has
  ToolOf,             \* call -> its tool, or None if there is no such tool
  Remote,             \* tools that are Arvo services; the others run in place
  Restricted,         \* explicitPermissionRequired
  Priority,           \* tool -> priority
  MaxInteractions,    \* maxToolInteractions
  EnableCleanUp,      \* the permission manager's enableCleanUp
  MaxRestarts,        \* bound: restarts of the process
  MaxRedeliveries,    \* bound: deliveries of a reply that is not awaited
  None

ASSUME ToolsAssumption ==
  /\ IsFiniteSet(Calls)
  /\ Calls \cap Nat = {}
  /\ ToolOf \in [Calls -> Tools \cup {None}]
  /\ None \notin Tools
  /\ Remote \subseteq Tools
  /\ Restricted \subseteq Tools
  /\ Priority \in [Tools -> Nat]
ASSUME ConfigAssumption ==
  /\ MaxInteractions \in Nat
  /\ EnableCleanUp \in BOOLEAN
  /\ MaxRestarts \in Nat
  /\ MaxRedeliveries \in Nat

\* A permission request is known by the number of the interaction it is made in.
Requests == 1 .. (MaxInteractions + 1)
Ids == Calls \cup Requests

ASSUME NoneAssumption == None \notin Ids

\* AgentState, and what the loop keeps of it in local variables.
AgentStates ==
  [current  : 0 .. (MaxInteractions + 1),  \* toolInteractions.current
   used     : SUBSET Calls,                \* tool_use messages
   results  : [Calls -> Nat],              \* tool_result messages per call
   awaiting : SUBSET Ids,                  \* awaitingToolCalls without data
   received : SUBSET Ids]                  \* awaitingToolCalls with data

\* A reply is a success or a system error; a decision on permissions has lists.
Replies == [ok : BOOLEAN, granted : SUBSET Restricted, denied : SUBSET Restricted]

VARIABLES
  singleUse,      \* permissionPersistance is SINGLE_USE
  status,         \* "new", "suspended", "done" or "failed"
  saved,          \* the persisted AgentState
  phase,          \* where the invocation in progress is, or "idle"
  trigger,        \* the id the invocation's event replies to, or None
  local,          \* the invocation's AgentState
  batch,          \* the calls it is about to make
  authorization,  \* toolPermissionMap
  permissions,    \* the permission manager's entry for this workflow
  replies,        \* id -> the reply to it that has been sent, or None
  sent,           \* ids of the service events emitted
  requested,      \* request -> requestedTools
  runs,           \* restricted tool -> batches in which it has run
  grants,         \* restricted tool -> set calls that granted it
  llmCalls,       \* responses of the model
  restarts,
  redeliveries

invocation == <<phase, trigger, local, batch, authorization>>
outside == <<replies, sent, requested>>
history == <<runs, grants, llmCalls>>
bounds == <<restarts, redeliveries>>
vars == <<singleUse, status, saved, invocation, permissions, outside, history, bounds>>

Verdicts == {"APPROVED", "DENIED", "REQUESTABLE"}
Blank == [t \in Restricted |-> "none"]
NoVerdict == [t \in Restricted |-> "APPROVED"]
NewState == [current |-> 0, used |-> {}, results |-> [c \in Calls |-> 0],
             awaiting |-> {}, received |-> {}]

TypeOK ==
  /\ singleUse \in BOOLEAN
  /\ status \in {"new", "suspended", "done", "failed"}
  /\ saved \in AgentStates
  /\ phase \in {"idle", "preparing", "calling", "acting"}
  /\ trigger \in Ids \cup {None}
  /\ local \in AgentStates
  /\ batch \in SUBSET Calls
  /\ authorization \in [Restricted -> Verdicts]
  /\ permissions \in [Restricted -> {"none", "granted", "denied"}]
  /\ replies \in [Ids -> Replies \cup {None}]
  /\ sent \in SUBSET Ids
  /\ requested \in [Requests -> SUBSET Restricted]
  /\ runs \in [Restricted -> Nat]
  /\ grants \in [Restricted -> Nat]
  /\ llmCalls \in Nat
  /\ restarts \in 0 .. MaxRestarts
  /\ redeliveries \in 0 .. MaxRedeliveries

Init ==
  /\ singleUse \in BOOLEAN
  /\ status = "new"
  /\ saved = NewState
  /\ phase = "idle"
  /\ trigger = None
  /\ local = NewState
  /\ batch = {}
  /\ authorization = NoVerdict
  /\ permissions = Blank
  /\ replies = [i \in Ids |-> None]
  /\ sent = {}
  /\ requested = [n \in Requests |-> {}]
  /\ runs = [t \in Restricted |-> 0]
  /\ grants = [t \in Restricted |-> 0]
  /\ llmCalls = 0
  /\ restarts = 0
  /\ redeliveries = 0

-----------------------------------------------------------------------------
(* SimplePermissionManager *)

\* What get answers for a tool.
Authorization(t) ==
  CASE permissions[t] = "granted" -> "APPROVED"
    [] permissions[t] = "denied"  -> "DENIED"
    [] OTHER                      -> "REQUESTABLE"

\* Variant: permissions are kept.
NothingDrained == permissions

\* get takes single-use permissions of every tool, also of those it was not
\* asked about.
AfterGet == IF singleUse THEN Blank ELSE permissions

\* set: a tool in both lists is denied, one in neither stays as it was.
AfterSet(reply) ==
  [t \in Restricted |-> IF t \in reply.denied THEN "denied"
                        ELSE IF t \in reply.granted THEN "granted" ELSE permissions[t]]

\* cleanup
AfterCleanup == IF EnableCleanUp THEN Blank ELSE permissions

-----------------------------------------------------------------------------
(* The end of an invocation *)

\* Local variables are gone; only what is saved is left.
Leave ==
  /\ phase' = "idle"
  /\ trigger' = None
  /\ local' = NewState
  /\ batch' = {}
  /\ authorization' = NoVerdict

Suspend(state) ==
  /\ saved' = state
  /\ status' = "suspended"
  /\ Leave

\* Variant: the permissions are only cleaned up when an output is returned.
ThrowUncleaned ==
  /\ status' = "failed"
  /\ Leave
  /\ UNCHANGED <<saved, permissions>>

\* An error is thrown and caught: the permissions are cleaned up and the
\* workflow ends.
Throw ==
  /\ status' = "failed"
  /\ permissions' = AfterCleanup
  /\ Leave
  /\ UNCHANGED saved

-----------------------------------------------------------------------------
(* The handler, up to the loop *)

Start(id) ==
  /\ phase = "idle"
  /\ phase' = "preparing"
  /\ trigger' = id
  /\ local' = saved
  /\ UNCHANGED <<singleUse, status, saved, batch, authorization, permissions, outside,
                 history, restarts>>

Initiate == status = "new" /\ Start(None) /\ UNCHANGED redeliveries

\* A reply the workflow is waiting for arrives.
Deliver(i) ==
  /\ status = "suspended"
  /\ i \in saved.awaiting
  /\ replies[i] # None
  /\ Start(i)
  /\ UNCHANGED redeliveries

\* A reply arrives that was delivered before.
Redeliver(i) ==
  /\ status = "suspended"
  /\ i \notin saved.awaiting
  /\ replies[i] # None
  /\ redeliveries < MaxRedeliveries
  /\ redeliveries' = redeliveries + 1
  /\ Start(i)

\* The MCP client is connected, and the context built, before the first loop.
Begin ==
  /\ phase = "preparing"
  /\ trigger = None
  /\ phase' = "calling"
  /\ UNCHANGED <<singleUse, status, saved, trigger, local, batch, authorization,
                 permissions, outside, history, bounds>>

\* Variants: the loop goes on after the first reply; it never goes on.
WaitsForFirst(state) == state.received = {}
WaitsForever(state) == state.awaiting \cup state.received # {}

\* Some awaited call has no data yet.
Waits(state) == state.awaiting # {}

\* The reply is recorded if its parentid is that of an awaited call.
Recorded(i) ==
  IF i \in local.awaiting
  THEN [local EXCEPT !.awaiting = @ \ {i}, !.received = @ \cup {i}] ELSE local

\* Every service call gets its result; a permission reply becomes a message.
WithResults(state) ==
  [state EXCEPT !.results = [c \in Calls |-> @[c] + IF c \in state.received THEN 1 ELSE 0],
                !.awaiting = {}, !.received = {}]

IsDecision(i) == i \in Requests \cap (local.awaiting \cup local.received)

\* A decision on permissions is stored at once, also while others are awaited.
Resume ==
  /\ phase = "preparing"
  /\ trigger # None
  /\ IsDecision(trigger) => replies[trigger].ok
  /\ IF IsDecision(trigger)
     THEN /\ permissions' = AfterSet(replies[trigger])
          /\ grants' = [t \in Restricted |->
               grants[t] + IF t \in replies[trigger].granted \ replies[trigger].denied
                           THEN 1 ELSE 0]
     ELSE UNCHANGED <<permissions, grants>>
  /\ IF Waits(Recorded(trigger))
     THEN Suspend(Recorded(trigger))
     ELSE /\ local' = WithResults(Recorded(trigger))
          /\ phase' = "calling"
          /\ UNCHANGED <<status, saved, trigger, batch, authorization>>
  /\ UNCHANGED <<singleUse, outside, runs, llmCalls, bounds>>

\* A permission request that failed ends the workflow.
DecisionFailed ==
  /\ phase = "preparing"
  /\ trigger # None
  /\ IsDecision(trigger) /\ ~replies[trigger].ok
  /\ Throw
  /\ UNCHANGED <<singleUse, outside, history, bounds>>

-----------------------------------------------------------------------------
(* The loop *)

PriorityOf(c) == IF ToolOf[c] = None THEN 0 ELSE Priority[ToolOf[c]]

\* The requests of the highest priority; the others are dropped.
Prioritized(R) == {c \in R : \A d \in R : PriorityOf(c) >= PriorityOf(d)}

\* Variant: the budget is tested after the call.
InLoopLate == phase = "calling" /\ local.current <= MaxInteractions + 1

InLoop == phase = "calling" /\ local.current <= MaxInteractions

\* The model requests tools; get is called for every batch, also when none of
\* its tools is restricted.
Decide(R) ==
  /\ InLoop
  /\ batch' = Prioritized(R)
  /\ local' = [local EXCEPT !.current = @ + 1, !.used = @ \cup Prioritized(R)]
  /\ authorization' = [t \in Restricted |-> Authorization(t)]
  /\ permissions' = AfterGet
  /\ phase' = "acting"
  /\ llmCalls' = llmCalls + 1
  /\ UNCHANGED <<singleUse, status, saved, trigger, outside, runs, grants, bounds>>

Verdict(c) ==
  CASE ToolOf[c] = None           -> "UNKNOWN"
    [] ToolOf[c] \notin Restricted -> "APPROVED"
    [] OTHER                      -> authorization[ToolOf[c]]

\* Calls of services whose input is valid are emitted, and so is one permission
\* request for all blocked tools; every other call has its result at once: it
\* ran in place, or was refused, blocked or invalid.  If anything is emitted the
\* handler returns and waits for all of it, otherwise the loop goes on.
Act(valid) ==
  LET approved == {c \in batch : Verdict(c) = "APPROVED"}
      remote   == {c \in approved : ToolOf[c] \in Remote}
      blocked  == {ToolOf[c] : c \in {d \in batch : Verdict(d) = "REQUESTABLE"}}
      ran      == {ToolOf[c] : c \in (approved \ remote) \cup valid}
      emitted  == valid \cup IF blocked = {} THEN {} ELSE {local.current}
      state    == [local EXCEPT !.results = [c \in Calls |->
                     @[c] + IF c \in batch \ valid THEN 1 ELSE 0]]
  IN
  /\ phase = "acting"
  /\ valid \subseteq remote
  /\ IF emitted = {}
     THEN /\ local' = state
          /\ phase' = "calling"
          /\ batch' = {}
          /\ authorization' = NoVerdict
          /\ UNCHANGED <<status, saved, trigger>>
     ELSE Suspend([state EXCEPT !.awaiting = emitted])
  /\ sent' = sent \cup emitted
  /\ requested' = IF blocked = {} THEN requested
                  ELSE [requested EXCEPT ![local.current] = blocked]
  /\ runs' = [t \in Restricted |-> runs[t] + IF t \in ran THEN 1 ELSE 0]
  /\ UNCHANGED <<singleUse, permissions, replies, grants, llmCalls, bounds>>

\* The model answers, but not in the output format: it is told so.
OutputRejected ==
  /\ InLoop
  /\ local' = [local EXCEPT !.current = @ + 1]
  /\ llmCalls' = llmCalls + 1
  /\ UNCHANGED <<singleUse, status, saved, phase, trigger, batch, authorization,
                 permissions, outside, runs, grants, bounds>>

Complete ==
  /\ InLoop
  /\ llmCalls' = llmCalls + 1
  /\ saved' = [local EXCEPT !.current = @ + 1]
  /\ status' = "done"
  /\ permissions' = AfterCleanup
  /\ Leave
  /\ UNCHANGED <<singleUse, outside, runs, grants, bounds>>

\* "Tool calls exhausted the max quota"
Exhausted ==
  /\ phase = "calling"
  /\ ~InLoop
  /\ Throw
  /\ UNCHANGED <<singleUse, outside, history, bounds>>

\* A call of the MCP client, the context builder, the model, the permission
\* manager or the output builder throws.
Fail ==
  /\ phase # "idle"
  /\ Throw
  /\ UNCHANGED <<singleUse, outside, history, bounds>>

-----------------------------------------------------------------------------
(* Services and the process *)

\* A service answers, also with an error; whoever decides on permissions may
\* grant and deny any of the requested tools, or fail.
RepliesTo(i) ==
  IF i \in Calls THEN {[ok |-> TRUE, granted |-> {}, denied |-> {}]}
  ELSE {[ok |-> FALSE, granted |-> {}, denied |-> {}]} \cup
       {r \in Replies : r.ok /\ r.granted \cup r.denied \subseteq requested[i]}

Answer(i) ==
  /\ i \in sent
  /\ replies[i] = None
  /\ \E r \in RepliesTo(i) : replies' = [replies EXCEPT ![i] = r]
  /\ UNCHANGED <<singleUse, status, saved, invocation, permissions, sent, requested,
                 history, bounds>>

\* The permission manager keeps its permissions in the process.
Restart ==
  /\ status \in {"new", "suspended"}
  /\ restarts < MaxRestarts
  /\ restarts' = restarts + 1
  /\ permissions' = Blank
  /\ Leave
  /\ UNCHANGED <<singleUse, status, saved, outside, history, redeliveries>>

-----------------------------------------------------------------------------
Invocation ==
  \/ Begin
  \/ Resume
  \/ DecisionFailed
  \/ \E R \in SUBSET (Calls \ local.used) \ {{}} : Decide(R)
  \/ \E valid \in SUBSET batch : Act(valid)
  \/ OutputRejected
  \/ Complete
  \/ Exhausted

Next ==
  \/ Initiate
  \/ \E i \in Ids : Deliver(i) \/ Redeliver(i) \/ Answer(i)
  \/ Invocation
  \/ Fail
  \/ Restart

Spec == Init /\ [][Next]_vars

\* Events are delivered, services answer, and what the handler awaits returns.
Fairness ==
  /\ WF_vars(Initiate)
  /\ WF_vars(Invocation)
  /\ \A i \in Ids : WF_vars(Deliver(i)) /\ WF_vars(Answer(i))

FairSpec == Spec /\ Fairness

-----------------------------------------------------------------------------
(* Properties *)

\* Whenever the model is called, every tool call in its history has exactly one
\* result, as the APIs of the vendors demand: whatever was dropped for its
\* priority, refused, blocked, invalid, run in place or answered out of order or
\* more than once (agentLoop.ts:188-440, index.ts:347-401).
EveryCallAnsweredOnce ==
  InLoop => \A c \in Calls : local.results[c] = IF c \in local.used THEN 1 ELSE 0

\* A restricted tool runs only if it was granted; a single-use permission serves
\* the calls of one batch, so that there are never more such batches than grants
\* (SimplePermissionManager, permissionPersistance).
PermittedRuns ==
  \A t \in Restricted :
    /\ runs[t] > 0 => grants[t] > 0
    /\ singleUse => runs[t] <= grants[t]

\* maxToolInteractions is "the maximum number of tool-execution loops" (types.ts:334),
\* "while toolInteractions.current < toolInteractions.max" (ExecutionDiagram.md:103):
\* when the requests of a response are acted on, that response is within it.
ToolLoopsWithinMax == phase = "acting" => local.current <= MaxInteractions

\* What the code keeps of it: however often the workflow is suspended and resumed,
\* the model is asked at most once more than maxToolInteractions
\* (agentLoop.ts:107); only a restart repeats a question.
InteractionsBounded == restarts = 0 => llmCalls <= MaxInteractions + 1

\* A workflow that has ended leaves no permission behind that a later workflow
\* could find (cleanup, on each way out of the handler).
PermissionsCleared ==
  EnableCleanUp /\ status \in {"done", "failed"} => permissions = Blank

\* Every workflow ends, with an output or an error, through restarts and
\* whatever the model and the services answer.
EveryWorkflowEnds == <>(status \in {"done", "failed"})
=============================================================================
