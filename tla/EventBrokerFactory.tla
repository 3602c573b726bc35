-------------------------- MODULE EventBrokerFactory --------------------------
(***************************************************************************)
(* createConcurrentEventBroker (concurrent/src/ConcurrentEventBroker/      *)
(* factory.ts): the handlers it subscribes to a ConcurrentEventBroker, each *)
(* an execution with middleware, retries and an onError policy, and the    *)
(* resolve function, which sends an event and waits for the reply.         *)
(*                                                                         *)
(* An action is the code between two awaits, except that the loop which    *)
(* publishes the outputs takes a step per event.  The events a successful  *)
(* execution of e returns are those whose Cause is e.  The application     *)
(* uses the returned broker through resolve only; what else it may do to   *)
(* it is in ConcurrentEventBroker.                                         *)
(*                                                                         *)
(* Variables of ConcurrentEventBroker keep their meaning; a caller of      *)
(* waitForIdle is a call of resolve.                                       *)
(***************************************************************************)
EXTENDS ConcurrentEventBroker

CONSTANTS
  MaxRetries,      \* retryConfig.maxRetries
  Request,         \* resolve call -> the event it is called with
  ReplySub,        \* resolve call -> its subscription to the event's source
  Domained,        \* events with a domain, routed outside the broker
  Unaddressed      \* events without `to`, which publish refuses to take

HandlerSubs == Subs \ {ReplySub[r] : r \in Callers}
Source(r) == TopicOf[ReplySub[r]]

ASSUME FactoryAssumption ==
  /\ MaxRetries \in Nat
  /\ Request \in [Callers -> Events]
  /\ ReplySub \in [Callers -> Subs]
  /\ \A q, r \in Callers : q # r => ReplySub[q] # ReplySub[r] /\ Request[q] # Request[r]
  /\ \A r \in Callers : Cause[Request[r]] = None /\ To[Request[r]] # Source(r)
  /\ Domained \cup Unaddressed \subseteq {e \in Events : Cause[e] # None}

VARIABLES
  phase,          \* event -> where its handling is
  attempt,        \* event -> counter of the retry loop
  error,          \* event -> error # null
  outputs,        \* event -> events returned by its execution, yet to be emitted
  executions,     \* event -> handler.execute calls made for it
  suppressed,     \* events for which onError has answered SUPPRESS
  failed,         \* events whose handling ended with an error
  emitted,        \* events given to publish or to onDomainedEvents
  resolvedEvent,  \* resolve call -> the reply, or None
  refused,        \* resolve calls refused because their source is taken
  ended           \* resolve calls that have unsubscribed and ended

handlingVars == <<phase, attempt, error, outputs, executions, suppressed, failed, emitted>>
resolveVars == <<resolvedEvent, refused, ended>>
factoryVars == <<vars, handlingVars, resolveVars>>

Phases == {"input", "ready", "executing", "delaying", "output", "emitting", "rejected"}

\* The executions a loop can make are numbered from 0.
AttemptNumbers == {0} \cup {n \in 0 .. MaxRetries : n < MaxRetries}

FactoryTypeOK ==
  /\ TypeOK
  /\ phase \in [Events -> Phases]
  /\ attempt \in [Events -> AttemptNumbers]
  /\ error \in [Events -> BOOLEAN]
  /\ outputs \in [Events -> SUBSET Events]
  /\ executions \in [Events -> Nat]
  /\ suppressed \in SUBSET Events
  /\ failed \in SUBSET Events
  /\ emitted \in SUBSET Events
  /\ resolvedEvent \in [Callers -> Events \cup {None}]
  /\ refused \in SUBSET Callers
  /\ ended \in SUBSET Callers

\* The factory returns a broker with every handler subscribed.
FactoryInit ==
  /\ subscribed = HandlerSubs
  /\ subscriptions \in [Topics -> HandlerSubs \cup {None}]
  /\ \A s \in HandlerSubs : subscriptions[TopicOf[s]] = s
  /\ \A t \in Topics : subscriptions[t] # None => TopicOf[subscriptions[t]] = t
  /\ queue = [s \in Subs |-> <<>>]
  /\ running = [s \in Subs |-> {}]
  /\ inFlightMap = [t \in Topics |-> 0]
  /\ published = {}
  /\ settled = {}
  /\ discarded = {}
  /\ waiter = [r \in Callers |-> "idle"]
  /\ phase = [e \in Events |-> "input"]
  /\ attempt = [e \in Events |-> 0]
  /\ error = [e \in Events |-> FALSE]
  /\ outputs = [e \in Events |-> {}]
  /\ executions = [e \in Events |-> 0]
  /\ suppressed = {}
  /\ failed = {}
  /\ emitted = {}
  /\ resolvedEvent = [r \in Callers |-> None]
  /\ refused = {}
  /\ ended = {}

-----------------------------------------------------------------------------
(* The handling of an event: middleware, the retry loop, and the output *)

\* The execution of the handler subscribed as s, for e, is at the given point.
Handling(s, e, p) == s \in HandlerSubs /\ e \in running[s] /\ phase[e] = p

Goto(e, p) == phase' = [phase EXCEPT ![e] = p]

\* The input middleware runs before the loop's try, so that its error is not
\* retried.
InputMiddleware(s, e) ==
  /\ Handling(s, e, "input")
  /\ Goto(e, "ready") \/ Goto(e, "rejected")
  /\ UNCHANGED <<vars, attempt, error, outputs, executions, suppressed, failed, emitted,
                 resolveVars>>

\* The head of the loop's body: error = null, events = [], and the call.
Execute(s, e) ==
  /\ Handling(s, e, "ready")
  /\ Goto(e, "executing")
  /\ error' = [error EXCEPT ![e] = FALSE]
  /\ outputs' = [outputs EXCEPT ![e] = {}]
  /\ executions' = [executions EXCEPT ![e] = @ + 1]
  /\ UNCHANGED <<vars, attempt, suppressed, failed, emitted, resolveVars>>

ExecuteReturns(s, e) ==
  /\ Handling(s, e, "executing")
  /\ Goto(e, "output")
  /\ outputs' = [outputs EXCEPT ![e] = {f \in Events : Cause[f] = e}]
  /\ UNCHANGED <<vars, attempt, error, executions, suppressed, failed, emitted, resolveVars>>

\* Variant: attempts are counted, and compared, as the while does.
GivesUpLate(n) == n > MaxRetries

\* The test after attempt++.
GivesUp(n) == n >= MaxRetries

\* Variant: the error of the last attempt is forgotten.
AfterLoopUnchecked(e, err) == Goto(e, "output")

\* After the loop: `if (error) throw error`.
AfterLoop(e, err) == Goto(e, IF err THEN "rejected" ELSE "output")

\* attempt++ and what follows it.
NextAttempt(e, err) ==
  IF GivesUp(attempt[e] + 1)
  THEN AfterLoop(e, err) /\ UNCHANGED attempt
  ELSE Goto(e, "ready") /\ attempt' = [attempt EXCEPT ![e] = @ + 1]

\* handler.execute rejects and onError answers.  No onError, and an answer that
\* is a promise (it is not awaited), count as RETRY.  SUPPRESS clears the error
\* but does not leave the loop.
ExecuteFails(s, e, answer) ==
  /\ Handling(s, e, "executing")
  /\ LET err == answer # "SUPPRESS" IN
       /\ error' = [error EXCEPT ![e] = err]
       /\ suppressed' = IF err THEN suppressed ELSE suppressed \cup {e}
       /\ IF answer = "THROW"
          THEN Goto(e, "rejected") /\ UNCHANGED attempt
          ELSE IF attempt[e] < MaxRetries
          THEN Goto(e, "delaying") /\ UNCHANGED attempt
          ELSE NextAttempt(e, err)
  /\ UNCHANGED <<vars, outputs, executions, failed, emitted, resolveVars>>

\* The backoff's timer fires.
Delayed(s, e) ==
  /\ Handling(s, e, "delaying")
  /\ NextAttempt(e, error[e])
  /\ UNCHANGED <<vars, error, outputs, executions, suppressed, failed, emitted, resolveVars>>

OutputMiddleware(s, e) ==
  /\ Handling(s, e, "output")
  /\ Goto(e, "emitting") \/ Goto(e, "rejected")
  /\ UNCHANGED <<vars, attempt, error, outputs, executions, suppressed, failed, emitted,
                 resolveVars>>

\* An output with a domain goes to onDomainedEvents, which is not awaited; any
\* other is published, which throws if it has no destination.
Emit(s, e, f) ==
  /\ Handling(s, e, "emitting")
  /\ f \in outputs[e]
  /\ IF f \in Unaddressed \ Domained
     THEN /\ Goto(e, "rejected")
          /\ UNCHANGED <<outputs, emitted, queue, running, inFlightMap, published, settled,
                         discarded>>
     ELSE /\ UNCHANGED phase
          /\ outputs' = [outputs EXCEPT ![e] = @ \ {f}]
          /\ emitted' = emitted \cup {f}
          /\ IF f \in Domained
             THEN UNCHANGED <<queue, running, inFlightMap, published, settled, discarded>>
             ELSE Route(f)
  /\ UNCHANGED <<subscriptions, subscribed, waiter, attempt, error, executions, suppressed,
                 failed, resolveVars>>

\* Variant: a promise that rejects does not give the count and slot back.
FinishIfEmitted(s, e) ==
  /\ Handling(s, e, "emitting") /\ outputs[e] = {}
  /\ SettleTask(s, e)
  /\ UNCHANGED <<waiter, handlingVars, resolveVars>>

\* The handler's promise settles.
Finish(s, e) ==
  /\ \/ Handling(s, e, "emitting") /\ outputs[e] = {}
     \/ Handling(s, e, "rejected")
  /\ SettleTask(s, e)
  /\ failed' = IF phase[e] = "rejected" THEN failed \cup {e} ELSE failed
  /\ UNCHANGED <<waiter, phase, attempt, error, outputs, executions, suppressed, emitted,
                 resolveVars>>

-----------------------------------------------------------------------------
(* resolve *)

\* Variant: the call takes the source over from another.
ResolveUnchecked(r) ==
  /\ waiter[r] = "idle"
  /\ subscribed' = subscribed \cup {ReplySub[r]}
  /\ subscriptions' = [subscriptions EXCEPT ![Source(r)] = ReplySub[r]]
  /\ Route(Request[r])
  /\ waiter' = [waiter EXCEPT ![r] = IF HasInflightWork' THEN "polling" ELSE "returned"]
  /\ UNCHANGED <<handlingVars, resolveVars>>

\* Up to the first await: subscribe to the source, publish, and waitForIdle's
\* first check.  A source that is a topic of the broker is refused.
Resolve(r) ==
  /\ waiter[r] = "idle"
  /\ r \notin refused
  /\ IF subscriptions[Source(r)] # None
     THEN /\ refused' = refused \cup {r}
          /\ UNCHANGED vars
     ELSE /\ subscribed' = subscribed \cup {ReplySub[r]}
          /\ subscriptions' = [subscriptions EXCEPT ![Source(r)] = ReplySub[r]]
          /\ Route(Request[r])
          /\ waiter' = [waiter EXCEPT ![r] = IF HasInflightWork' THEN "polling" ELSE "returned"]
          /\ UNCHANGED refused
  /\ UNCHANGED <<handlingVars, resolvedEvent, ended>>

\* The reply handler of the call keeps the event; a later one replaces it.
Reply(r, e) ==
  /\ SettleTask(ReplySub[r], e)
  /\ resolvedEvent' = [resolvedEvent EXCEPT ![r] = e]
  /\ UNCHANGED <<waiter, handlingVars, refused, ended>>

\* The poll's timer fires when no reply handler is half way: reply handlers
\* only take microtasks, and those come before timers.
RepliesTaken == \A r \in Callers : running[ReplySub[r]] = {}

PollResolve(r) ==
  /\ RepliesTaken
  /\ Poll(r) \/ TimeOut(r)
  /\ UNCHANGED <<handlingVars, resolveVars>>

\* The `finally`: the call returns what it has, or throws after a timeout.
EndResolve(r) ==
  /\ waiter[r] \in {"returned", "timedOut"}
  /\ r \notin ended
  /\ Unsubscribe(ReplySub[r])
  /\ ended' = ended \cup {r}
  /\ UNCHANGED <<handlingVars, resolvedEvent, refused>>

-----------------------------------------------------------------------------
\* The steps of the handling of e, and of a call of resolve.
Handle(s, e) ==
  \/ InputMiddleware(s, e)
  \/ Execute(s, e)
  \/ ExecuteReturns(s, e)
  \/ \E answer \in {"RETRY", "THROW", "SUPPRESS"} : ExecuteFails(s, e, answer)
  \/ Delayed(s, e)
  \/ OutputMiddleware(s, e)
  \/ \E f \in Events : Emit(s, e, f)
  \/ Finish(s, e)

Await(r) ==
  \/ \E e \in Events : Reply(r, e)
  \/ PollResolve(r)
  \/ EndResolve(r)

FactoryNext ==
  \/ \E s \in Subs, e \in Events : Handle(s, e)
  \/ \E r \in Callers : Resolve(r) \/ Await(r)

FactorySpec == FactoryInit /\ [][FactoryNext]_factoryVars

\* Middleware, handlers and timers all come to an end.
FactoryFairness ==
  /\ \A e \in Events : WF_factoryVars(\E s \in Subs : Handle(s, e))
  /\ \A r \in Callers : WF_factoryVars(Await(r))

FactoryFairSpec == FactorySpec /\ FactoryFairness

-----------------------------------------------------------------------------
(* Properties *)

OutputsOf(e) == {f \in Events : Cause[f] = e}
Handled(e) == e \in settled /\ executions[e] > 0

\* The handling of an event is all or nothing: when it is over, either all
\* outputs have been emitted and no error is reported, or none and an error, or
\* none and onError has suppressed an error.  Only an output that publish
\* refuses can leave some emitted next to an error.
AllOrNothing ==
  \A e \in Events : Handled(e) =>
    \/ OutputsOf(e) \subseteq emitted /\ e \notin failed
    \/ OutputsOf(e) \cap emitted = {} /\ e \in failed \cup suppressed
    \/ OutputsOf(e) \cap Unaddressed # {} /\ e \in failed

\* The request a published event goes back to.
Root[e \in Events] == IF Cause[e] = None THEN e ELSE Root[Cause[e]]

\* resolve returns null only if nothing that its request caused was addressed
\* to it: no reply is missed because waitForIdle returned before it was handled.
NoReplyMissed ==
  \A r \in Callers :
    waiter[r] = "returned" /\ resolvedEvent[r] = None =>
      ~\E e \in published : To[e] = Source(r) /\ Root[e] = Request[r]

\* A call resolves to the reply to another call's request only if that call, of
\* the same source, has timed out: the reply came late.
ForeignReplyOnlyAfterTimeOut ==
  \A r \in Callers :
    resolvedEvent[r] = None \/ Root[resolvedEvent[r]] = Request[r]
      \/ \E q \in Callers : /\ waiter[q] = "timedOut"
                            /\ Source(q) = Source(r)
                            /\ Root[resolvedEvent[r]] = Request[q]

\* Every call of resolve ends, unless a reply has been dropped from the queue
\* of a call that was timing out.
EveryCallEnds ==
  \A r \in Callers : waiter[r] # "idle" ~> r \in ended \/ discarded # {}

\* The answer SUPPRESS of onError is "to ignore" the error (types.ts:161-163):
\* the event is then done with, and not executed once more.
SuppressEndsHandling ==
  [][\A s \in Subs, e \in Events : Execute(s, e) => e \notin suppressed]_factoryVars
=============================================================================
