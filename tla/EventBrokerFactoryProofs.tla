----------------------- MODULE EventBrokerFactoryProofs -----------------------
(***************************************************************************)
(* Proofs about EventBrokerFactory, for any handlers, events, retries and  *)
(* calls of resolve.                                                       *)
(*                                                                         *)
(* The arguments.  The factory's steps keep the accounting of the broker   *)
(* below (BrokerInv), so that waitForIdle is sound for resolve too.        *)
(* Handling: an output is emitted once, after the only execution that      *)
(* succeeded (Stages).  Replies: from resolve to its end, a call holds its *)
(* source (Holders), and everything its request leads to is published      *)
(* while something it led to is running; so once the call has returned     *)
(* nothing of it is left (ReturnedDone), and its replies have gone to its  *)
(* own subscription (Tracked).                                             *)
(***************************************************************************)
EXTENDS EventBrokerFactory, ConcurrentEventBrokerProofs

\* What has been handled or reported is on its way no more.
SettledIsGone == settled \cap (Active \cup discarded) = {}

\* An event is published by its cause or as a request, and each once.
PublishedOnce ==
  /\ published \subseteq emitted \cup {Request[r] : r \in {c \in Callers : waiter[c] # "idle"}}
  /\ \A f \in emitted : Cause[f] # None

\* Only handlers move an event on from its first phase.
Untouched ==
  \A e \in Events \ settled :
    (\A s \in HandlerSubs : e \notin running[s]) => phase[e] = "input"

NothingEmitted(e) == OutputsOf(e) \cap emitted = {}

\* What each phase of the handling of e has done.
Stage(e) ==
  /\ phase[e] = "input" => executions[e] = 0
  /\ phase[e] \in {"input", "ready", "executing", "delaying"} =>
       outputs[e] = {} /\ NothingEmitted(e)
  /\ phase[e] = "delaying" /\ ~error[e] => e \in suppressed
  /\ phase[e] = "output" =>
       /\ NothingEmitted(e)
       /\ outputs[e] = OutputsOf(e) \/ (outputs[e] = {} /\ e \in suppressed)
  /\ phase[e] = "emitting" =>
       /\ outputs[e] \subseteq OutputsOf(e) \ emitted
       /\ \/ OutputsOf(e) \subseteq outputs[e] \cup emitted
          \/ outputs[e] = {} /\ NothingEmitted(e) /\ e \in suppressed
  /\ phase[e] = "rejected" => NothingEmitted(e) \/ OutputsOf(e) \cap Unaddressed # {}
  /\ e \in failed => phase[e] = "rejected"
  /\ e \in settled /\ phase[e] # "input" =>
       (phase[e] = "emitting" /\ outputs[e] = {}) \/ (phase[e] = "rejected" /\ e \in failed)

Stages == \A e \in Events : Stage(e)

HandlingInv ==
  /\ FactoryTypeOK
  /\ BrokerInv
  /\ SettledIsGone
  /\ PublishedOnce
  /\ Untouched
  /\ Stages

\* A call holds its source until it ends.
Holders ==
  /\ \A t \in Topics : subscriptions[t] # None => TopicOf[subscriptions[t]] = t
  /\ \A r \in Callers \ ended : waiter[r] # "idle" => subscriptions[Source(r)] = ReplySub[r]
  /\ \A r \in ended : waiter[r] \in {"returned", "timedOut"}

\* The events that have gone to a subscription, and to that of a call.
Held(s) == running[s] \cup Waiting(s)
AtCall(r) == Held(ReplySub[r])

\* Whatever is published goes back to the request of a call that was made.
RootsKnown ==
  \A e \in published : \E r \in Callers : Root[e] = Request[r] /\ waiter[r] # "idle"

\* Once a call has returned, all that its request led to is over.
ReturnedDone ==
  \A r \in Callers : waiter[r] = "returned" =>
    \A e \in published : Root[e] = Request[r] => e \in settled

\* A reply that a call has not got yet is at its subscription.
Tracked ==
  \A r \in Callers : waiter[r] # "timedOut" /\ resolvedEvent[r] = None =>
    \A e \in published : Root[e] = Request[r] /\ To[e] = Source(r) => e \in AtCall(r)

ReplyInv ==
  /\ Holders
  /\ RootsKnown
  /\ ReturnedDone
  /\ Tracked

\* A reply is the call's own, or that of one of the same source that timed out.
OwnOrLate(r, e) ==
  \/ Root[e] = Request[r]
  \/ \E q \in Callers : /\ waiter[q] = "timedOut"
                        /\ Source(q) = Source(r)
                        /\ Root[e] = Request[q]

RepliesOwned ==
  \A r \in Callers :
    /\ \A e \in AtCall(r) : OwnOrLate(r, e)
    /\ resolvedEvent[r] # None => OwnOrLate(r, resolvedEvent[r])

-----------------------------------------------------------------------------
(* Roots *)

\* Events that the causes of an event cannot leave.
ClosedUnderCause(S) == \A c \in S : Cause[c] # None => Cause[c] \in S

\* The requests an event goes back to: one at most, and none if its causes were
\* circular or endless.
RootsOf(e) ==
  {r \in Events : Cause[r] = None /\ \A S \in SUBSET Events :
                                       e \in S /\ ClosedUnderCause(S) => r \in S}

\* The recursive definition of Root determines a function, whatever causes what.
LEMMA RootUnfolds ==
  \A e \in Events : Root[e] = IF Cause[e] = None THEN e ELSE Root[Cause[e]]
<1> DEFINE F == [e \in Events |-> CHOOSE r : r \in RootsOf(e)]
           Eqn(f) == f = [e \in Events |-> IF Cause[e] = None THEN e ELSE f[Cause[e]]]
<1>1. ASSUME NEW e \in Events, Cause[e] = None PROVE RootsOf(e) = {e}
  <2>1. {e} \in SUBSET Events /\ ClosedUnderCause({e})
    BY <1>1 DEF ClosedUnderCause
  <2>2. RootsOf(e) \subseteq {e}
    BY <2>1 DEF RootsOf
  <2>3. e \in RootsOf(e)
    BY <1>1 DEF RootsOf
  <2> QED
    BY <2>2, <2>3
<1>2. ASSUME NEW e \in Events, Cause[e] # None PROVE RootsOf(e) = RootsOf(Cause[e])
  <2>1. ASSUME NEW r \in RootsOf(e), NEW S \in SUBSET Events,
               Cause[e] \in S, ClosedUnderCause(S)
        PROVE  r \in S
    <3>1. S \cup {e} \in SUBSET Events /\ ClosedUnderCause(S \cup {e})
      BY <2>1 DEF ClosedUnderCause
    <3>2. r \in S \cup {e}
      BY <3>1 DEF RootsOf
    <3> QED
      BY <1>2, <3>2 DEF RootsOf
  <2>2. ASSUME NEW r \in RootsOf(Cause[e]), NEW S \in SUBSET Events,
               e \in S, ClosedUnderCause(S)
        PROVE  r \in S
    <3>1. Cause[e] \in S
      BY <1>2, <2>2 DEF ClosedUnderCause
    <3> QED
      BY <2>2, <3>1 DEF RootsOf
  <2> QED
    BY <2>1, <2>2 DEF RootsOf
<1>3. Eqn(F)
  <2>1. ASSUME NEW e \in Events
        PROVE  F[e] = IF Cause[e] = None THEN e ELSE F[Cause[e]]
    <3>1. CASE Cause[e] = None
      BY <3>1, <1>1
    <3>2. CASE Cause[e] # None
      <4>1. Cause[e] \in Events
        BY <3>2, EventsAssumption
      <4> QED
        BY <3>2, <4>1, <1>2
    <3> QED
      BY <3>1, <3>2
  <2> HIDE DEF F
  <2>2. F = [e \in Events |-> F[e]]
    BY DEF F
  <2> QED
    BY <2>1, <2>2
<1>4. Root = CHOOSE f : Eqn(f)
  BY DEF Root
<1> HIDE DEF F, Eqn
<1>5. Eqn(Root)
  BY <1>3, <1>4
<1> QED
  BY <1>5 DEF Eqn

-----------------------------------------------------------------------------
(* What publishing, settling and unsubscribing do to the broker below *)

\* A published event is added to the subscription its topic has, if any.
LEMMA RouteHeld ==
  ASSUME TypeOK, NEW e \in Events, Route(e), NEW s \in Subs
  PROVE  /\ running[s] \subseteq running'[s]
         /\ Held(s)' = IF s = subscriptions[To[e]] THEN Held(s) \cup {e} ELSE Held(s)
<1> USE SubsAssumption, EventsAssumption DEF TypeOK
<1>1. CASE s # subscriptions[To[e]]
  BY <1>1 DEF Route, AddTask, Held, Waiting
<1>2. CASE s = subscriptions[To[e]]
  <2>1. CASE running' = [running EXCEPT ![s] = @ \cup {e}] /\ queue' = queue
    BY <2>1, <1>2 DEF Held, Waiting
  <2>2. CASE running' = running /\ queue' = [queue EXCEPT ![s] = Append(@, e)]
    <3>1. queue'[s] = Append(queue[s], e) /\ queue[s] \in Seq(Events)
      BY <2>2
    <3>2. Waiting(s)' = Waiting(s) \cup {e}
      <4> HIDE DEF TypeOK
      <4> QED
        BY <3>1, QueueFacts DEF Waiting
    <3> QED
      BY <3>2, <2>2, <1>2 DEF Held
  <2> QED
    BY <2>1, <2>2, <1>2 DEF Route, AddTask
<1> QED
  BY <1>1, <1>2

\* A task that settles leaves the other subscriptions, and the other tasks of
\* its own, where they are.
LEMMA SettleHeld ==
  ASSUME TypeOK, NEW s \in Subs, NEW e \in Events, SettleTask(s, e), NEW t \in Subs
  PROVE  /\ running[t] \ {e} \subseteq running'[t]
         /\ t # s => running'[t] = running[t] /\ Held(t)' = Held(t)
         /\ Held(t)' \subseteq Held(t)
<1> USE DEF TypeOK
<1>1. CASE t # s
  BY <1>1 DEF SettleTask, Held, Waiting
<1>2. CASE t = s
  <2>1. running[t] \ {e} \subseteq running'[t]
    BY <1>2 DEF SettleTask
  <2>2. CASE queue[s] = <<>>
    BY <1>2, <2>1, <2>2 DEF SettleTask, Held, Waiting
  <2>3. CASE queue[s] # <<>>
    <3>1. queue[s] \in Seq(Events) /\ queue'[s] = Tail(queue[s])
      BY <2>3 DEF SettleTask
    <3>2. Head(queue[s]) \in Waiting(s) /\ Waiting(s)' \subseteq Waiting(s)
      BY <3>1, <2>3, QueueFacts DEF Waiting
    <3> QED
      BY <1>2, <2>1, <2>3, <3>2 DEF SettleTask, Held
  <2> QED
    BY <2>2, <2>3
<1> QED
  BY <1>1, <1>2

\* A subscription that is removed keeps the tasks it runs.
LEMMA UnsubscribeHeld ==
  ASSUME TypeOK, NEW s \in Subs, Unsubscribe(s), NEW t \in Subs
  PROVE  running'[t] = running[t] /\ Held(t)' \subseteq Held(t) /\ (t # s => Held(t)' = Held(t))
BY DEF TypeOK, Unsubscribe, Held, Waiting

\* What is at a subscription is on its way, and has been published.
LEMMA HeldActive ==
  ASSUME BrokerInv, NEW s \in Subs
  PROVE  running[s] \subseteq Held(s) /\ Held(s) \subseteq Active /\ Active \subseteq published
BY DEF Held, Active, BrokerInv, Accounted

\* The subscriptions of handlers are not those of calls, and a request has no
\* cause.
LEMMA CallFacts ==
  ASSUME NEW r \in Callers
  PROVE  /\ Request[r] \in Events /\ ReplySub[r] \in Subs \ HandlerSubs /\ Source(r) \in Topics
         /\ Cause[Request[r]] = None /\ Root[Request[r]] = Request[r]
         /\ To[Request[r]] # Source(r)
         /\ \A q \in Callers \ {r} : ReplySub[q] # ReplySub[r] /\ Request[q] # Request[r]
<1>1. Request[r] \in Events /\ Cause[Request[r]] = None
  BY FactoryAssumption
<1>2. Root[Request[r]] = Request[r]
  BY <1>1, RootUnfolds
<1> QED
  BY <1>1, <1>2, FactoryAssumption, SubsAssumption DEF HandlerSubs, Source


-----------------------------------------------------------------------------
(* Types *)

\* The variables of the handling of events and of resolve are well typed.
HandlingTyped ==
  /\ phase \in [Events -> Phases]
  /\ attempt \in [Events -> AttemptNumbers]
  /\ error \in [Events -> BOOLEAN]
  /\ outputs \in [Events -> SUBSET Events]
  /\ executions \in [Events -> Nat]
  /\ suppressed \subseteq Events /\ failed \subseteq Events /\ emitted \subseteq Events

ResolveTyped ==
  /\ resolvedEvent \in [Callers -> Events \cup {None}]
  /\ refused \subseteq Callers /\ ended \subseteq Callers

\* The counter of the retry loop stays below maxRetries.
LEMMA NextAttemptType ==
  ASSUME HandlingTyped, NEW e \in Events, NEW err \in BOOLEAN, NextAttempt(e, err)
  PROVE  phase' \in [Events -> Phases] /\ attempt' \in [Events -> AttemptNumbers]
<1>1. CASE GivesUp(attempt[e] + 1)
  BY <1>1 DEF NextAttempt, AfterLoop, Goto, HandlingTyped, Phases
<1>2. CASE ~GivesUp(attempt[e] + 1)
  <2>1. attempt[e] + 1 \in AttemptNumbers
    BY <1>2, FactoryAssumption DEF GivesUp, HandlingTyped, AttemptNumbers
  <2> QED
    BY <1>2, <2>1 DEF NextAttempt, Goto, HandlingTyped, Phases
<1> QED
  BY <1>1, <1>2

\* A step in the handling of an event leaves its variables well typed.
LEMMA HandleTyped ==
  ASSUME HandlingTyped, NEW s \in Subs, NEW e \in Events, Handle(s, e)
  PROVE  HandlingTyped'
<1> USE DEF HandlingTyped, Phases
<1>1. CASE InputMiddleware(s, e) \/ OutputMiddleware(s, e)
  BY <1>1 DEF InputMiddleware, OutputMiddleware, Goto
<1>2. CASE Execute(s, e)
  BY <1>2 DEF Execute, Goto
<1>7. CASE ExecuteReturns(s, e)
  <2>1. {f \in Events : Cause[f] = e} \in SUBSET Events
    OBVIOUS
  <2>2. outputs' \in [Events -> SUBSET Events]
    BY <1>7, <2>1, ExceptType, Zenon DEF ExecuteReturns
  <2> QED
    BY <1>7, <2>2 DEF ExecuteReturns, Goto
<1>3. ASSUME NEW answer \in {"RETRY", "THROW", "SUPPRESS"}, ExecuteFails(s, e, answer)
      PROVE  HandlingTyped'
  <2>1. error' \in [Events -> BOOLEAN] /\ suppressed' \subseteq Events
    BY <1>3 DEF ExecuteFails
  <2>2. phase' \in [Events -> Phases] /\ attempt' \in [Events -> AttemptNumbers]
    <3>1. CASE NextAttempt(e, answer # "SUPPRESS")
      BY <3>1, NextAttemptType
    <3>2. CASE (Goto(e, "rejected") \/ Goto(e, "delaying")) /\ UNCHANGED attempt
      BY <3>2 DEF Goto
    <3> QED
      BY <1>3, <3>1, <3>2 DEF ExecuteFails
  <2> QED
    BY <1>3, <2>1, <2>2 DEF ExecuteFails
<1>4. CASE Delayed(s, e)
  BY <1>4, NextAttemptType DEF Delayed
<1>5. ASSUME NEW f \in Events, Emit(s, e, f) PROVE HandlingTyped'
  BY <1>5 DEF Emit, Goto
<1>6. CASE Finish(s, e)
  BY <1>6 DEF Finish
<1> QED
  BY <1>1, <1>2, <1>3, <1>4, <1>5, <1>6, <1>7 DEF Handle

\* Every step leaves the variables well typed.
LEMMA FactoryTypeStep ==
  ASSUME FactoryTypeOK, [FactoryNext]_factoryVars PROVE FactoryTypeOK'
<1>0. TypeOK /\ HandlingTyped /\ ResolveTyped
  BY DEF FactoryTypeOK, HandlingTyped, ResolveTyped
<1> DEFINE Typed == TypeOK /\ HandlingTyped /\ ResolveTyped
<1> SUFFICES Typed'
  BY DEF FactoryTypeOK, HandlingTyped, ResolveTyped
<1>1. ASSUME NEW s \in Subs, NEW e \in Events, Handle(s, e) PROVE Typed'
  <2>1. HandlingTyped'
    BY <1>0, <1>1, HandleTyped
  <2>2. ResolveTyped' /\ UNCHANGED waiter /\ UNCHANGED <<subscriptions, subscribed>>
    BY <1>0, <1>1 DEF ResolveTyped, Handle, InputMiddleware, Execute, ExecuteReturns, ExecuteFails,
                Delayed, OutputMiddleware, Emit, Finish, SettleTask, resolveVars, vars, brokerVars
  <2>3. WorkTyped'
    <3>1. CASE UNCHANGED <<queue, running, inFlightMap, published, settled, discarded>>
      BY <1>0, <3>1 DEF TypeOK, WorkTyped
    <3>2. CASE SettleTask(s, e)
      BY <1>0, <3>2, SettleType
    <3>3. ASSUME NEW f \in Events, Route(f) PROVE WorkTyped'
      BY <1>0, <3>3, RouteType
    <3> QED
      BY <1>0, <1>1, <3>1, <3>2, <3>3
         DEF Handle, InputMiddleware, Execute, ExecuteReturns, ExecuteFails, Delayed,
             OutputMiddleware, Emit, Finish, vars, brokerVars
  <2> QED
    BY <1>0, <2>1, <2>2, <2>3 DEF TypeOK, WorkTyped
<1>2. ASSUME NEW r \in Callers, Resolve(r) PROVE Typed'
  <2>1. HandlingTyped' /\ ResolveTyped'
    BY <1>0, <1>2 DEF Resolve, handlingVars, HandlingTyped, ResolveTyped
  <2>2. CASE subscriptions[Source(r)] # None
    BY <1>0, <1>2, <2>1, <2>2 DEF Resolve, vars, brokerVars, TypeOK
  <2>3. CASE subscriptions[Source(r)] = None
    <3>1. WorkTyped'
      BY <1>0, <1>2, <2>3, RouteType, CallFacts DEF Resolve
    <3>2. subscriptions' \in [Topics -> Subs \cup {None}] /\ subscribed' \subseteq Subs
      <4>1. ReplySub[r] \in Subs /\ Source(r) \in Topics
        BY CallFacts
      <4>2. /\ subscriptions' = [subscriptions EXCEPT ![Source(r)] = ReplySub[r]]
            /\ subscribed' = subscribed \cup {ReplySub[r]}
        BY <1>2, <2>3 DEF Resolve
      <4> QED
        BY <1>0, <4>1, <4>2 DEF TypeOK
    <3>3. waiter' \in [Callers -> {"idle", "polling", "returned", "timedOut"}]
      BY <1>0, <1>2, <2>3 DEF Resolve, TypeOK
    <3> QED
      BY <2>1, <3>1, <3>2, <3>3 DEF TypeOK, WorkTyped
  <2> QED
    BY <1>0, <2>2, <2>3
<1>3. ASSUME NEW r \in Callers, NEW e \in Events, Reply(r, e) PROVE Typed'
  <2>1. WorkTyped'
    BY <1>0, <1>3, SettleType, CallFacts DEF Reply
  <2>2. HandlingTyped' /\ ResolveTyped'
    BY <1>0, <1>3 DEF Reply, handlingVars, HandlingTyped, ResolveTyped
  <2> QED
    BY <1>0, <1>3, <2>1, <2>2 DEF Reply, SettleTask, TypeOK, WorkTyped
<1>4. ASSUME NEW r \in Callers, PollResolve(r) PROVE Typed'
  BY <1>0, <1>4 DEF PollResolve, Poll, TimeOut, brokerVars, handlingVars, resolveVars, TypeOK,
              HandlingTyped, ResolveTyped
<1>5. ASSUME NEW r \in Callers, EndResolve(r) PROVE Typed'
  <2>1. ReplySub[r] \in Subs /\ Waiting(ReplySub[r]) \subseteq Events
    BY <1>0, CallFacts DEF TypeOK, Waiting
  <2>2. /\ queue' = [queue EXCEPT ![ReplySub[r]] = <<>>]
        /\ subscriptions' = [subscriptions EXCEPT ![Source(r)] = None]
        /\ discarded' = discarded \cup Waiting(ReplySub[r])
        /\ UNCHANGED <<subscribed, running, inFlightMap, published, settled, waiter>>
    BY <1>5 DEF EndResolve, Unsubscribe, Source
  <2>3. <<>> \in Seq(Events) /\ queue \in [Subs -> Seq(Events)]
    BY <1>0 DEF TypeOK
  <2>4. queue' \in [Subs -> Seq(Events)]
    BY <2>1, <2>2, <2>3, ExceptType, Zenon
  <2>5. TypeOK'
    BY <1>0, <2>1, <2>2, <2>4 DEF TypeOK
  <2> QED
    BY <1>0, <1>5, <2>5 DEF EndResolve, handlingVars, HandlingTyped, ResolveTyped
<1>6. ASSUME UNCHANGED factoryVars PROVE Typed'
  BY <1>0, <1>6 DEF factoryVars, vars, brokerVars, handlingVars, resolveVars, TypeOK, HandlingTyped,
              ResolveTyped
<1> QED
  BY <1>0, <1>1, <1>2, <1>3, <1>4, <1>5, <1>6 DEF FactoryNext, Await

\* The factory returns a broker whose variables are well typed.
LEMMA FactoryTypeInit == FactoryInit => FactoryTypeOK
BY SubsAssumption
   DEF FactoryInit, FactoryTypeOK, TypeOK, HandlerSubs, Phases, AttemptNumbers

\* The variables of the factory keep their types; the retry loop never counts
\* beyond maxRetries (factory.ts:91-131).
THEOREM FactoryTypeCorrect == FactorySpec => []FactoryTypeOK
<1>1. FactoryTypeOK /\ [FactoryNext]_factoryVars => FactoryTypeOK'
  BY FactoryTypeStep
<1> QED
  BY FactoryTypeInit, <1>1, PTL DEF FactorySpec

-----------------------------------------------------------------------------
(* The accounting of the broker below *)

Below == Accounted /\ Placement /\ CountsAreExact /\ SettledIsGone

\* A newly published event is settled at once, or on its way.
LEMMA BelowRoute ==
  ASSUME BrokerInv, SettledIsGone, NEW e \in Events \ published, Route(e) PROVE Below'
<1>1. e \notin settled \cup Active \cup discarded
  BY DEF BrokerInv, Accounted
<1>2. CASE subscriptions[To[e]] = None
  <2>1. Accounted' /\ Placement' /\ CountsAreExact' /\ Active' = Active
    BY <1>2, UnroutableStep
  <2> QED
    BY <1>1, <1>2, <2>1 DEF Below, SettledIsGone, Route
<1>3. CASE subscriptions[To[e]] # None
  <2>1. Accounted' /\ Placement' /\ CountsAreExact' /\ Active' = Active \cup {e}
    BY <1>3, RouteStep
  <2> QED
    BY <1>1, <1>3, <2>1 DEF Below, SettledIsGone, Route
<1> QED
  BY <1>2, <1>3

\* A settled event is on its way no more.
LEMMA BelowSettle ==
  ASSUME BrokerInv, SettledIsGone, NEW s \in Subs, NEW e \in Events, SettleTask(s, e)
  PROVE  Below'
<1>1. Accounted' /\ Placement' /\ CountsAreExact' /\ Active' = Active \ {e}
  BY SettleStep
<1>2. e \notin discarded
  BY DEF BrokerInv, Placement, Active, SettleTask
<1> QED
  BY <1>1, <1>2 DEF Below, SettledIsGone, SettleTask

\* Removing a subscription discards what it has queued.
LEMMA BelowUnsubscribe ==
  ASSUME BrokerInv, SettledIsGone, NEW s \in Subs, Unsubscribe(s) PROVE Below'
<1>1. queue' = [t \in Subs |-> IF t \in {s} THEN <<>> ELSE queue[t]]
  BY DEF Unsubscribe, BrokerInv, TypeOK
<1>2. discarded' = discarded \cup UNION {Waiting(t) : t \in {s}}
  BY DEF Unsubscribe
<1>3. /\ Accounted' /\ Placement' /\ CountsAreExact'
      /\ Active' \cup discarded' = Active \cup discarded
  BY <1>1, <1>2, DiscardStep DEF Unsubscribe
<1> QED
  BY <1>3 DEF Below, SettledIsGone, Unsubscribe

\* Other steps leave it as it is.
LEMMA BelowSame ==
  ASSUME BrokerInv, SettledIsGone,
         UNCHANGED <<queue, running, inFlightMap, published, settled, discarded>>
  PROVE  Below'
BY DEF Below, SettledIsGone, BrokerInv, Accounted, Placement, Active, Waiting, CountsAreExact

\* An output that is about to be emitted is new, and so is a request.
LEMMA OutputIsNew ==
  ASSUME HandlingInv, NEW s \in Subs, NEW e \in Events, Handling(s, e, "emitting"),
         NEW f \in outputs[e]
  PROVE  f \in Events \ (published \cup emitted) /\ Cause[f] = e /\ Cause[f] # None
<1>1. f \in OutputsOf(e) \ emitted
  BY DEF HandlingInv, Stages, Stage, Handling
<1>2. f \in Events /\ Cause[f] = e /\ Cause[f] # None
  BY <1>1, EventsAssumption DEF OutputsOf
<1>3. \A r \in Callers : f # Request[r]
  BY <1>2, CallFacts
<1> QED
  BY <1>1, <1>2, <1>3 DEF HandlingInv, PublishedOnce

LEMMA RequestIsNew ==
  ASSUME HandlingInv, NEW r \in Callers, waiter[r] = "idle"
  PROVE  Request[r] \in Events \ published
<1>1. \A q \in Callers : waiter[q] # "idle" => Request[q] # Request[r]
  BY CallFacts
<1>2. Request[r] \in Events /\ Request[r] \notin emitted
  BY CallFacts DEF HandlingInv, PublishedOnce
<1> QED
  BY <1>1, <1>2 DEF HandlingInv, PublishedOnce

\* Every step keeps the accounts of the broker below.
LEMMA BelowStep == ASSUME HandlingInv, [FactoryNext]_factoryVars PROVE Below'
<1> USE DEF HandlingInv
<1> DEFINE Same == UNCHANGED <<queue, running, inFlightMap, published, settled, discarded>>
<1>1. ASSUME NEW s \in Subs, NEW e \in Events, Handle(s, e) PROVE Below'
  <2>1. CASE Finish(s, e)
    BY <2>1, BelowSettle DEF Finish
  <2>2. ASSUME NEW f \in Events, Emit(s, e, f) PROVE Below'
    <3>1. f \in Events \ published
      BY <2>2, OutputIsNew DEF Emit
    <3>2. Same \/ Route(f)
      BY <2>2 DEF Emit
    <3> QED
      BY <3>1, <3>2, BelowSame, BelowRoute
  <2>3. Same \/ Finish(s, e) \/ \E f \in Events : Emit(s, e, f)
    BY <1>1 DEF Handle, InputMiddleware, Execute, ExecuteReturns, ExecuteFails, Delayed,
                OutputMiddleware, vars, brokerVars
  <2> QED
    BY <2>1, <2>2, <2>3, BelowSame
<1>2. ASSUME NEW r \in Callers, Resolve(r) PROVE Below'
  <2>1. Same \/ Route(Request[r])
    BY <1>2 DEF Resolve, vars, brokerVars
  <2>2. Request[r] \in Events \ published
    BY <1>2, RequestIsNew DEF Resolve
  <2> QED
    BY <2>1, <2>2, BelowSame, BelowRoute
<1>3. ASSUME NEW r \in Callers, NEW e \in Events, Reply(r, e) PROVE Below'
  BY <1>3, BelowSettle, CallFacts DEF Reply
<1>4. ASSUME NEW r \in Callers, EndResolve(r) PROVE Below'
  BY <1>4, BelowUnsubscribe, CallFacts DEF EndResolve
<1>5. ASSUME NEW r \in Callers, PollResolve(r) PROVE Below'
  BY <1>5, BelowSame DEF PollResolve, Poll, TimeOut, brokerVars
<1>6. ASSUME UNCHANGED factoryVars PROVE Below'
  BY <1>6, BelowSame DEF factoryVars, vars, brokerVars
<1> QED
  BY <1>1, <1>2, <1>3, <1>4, <1>5, <1>6 DEF FactoryNext, Await

-----------------------------------------------------------------------------
(* The handling of events *)

\* A step that does not concern an event leaves its stage as it is.
LEMMA StageElsewhere ==
  ASSUME NEW e \in Events, Stage(e),
         UNCHANGED <<phase[e], error[e], outputs[e], executions[e]>>,
         e \in suppressed => e \in suppressed',
         e \in failed' <=> e \in failed,
         OutputsOf(e) \cap emitted' = OutputsOf(e) \cap emitted,
         e \in settled' => e \in settled \/ phase[e] = "input"
  PROVE  Stage(e)'
<1>1. /\ NothingEmitted(e)' <=> NothingEmitted(e)
      /\ OutputsOf(e) \ emitted' = OutputsOf(e) \ emitted
      /\ \A S : OutputsOf(e) \subseteq S \cup emitted' <=> OutputsOf(e) \subseteq S \cup emitted
      /\ OutputsOf(e)' = OutputsOf(e)
  BY DEF NothingEmitted, OutputsOf
<1>2. phase'[e] = phase[e] /\ error'[e] = error[e] /\ outputs'[e] = outputs[e]
      /\ executions'[e] = executions[e]
  OBVIOUS
<1>3. phase'[e] = "emitting" =>
        /\ outputs'[e] \subseteq OutputsOf(e) \ emitted'
        /\ \/ OutputsOf(e) \subseteq outputs'[e] \cup emitted'
           \/ outputs'[e] = {} /\ NothingEmitted(e)' /\ e \in suppressed'
  BY <1>1, <1>2 DEF Stage
<1>4. e \in settled' /\ phase'[e] # "input" =>
        (phase'[e] = "emitting" /\ outputs'[e] = {}) \/ (phase'[e] = "rejected" /\ e \in failed')
  BY <1>2 DEF Stage
<1> QED
  BY <1>1, <1>2, <1>3, <1>4 DEF Stage

\* An event stays untouched until a handler runs it.
LEMMA UntouchedStep ==
  ASSUME Untouched, settled \subseteq settled', NEW e \in Events,
         \A s \in HandlerSubs : running[s] \ {e} \subseteq running'[s],
         \A d \in Events \ {e} : phase'[d] = phase[d],
         e \in settled' \/ (\E s \in HandlerSubs : e \in running'[s]) \/ phase'[e] = "input"
  PROVE  Untouched'
BY DEF Untouched

\* A step in the handling of an event leaves it in the stage of its phase.
LEMMA StageStep ==
  ASSUME HandlingInv, NEW s \in Subs, NEW e \in Events, Handle(s, e) PROVE Stage(e)'
<1>1. e \in running[s] /\ e \notin settled /\ s \in HandlerSubs
  <2>1. e \in running[s] /\ s \in HandlerSubs
    BY DEF Handle, InputMiddleware, Execute, ExecuteReturns, ExecuteFails, Delayed,
           OutputMiddleware, Emit, Finish, Handling
  <2>2. e \in Active
    BY <2>1, HeldActive DEF HandlingInv
  <2> QED
    BY <2>1, <2>2 DEF HandlingInv, SettledIsGone
<1>2. Stage(e) /\ HandlingTyped
  BY DEF HandlingInv, Stages, FactoryTypeOK, HandlingTyped
<1> USE <1>1, <1>2 DEF Stage, NothingEmitted, OutputsOf, HandlingTyped, Handling, Goto
<1>3. CASE InputMiddleware(s, e)
  BY <1>3 DEF InputMiddleware, vars, brokerVars
<1>4. CASE Execute(s, e)
  BY <1>4 DEF Execute, vars, brokerVars
<1>5. CASE ExecuteReturns(s, e)
  BY <1>5 DEF ExecuteReturns, vars, brokerVars
<1>6. ASSUME NEW answer \in {"RETRY", "THROW", "SUPPRESS"}, ExecuteFails(s, e, answer)
      PROVE  Stage(e)'
  <2>1. /\ phase[e] = "executing" /\ outputs'[e] = {} /\ executions'[e] = executions[e]
        /\ emitted' = emitted /\ NothingEmitted(e)
        /\ settled' = settled /\ failed' = failed
    BY <1>6 DEF ExecuteFails, vars, brokerVars
  <2>2. \/ phase'[e] = "rejected" \/ phase'[e] = "ready"
        \/ phase'[e] = "delaying" /\ (~error'[e] => e \in suppressed')
        \/ phase'[e] = "output" /\ e \in suppressed'
    BY <1>6 DEF ExecuteFails, NextAttempt, AfterLoop
  <2>3. e \notin failed' /\ e \notin settled'
    BY <2>1
  <2>4. NothingEmitted(e)'
    BY <2>1
  <2>6. CASE phase'[e] \in {"rejected", "ready"}
    BY <2>1, <2>3, <2>4, <2>6
  <2>7. CASE phase'[e] = "delaying" /\ (~error'[e] => e \in suppressed')
    BY <2>1, <2>3, <2>4, <2>7
  <2>8. CASE phase'[e] = "output" /\ e \in suppressed'
    BY <2>1, <2>3, <2>4, <2>8
  <2> QED
    BY <2>2, <2>6, <2>7, <2>8
<1>7. CASE Delayed(s, e)
  <2>1. /\ phase[e] = "delaying" /\ outputs'[e] = {} /\ executions'[e] = executions[e]
        /\ emitted' = emitted /\ NothingEmitted(e)
        /\ settled' = settled /\ failed' = failed /\ suppressed' = suppressed
    BY <1>7 DEF Delayed, vars, brokerVars
  <2>2. \/ phase'[e] = "rejected" \/ phase'[e] = "ready"
        \/ phase'[e] = "output" /\ e \in suppressed
    BY <1>7 DEF Delayed, NextAttempt, AfterLoop
  <2> QED
    BY <2>1, <2>2
<1>8. CASE OutputMiddleware(s, e)
  BY <1>8 DEF OutputMiddleware, vars, brokerVars
<1>9. ASSUME NEW f \in Events, Emit(s, e, f) PROVE Stage(e)'
  <2>1. /\ phase[e] = "emitting" /\ f \in outputs[e]
        /\ UNCHANGED <<error, executions, suppressed, failed>>
        /\ e \notin failed
    BY <1>9 DEF Emit
  <2>2. f \in OutputsOf(e) \ emitted /\ OutputsOf(e) \subseteq outputs[e] \cup emitted
    BY <2>1
  <2>3. CASE f \in Unaddressed \ Domained
    BY <1>9, <2>1, <2>2, <2>3 DEF Emit
  <2>4. CASE ~(f \in Unaddressed \ Domained)
    <3>1. phase' = phase /\ outputs'[e] = outputs[e] \ {f} /\ emitted' = emitted \cup {f}
      BY <1>9, <2>4 DEF Emit
    <3>2. e \notin settled'
      <4>1. f # e
        <5>1. f \in Active => f \in published
          BY HeldActive DEF HandlingInv, BrokerInv, Accounted
        <5>2. f \notin published
          BY <1>9, <2>1, OutputIsNew
        <5> QED
          BY <5>1, <5>2, <1>1, HeldActive DEF HandlingInv
      <4> QED
        BY <1>9, <2>4, <4>1 DEF Emit, Route
    <3> QED
      BY <2>1, <2>2, <3>1, <3>2
  <2> QED
    BY <2>3, <2>4
<1>10. CASE Finish(s, e)
  BY <1>10 DEF Finish, SettleTask
<1> QED
  BY <1>3, <1>4, <1>5, <1>6, <1>7, <1>8, <1>9, <1>10 DEF Handle

\* What has not been published has not been handled.
LEMMA NewIsUntouched ==
  ASSUME HandlingInv, NEW e \in Events \ published PROVE phase[e] = "input"
<1>1. e \notin settled /\ \A s \in Subs : e \notin running[s]
  BY HeldActive DEF HandlingInv, BrokerInv, Accounted
<1> QED
  BY <1>1 DEF HandlingInv, Untouched, HandlerSubs

\* A step in the handling of an event keeps the invariant.
LEMMA HandleKeeps ==
  ASSUME HandlingInv, NEW s \in Subs, NEW e \in Events, Handle(s, e)
  PROVE  PublishedOnce' /\ Untouched' /\ Stages'
<1> DEFINE Local == UNCHANGED <<vars, failed, emitted>>
<1>1. Local \/ Finish(s, e) \/ \E f \in Events : Emit(s, e, f)
  BY DEF Handle, InputMiddleware, Execute, ExecuteReturns, ExecuteFails, Delayed,
         OutputMiddleware
<1>2. e \in running[s] /\ s \in HandlerSubs /\ UNCHANGED waiter
  BY DEF Handle, InputMiddleware, Execute, ExecuteReturns, ExecuteFails, Delayed,
         OutputMiddleware, Emit, Finish, Handling, vars
<1>3. ASSUME NEW d \in Events \ {e}
      PROVE  /\ UNCHANGED <<phase[d], error[d], outputs[d], executions[d]>>
             /\ d \in suppressed => d \in suppressed'
             /\ d \in failed' <=> d \in failed
  <2>1. HandlingTyped
    BY DEF HandlingInv, FactoryTypeOK, HandlingTyped
  <2> QED
    BY <2>1 DEF Handle, InputMiddleware, Execute, ExecuteReturns, ExecuteFails, Delayed,
                OutputMiddleware, Emit, Finish, Goto, NextAttempt, AfterLoop, HandlingTyped
<1>4. TypeOK
  BY DEF HandlingInv, FactoryTypeOK
<1>5. CASE Local
  <2>1. PublishedOnce'
    BY <1>5 DEF HandlingInv, PublishedOnce, vars, brokerVars
  <2>2. Untouched'
    <3>1. settled' = settled /\ running' = running
      BY <1>5 DEF vars, brokerVars
    <3> QED
      BY <3>1, <1>2, <1>3, UntouchedStep DEF HandlingInv
  <2>3. ASSUME NEW d \in Events \ {e} PROVE Stage(d)'
    BY <1>3, <1>5, StageElsewhere DEF HandlingInv, Stages, vars, brokerVars
  <2> QED
    BY <2>1, <2>2, <2>3, StageStep DEF Stages
<1>6. CASE Finish(s, e)
  <2>1. PublishedOnce'
    BY <1>6, <1>2 DEF Finish, SettleTask, HandlingInv, PublishedOnce
  <2>2. Untouched'
    <3>1. settled' = settled \cup {e}
      BY <1>6 DEF Finish, SettleTask
    <3>2. \A t \in HandlerSubs : running[t] \ {e} \subseteq running'[t]
      BY <1>6, <1>4, SettleHeld DEF Finish, HandlerSubs
    <3> QED
      BY <3>1, <3>2, <1>3, UntouchedStep DEF HandlingInv
  <2>3. ASSUME NEW d \in Events \ {e} PROVE Stage(d)'
    <3>1. emitted' = emitted /\ settled' = settled \cup {e}
      BY <1>6 DEF Finish, SettleTask
    <3> QED
      BY <3>1, <1>3, StageElsewhere DEF HandlingInv, Stages
  <2> QED
    BY <2>1, <2>2, <2>3, StageStep DEF Stages
<1>7. ASSUME NEW f \in Events, Emit(s, e, f) PROVE PublishedOnce' /\ Untouched' /\ Stages'
  <2>1. f \in Events \ (published \cup emitted) /\ Cause[f] = e /\ Cause[f] # None
    BY <1>7, OutputIsNew DEF Emit
  <2>2. \/ Route(f) /\ emitted' = emitted \cup {f}
        \/ /\ UNCHANGED <<queue, running, inFlightMap, published, settled, discarded>>
           /\ emitted' \in {emitted, emitted \cup {f}}
    BY <1>7 DEF Emit
  <2>3. /\ \A t \in HandlerSubs : running[t] \subseteq running'[t]
        /\ settled' \in {settled, settled \cup {f}}
        /\ \/ published' = published \cup {f} /\ emitted' = emitted \cup {f}
           \/ published' = published /\ emitted \subseteq emitted'
    <3>1. CASE Route(f)
      BY <3>1, <2>2, <1>4, RouteHeld DEF HandlerSubs, Route
    <3> QED
      BY <3>1, <2>2
  <2>4. PublishedOnce'
    BY <2>1, <2>2, <2>3, <1>2 DEF HandlingInv, PublishedOnce
  <2>5. Untouched'
    BY <2>3, <1>2, <1>3, UntouchedStep DEF HandlingInv
  <2>6. ASSUME NEW d \in Events \ {e} PROVE Stage(d)'
    <3>1. OutputsOf(d) \cap emitted' = OutputsOf(d) \cap emitted
      BY <2>1, <2>2 DEF OutputsOf
    <3>2. d \in settled' => d \in settled \/ phase[d] = "input"
      BY <2>1, <2>3, NewIsUntouched
    <3> QED
      BY <3>1, <3>2, <1>3, StageElsewhere DEF HandlingInv, Stages
  <2> QED
    BY <2>4, <2>5, <2>6, <1>7, StageStep DEF Stages
<1> QED
  BY <1>1, <1>5, <1>6, <1>7

\* So does a step of a call of resolve.
LEMMA ResolveKeeps ==
  ASSUME HandlingInv, NEW r \in Callers, Resolve(r) \/ Await(r)
  PROVE  PublishedOnce' /\ Untouched' /\ Stages'
<1>1. UNCHANGED handlingVars
  BY DEF Resolve, Await, Reply, PollResolve, EndResolve
<1>2. TypeOK
  BY DEF HandlingInv, FactoryTypeOK
<1>3. ASSUME settled \subseteq settled',
             \A d \in settled' \ settled : d \in Events /\ phase[d] = "input"
      PROVE  Stages'
  BY <1>1, <1>3, StageElsewhere DEF HandlingInv, Stages, handlingVars
<1>4. ASSUME settled \subseteq settled',
             \A d \in Events \ settled', s \in HandlerSubs : d \in running[s] => d \in running'[s]
      PROVE  Untouched'
  BY <1>1, <1>4 DEF HandlingInv, Untouched, handlingVars
<1>5. CASE UNCHANGED <<settled, running>> /\ published' = published
  <2>1. \A q \in Callers : waiter[q] # "idle" => waiter'[q] # "idle"
    BY <1>2 DEF Resolve, Await, Reply, PollResolve, Poll, TimeOut, EndResolve, Unsubscribe, vars,
                TypeOK
  <2> QED
    BY <2>1, <1>1, <1>3, <1>4, <1>5 DEF HandlingInv, PublishedOnce, handlingVars
<1>6. CASE Resolve(r) /\ Route(Request[r])
  <2>1. Request[r] \in Events \ published /\ phase[Request[r]] = "input"
    BY <1>6, RequestIsNew, NewIsUntouched DEF Resolve
  <2>2. /\ \A s \in HandlerSubs : running[s] \subseteq running'[s]
        /\ settled' \in {settled, settled \cup {Request[r]}}
    BY <1>6, <1>2, <2>1, RouteHeld DEF HandlerSubs, Route
  <2>3. PublishedOnce'
    <3>1. published' = published \cup {Request[r]}
      BY <1>6 DEF Route
    <3>2. \A q \in Callers : waiter[q] # "idle" \/ q = r => waiter'[q] # "idle"
      BY <1>6, <1>2, <3>1, <2>1 DEF Resolve, TypeOK, vars, brokerVars
    <3> QED
      BY <3>1, <3>2, <1>1 DEF HandlingInv, PublishedOnce, handlingVars
  <2> QED
    BY <2>1, <2>2, <2>3, <1>3, <1>4
<1>7. ASSUME NEW e \in Events, Reply(r, e) PROVE PublishedOnce' /\ Untouched' /\ Stages'
  <2>1. settled' = settled \cup {e} /\ UNCHANGED <<published, waiter>>
    BY <1>7 DEF Reply, SettleTask
  <2>2. phase[e] = "input"
    <3>1. ReplySub[r] \in Subs \ HandlerSubs /\ e \in running[ReplySub[r]]
      BY <1>7, CallFacts DEF Reply, SettleTask
    <3>2. \A s \in HandlerSubs : e \notin running[s]
      BY <3>1 DEF HandlingInv, BrokerInv, Placement, HandlerSubs
    <3>3. e \notin settled
      BY <3>1, HeldActive DEF HandlingInv, SettledIsGone
    <3> QED
      BY <3>2, <3>3 DEF HandlingInv, Untouched
  <2>3. \A s \in HandlerSubs : running[s] \ {e} \subseteq running'[s]
    BY <1>7, <1>2, SettleHeld, CallFacts DEF Reply, HandlerSubs
  <2>4. PublishedOnce'
    BY <2>1, <1>1 DEF HandlingInv, PublishedOnce, handlingVars
  <2> QED
    BY <2>1, <2>2, <2>3, <2>4, <1>3, <1>4
<1>8. CASE Resolve(r)
  BY <1>5, <1>6, <1>8 DEF Resolve, vars, brokerVars
<1>9. CASE PollResolve(r) \/ EndResolve(r)
  BY <1>5, <1>9 DEF PollResolve, Poll, TimeOut, EndResolve, Unsubscribe, brokerVars
<1> QED
  BY <1>7, <1>8, <1>9 DEF Await

\* Every step keeps the invariant.
LEMMA HandlingStep == ASSUME HandlingInv, [FactoryNext]_factoryVars PROVE HandlingInv'
<1>1. FactoryTypeOK'
  BY FactoryTypeStep DEF HandlingInv
<1>2. Below'
  BY BelowStep
<1>3. PublishedOnce' /\ Untouched' /\ Stages'
  <2>1. CASE UNCHANGED factoryVars
    <3>1. \A e \in Events : Stage(e) => Stage(e)'
      BY <2>1, StageElsewhere DEF factoryVars, vars, brokerVars, handlingVars
    <3> QED
      BY <2>1, <3>1 DEF HandlingInv, PublishedOnce, Untouched, Stages,
                   factoryVars, vars, brokerVars, handlingVars
  <2> QED
    BY <2>1, HandleKeeps, ResolveKeeps DEF FactoryNext
<1> QED
  BY <1>1, <1>2, <1>3 DEF HandlingInv, BrokerInv, Below, FactoryTypeOK

\* The factory's broker starts with nothing published.
LEMMA HandlingInit == FactoryInit => HandlingInv
<1> SUFFICES ASSUME FactoryInit PROVE HandlingInv
  OBVIOUS
<1>1. \A s \in Subs : Waiting(s) = {}
  BY DEF FactoryInit, Waiting
<1>2. Active = {}
  BY <1>1 DEF FactoryInit, Active
<1>3. FactoryTypeOK /\ TypeOK
  BY FactoryTypeInit DEF FactoryTypeOK
<1>4. BrokerInv
  BY <1>1, <1>2, <1>3, FS_EmptySet
     DEF FactoryInit, BrokerInv, Accounted, Placement, CountsAreExact
<1>5. Stages
  BY DEF FactoryInit, Stages, Stage, NothingEmitted
<1> QED
  BY <1>2, <1>3, <1>4, <1>5
     DEF FactoryInit, HandlingInv, SettledIsGone, PublishedOnce, Untouched

\* The invariant of the handling of events holds.
THEOREM HandlingInvariant == FactorySpec => []HandlingInv
<1>1. HandlingInv /\ [FactoryNext]_factoryVars => HandlingInv'
  BY HandlingStep
<1> QED
  BY HandlingInit, <1>1, PTL DEF FactorySpec

\* The counts that waitForIdle relies on stay exact in the broker the factory
\* returns, whatever its handlers emit and its calls of resolve subscribe,
\* unsubscribe and discard.
THEOREM FactoryCountsExactly == FactorySpec => []CountsAreExact
<1>1. HandlingInv => CountsAreExact
  BY DEF HandlingInv, BrokerInv
<1> QED
  BY <1>1, HandlingInvariant, PTL

\* The outputs of an event are emitted all or not at all, for any number of
\* retries and any answers of onError (factory.ts:91-169); only an output that
\* publish refuses can stop the others half way.
THEOREM OutputsAllOrNothing == FactorySpec => []AllOrNothing
<1>1. HandlingInv => AllOrNothing
  <2> SUFFICES ASSUME HandlingInv, NEW e \in Events, e \in settled, executions[e] > 0
               PROVE  \/ OutputsOf(e) \subseteq emitted /\ e \notin failed
                      \/ OutputsOf(e) \cap emitted = {} /\ e \in failed \cup suppressed
                      \/ OutputsOf(e) \cap Unaddressed # {} /\ e \in failed
    BY DEF AllOrNothing, Handled
  <2>1. Stage(e)
    BY DEF HandlingInv, Stages
  <2>2. phase[e] # "input"
    BY <2>1 DEF Stage
  <2> QED
    BY <2>1, <2>2 DEF Stage, NothingEmitted
<1> QED
  BY <1>1, HandlingInvariant, PTL

-----------------------------------------------------------------------------
(* Replies *)

\* What a step may publish: nothing, an output of an event that a handler is
\* running, or the request of a call that starts.
NothingPublished == published' = published /\ \A r \in Callers : AtCall(r)' \subseteq AtCall(r)

Publication(f) ==
  /\ f \in Events \ published
  /\ published' = published \cup {f}
  /\ \A r \in Callers :
       AtCall(r)' = IF subscriptions[To[f]] = ReplySub[r] THEN AtCall(r) \cup {f} ELSE AtCall(r)

\* Publishing adds the event to the calls' subscriptions where it belongs.
LEMMA RoutePublishes ==
  ASSUME TypeOK, NEW f \in Events \ published, Route(f) PROVE Publication(f)
<1>1. ASSUME NEW r \in Callers
      PROVE  AtCall(r)' = IF subscriptions[To[f]] = ReplySub[r]
                          THEN AtCall(r) \cup {f} ELSE AtCall(r)
  <2>1. ReplySub[r] \in Subs
    BY CallFacts
  <2> QED
    BY <2>1, RouteHeld DEF AtCall
<1> QED
  BY <1>1 DEF Publication, Route

\* What has been published is no event of a call that has returned, unless it
\* has been settled.
LEMMA LiveRoot ==
  ASSUME HandlingInv, ReplyInv, NEW e \in Active, NEW r \in Callers, Root[e] = Request[r]
  PROVE  /\ waiter[r] \in {"polling", "timedOut"}
         /\ waiter[r] = "polling" => subscriptions[Source(r)] = ReplySub[r]
<1>1. e \in published /\ e \notin settled
  BY DEF HandlingInv, BrokerInv, Accounted, SettledIsGone
<1>2. waiter[r] # "idle"
  <2>1. PICK q \in Callers : Root[e] = Request[q] /\ waiter[q] # "idle"
    BY <1>1 DEF ReplyInv, RootsKnown
  <2>2. q = r
    BY <2>1, CallFacts
  <2> QED
    BY <2>1, <2>2
<1>3. waiter[r] # "returned"
  BY <1>1 DEF ReplyInv, ReturnedDone
<1>4. waiter[r] \in {"idle", "polling", "returned", "timedOut"}
  BY DEF HandlingInv, BrokerInv, TypeOK
<1> QED
  BY <1>2, <1>3, <1>4 DEF ReplyInv, Holders

\* A step in the handling of an event publishes nothing, or an output with the
\* same root.
LEMMA HandlePublishes ==
  ASSUME HandlingInv, NEW s \in Subs, NEW e \in Events, Handle(s, e)
  PROVE  /\ UNCHANGED <<subscriptions, waiter, resolveVars>>
         /\ settled \subseteq settled'
         /\ \/ published' = published /\ \A r \in Callers : AtCall(r)' = AtCall(r)
            \/ \E f \in Events : Publication(f) /\ e \in Active /\ Root[f] = Root[e]
<1>1. TypeOK
  BY DEF HandlingInv, FactoryTypeOK
<1>2. CASE Finish(s, e)
  <2>1. s \in HandlerSubs
    BY <1>2 DEF Finish, Handling
  <2>2. \A r \in Callers : AtCall(r)' = AtCall(r)
    BY <1>1, <1>2, <2>1, SettleHeld, CallFacts DEF Finish, AtCall
  <2> QED
    BY <1>2, <2>2 DEF Finish, SettleTask, resolveVars
<1>3. ASSUME NEW f \in Events, Emit(s, e, f), Route(f)
      PROVE  /\ UNCHANGED <<subscriptions, waiter, resolveVars>>
             /\ settled \subseteq settled'
             /\ Publication(f) /\ e \in Active /\ Root[f] = Root[e]
  <2>1. f \in Events \ published /\ Cause[f] = e /\ Cause[f] # None
    BY <1>3, OutputIsNew DEF Emit
  <2>2. Root[f] = Root[e]
    BY <2>1, RootUnfolds
  <2>3. e \in Active
    BY <1>3, HeldActive DEF Emit, Handling, HandlingInv
  <2> QED
    BY <1>1, <1>3, <2>1, <2>2, <2>3, RoutePublishes DEF Emit, Route
<1>4. CASE UNCHANGED <<queue, running, published, settled>>
  BY <1>4 DEF Handle, InputMiddleware, Execute, ExecuteReturns, ExecuteFails, Delayed,
              OutputMiddleware, Emit, Finish, SettleTask, vars, brokerVars, resolveVars,
              AtCall, Held, Waiting
<1> QED
  BY <1>2, <1>3, <1>4 DEF Handle, InputMiddleware, Execute, ExecuteReturns, ExecuteFails,
                          Delayed, OutputMiddleware, Emit, vars, brokerVars

\* Once no work is in flight, all that has been published is settled.
LEMMA NothingLeft == (BrokerInv /\ ~HasInflightWork => published \subseteq settled)'
BY IdleSettled, PTL

\* A step in the handling of an event keeps the invariant.
LEMMA HandleKeepsReplies ==
  ASSUME HandlingInv, ReplyInv, NEW s \in Subs, NEW e \in Events, Handle(s, e)
  PROVE  ReplyInv'
<1>1. UNCHANGED <<subscriptions, waiter, resolveVars>> /\ settled \subseteq settled'
  BY HandlePublishes
<1>2. CASE published' = published /\ \A r \in Callers : AtCall(r)' = AtCall(r)
  BY <1>1, <1>2 DEF ReplyInv, Holders, RootsKnown, ReturnedDone, Tracked, resolveVars
<1>3. ASSUME NEW f \in Events, Publication(f), e \in Active, Root[f] = Root[e] PROVE ReplyInv'
  <2>1. Holders'
    BY <1>1 DEF ReplyInv, Holders, resolveVars
  <2>2. RootsKnown'
    <3>1. e \in published
      BY <1>3, HeldActive DEF HandlingInv, BrokerInv, Accounted
    <3> QED
      BY <3>1, <1>1, <1>3 DEF ReplyInv, RootsKnown, Publication
  <2>3. ReturnedDone'
    <3>1. ASSUME NEW r \in Callers, Root[f] = Request[r] PROVE waiter[r] # "returned"
      BY <3>1, <1>3, LiveRoot
    <3> QED
      BY <3>1, <1>1, <1>3 DEF ReplyInv, ReturnedDone, Publication
  <2>4. Tracked'
    <3> SUFFICES ASSUME NEW r \in Callers, waiter[r] # "timedOut", resolvedEvent[r] = None,
                        NEW d \in published', Root[d] = Request[r], To[d] = Source(r)
                 PROVE  d \in AtCall(r)'
      BY <1>1 DEF Tracked, resolveVars
    <3>1. CASE d \in published
      BY <3>1, <1>3 DEF ReplyInv, Tracked, Publication
    <3>2. CASE d = f
      <4>1. subscriptions[To[f]] = ReplySub[r]
        BY <3>2, <1>3, LiveRoot
      <4> QED
        BY <4>1, <3>2, <1>3 DEF Publication
    <3> QED
      BY <3>1, <3>2, <1>3 DEF Publication
  <2> QED
    BY <2>1, <2>2, <2>3, <2>4 DEF ReplyInv
<1> QED
  BY <1>2, <1>3, HandlePublishes

\* A call that starts is the first of its source, and its request the first
\* event of its root.
LEMMA ResolveKeepsReplies ==
  ASSUME HandlingInv, HandlingInv', ReplyInv, NEW r \in Callers, Resolve(r) PROVE ReplyInv'
<1>1. CASE subscriptions[Source(r)] # None
  <2>1. UNCHANGED <<vars, resolvedEvent, ended>>
    BY <1>1 DEF Resolve
  <2> QED
    BY <2>1 DEF ReplyInv, Holders, RootsKnown, ReturnedDone, Tracked, AtCall, Held, Waiting,
                vars, brokerVars
<1>2. CASE subscriptions[Source(r)] = None
  <2> DEFINE f == Request[r]
  <2>1. /\ subscriptions' = [subscriptions EXCEPT ![Source(r)] = ReplySub[r]]
        /\ Route(f)
        /\ waiter' = [waiter EXCEPT ![r] = IF HasInflightWork' THEN "polling" ELSE "returned"]
        /\ waiter[r] = "idle"
        /\ UNCHANGED <<resolvedEvent, ended>>
    BY <1>2 DEF Resolve
  <2>2. TypeOK /\ waiter'[r] \in {"polling", "returned"}
        /\ \A q \in Callers \ {r} : waiter'[q] = waiter[q]
    BY <2>1 DEF HandlingInv, FactoryTypeOK, TypeOK
  <2>3. Publication(f) /\ f \in Events
    BY <2>1, <2>2, RequestIsNew, RoutePublishes
  <2>4. /\ Root[f] = Request[r] /\ To[f] # Source(r)
        /\ Source(r) \in Topics /\ ReplySub[r] \in Subs
        /\ \A q \in Callers \ {r} : ReplySub[q] # ReplySub[r] /\ Request[q] # Request[r]
    BY CallFacts
  <2>5. \A e \in published : Root[e] # Request[r]
    BY <2>1, <2>4 DEF ReplyInv, RootsKnown
  <2>6. Holders'
    <3>1. ASSUME NEW q \in Callers \ ended, q # r, waiter[q] # "idle"
          PROVE  subscriptions'[Source(q)] = ReplySub[q]
      <4>1. subscriptions[Source(q)] = ReplySub[q] /\ ReplySub[q] \in Subs
        BY <3>1, CallFacts DEF ReplyInv, Holders
      <4>2. Source(q) # Source(r)
        BY <4>1, <1>2, SubsAssumption
      <4> QED
        BY <4>1, <4>2, <2>1, <2>2 DEF TypeOK
    <3>2. subscriptions'[Source(r)] = ReplySub[r]
      BY <2>1, <2>2, <2>4 DEF TypeOK
    <3>3. ASSUME NEW t \in Topics, subscriptions'[t] # None
          PROVE  TopicOf[subscriptions'[t]] = t
      BY <3>3, <2>1, <2>2 DEF ReplyInv, Holders, TypeOK, Source
    <3>4. \A q \in ended : waiter'[q] \in {"returned", "timedOut"}
      <4>1. r \notin ended /\ ended \subseteq Callers
        BY <2>1 DEF ReplyInv, Holders, HandlingInv, FactoryTypeOK
      <4> QED
        BY <4>1, <2>2 DEF ReplyInv, Holders
    <3> QED
      BY <3>1, <3>2, <3>3, <3>4, <2>1, <2>2 DEF Holders
  <2>7. RootsKnown'
    BY <2>1, <2>2, <2>3, <2>4 DEF ReplyInv, RootsKnown, Publication
  <2>8. ReturnedDone'
    <3> SUFFICES ASSUME NEW q \in Callers, waiter'[q] = "returned",
                        NEW e \in published', Root[e] = Request[q]
                 PROVE  e \in settled'
      BY DEF ReturnedDone
    <3>1. CASE q = r
      <4>1. ~HasInflightWork'
        BY <2>1, <2>2, <3>1 DEF TypeOK
      <4>2. BrokerInv'
        BY DEF HandlingInv
      <4> QED
        BY <4>1, <4>2, NothingLeft
    <3>2. CASE q # r
      <4>1. e \in published /\ waiter[q] = "returned"
        BY <2>2, <2>3, <2>4, <3>2 DEF Publication
      <4>2. settled \subseteq settled'
        BY <2>1 DEF Route
      <4> QED
        BY <4>1, <4>2 DEF ReplyInv, ReturnedDone
    <3> QED
      BY <3>1, <3>2
  <2>9. Tracked'
    <3> SUFFICES ASSUME NEW q \in Callers, waiter'[q] # "timedOut", resolvedEvent[q] = None,
                        NEW e \in published', Root[e] = Request[q], To[e] = Source(q)
                 PROVE  e \in AtCall(q)'
      BY <2>1 DEF Tracked
    <3>1. q # r
      BY <2>3, <2>4, <2>5 DEF Publication
    <3>2. e \in published /\ waiter[q] # "timedOut"
      BY <3>1, <2>2, <2>3, <2>4 DEF Publication
    <3> QED
      BY <3>2, <2>3 DEF ReplyInv, Tracked, Publication
  <2> QED
    BY <2>6, <2>7, <2>8, <2>9 DEF ReplyInv
<1> QED
  BY <1>1, <1>2

\* The other steps of a call publish nothing.
LEMMA AwaitKeepsReplies ==
  ASSUME HandlingInv, HandlingInv', ReplyInv, NEW r \in Callers, Await(r) PROVE ReplyInv'
<1>1. TypeOK /\ published' = published
  BY DEF HandlingInv, FactoryTypeOK, Await, Reply, SettleTask, PollResolve, Poll, TimeOut,
         EndResolve, Unsubscribe, brokerVars
<1>2. ASSUME NEW e \in Events, Reply(r, e) PROVE ReplyInv'
  <2>1. /\ SettleTask(ReplySub[r], e)
        /\ resolvedEvent' = [resolvedEvent EXCEPT ![r] = e]
        /\ UNCHANGED <<subscriptions, waiter, ended>>
        /\ settled \subseteq settled'
    BY <1>2 DEF Reply, SettleTask
  <2>2. \A q \in Callers : IF q = r THEN resolvedEvent'[q] # None
                           ELSE resolvedEvent'[q] = resolvedEvent[q]
    BY <2>1, EventsAssumption DEF HandlingInv, FactoryTypeOK
  <2>3. \A q \in Callers \ {r} : AtCall(q)' = AtCall(q)
    BY <2>1, <1>1, SettleHeld, CallFacts DEF AtCall
  <2> QED
    BY <2>1, <2>2, <2>3, <1>1 DEF ReplyInv, Holders, RootsKnown, ReturnedDone, Tracked
<1>3. CASE PollResolve(r)
  <2>1. UNCHANGED <<brokerVars, resolvedEvent, ended>> /\ \A q \in Callers : AtCall(q)' = AtCall(q)
    BY <1>3 DEF PollResolve, Poll, TimeOut, resolveVars, brokerVars, AtCall, Held, Waiting
  <2>2. /\ waiter[r] = "polling" /\ waiter'[r] \in {"returned", "timedOut"}
        /\ \A q \in Callers \ {r} : waiter'[q] = waiter[q]
        /\ waiter'[r] = "returned" => ~HasInflightWork
    BY <1>1, <1>3 DEF PollResolve, Poll, TimeOut, TypeOK
  <2>3. ReturnedDone'
    <3>1. waiter'[r] = "returned" => published \subseteq settled
      BY <2>2, IdleSettled DEF HandlingInv
    <3> QED
      BY <3>1, <2>1, <2>2 DEF ReplyInv, ReturnedDone, brokerVars
  <2>4. r \notin ended /\ ended \subseteq Callers
    BY <2>2 DEF ReplyInv, Holders, HandlingInv, FactoryTypeOK
  <2> QED
    BY <2>1, <2>2, <2>3, <2>4 DEF ReplyInv, Holders, RootsKnown, Tracked, brokerVars
<1>4. CASE EndResolve(r)
  <2>1. /\ Unsubscribe(ReplySub[r])
        /\ subscriptions' = [subscriptions EXCEPT ![Source(r)] = None]
        /\ ended' = ended \cup {r}
        /\ r \notin ended
        /\ UNCHANGED <<resolvedEvent, waiter, settled>>
        /\ waiter[r] \in {"returned", "timedOut"}
    BY <1>4 DEF EndResolve, Unsubscribe, Source
  <2>2. \A q \in Callers \ {r} : AtCall(q)' = AtCall(q)
    BY <2>1, <1>1, UnsubscribeHeld, CallFacts DEF AtCall
  <2>3. Holders'
    <3>1. ASSUME NEW q \in Callers \ ended, q # r, waiter[q] # "idle"
          PROVE  subscriptions'[Source(q)] = ReplySub[q]
      <4>1. subscriptions[Source(q)] = ReplySub[q] /\ subscriptions[Source(r)] = ReplySub[r]
        BY <3>1, <2>1 DEF ReplyInv, Holders
      <4>2. Source(q) # Source(r) /\ Source(q) \in Topics
        BY <4>1, <3>1, CallFacts
      <4> QED
        BY <4>1, <4>2, <2>1, <1>1 DEF TypeOK
    <3>2. \A t \in Topics : subscriptions'[t] # None => TopicOf[subscriptions'[t]] = t
      BY <2>1, <1>1 DEF ReplyInv, Holders, TypeOK
    <3> QED
      BY <3>1, <3>2, <2>1 DEF ReplyInv, Holders
  <2>4. Tracked'
    <3>1. ASSUME NEW e \in published, waiter[r] = "returned", Root[e] = Request[r],
                 e \in AtCall(r)
          PROVE  FALSE
      <4>1. e \in Active
        BY <3>1, HeldActive, CallFacts DEF AtCall, HandlingInv
      <4> QED
        BY <3>1, <4>1, LiveRoot
    <3> QED
      BY <3>1, <2>1, <2>2, <1>1 DEF ReplyInv, Tracked
  <2> QED
    BY <2>1, <2>3, <2>4, <1>1 DEF ReplyInv, RootsKnown, ReturnedDone
<1> QED
  BY <1>2, <1>3, <1>4 DEF Await

\* Every step keeps the invariant.
LEMMA ReplyStep ==
  ASSUME HandlingInv, HandlingInv', ReplyInv, [FactoryNext]_factoryVars PROVE ReplyInv'
<1>1. CASE UNCHANGED factoryVars
  BY <1>1 DEF ReplyInv, Holders, RootsKnown, ReturnedDone, Tracked, AtCall, Held, Waiting,
              factoryVars, vars, brokerVars, resolveVars
<1> QED
  BY <1>1, HandleKeepsReplies, ResolveKeepsReplies, AwaitKeepsReplies DEF FactoryNext

\* No call has been made of a new broker.
LEMMA ReplyInit == FactoryInit => ReplyInv
BY DEF FactoryInit, ReplyInv, Holders, RootsKnown, ReturnedDone, Tracked

\* The invariant of calls and replies holds.
THEOREM ReplyInvariant == FactorySpec => []ReplyInv
<1>1. HandlingInv /\ HandlingInv' /\ ReplyInv /\ [FactoryNext]_factoryVars => ReplyInv'
  BY ReplyStep
<1> QED
  BY ReplyInit, <1>1, HandlingInvariant, PTL DEF FactorySpec

\* resolve never returns null although a reply to its request has been
\* published: waitForIdle does not return before the reply has been handled, for
\* any number of calls, handlers and events (factory.ts:195-200).
THEOREM RepliesAreNotMissed == FactorySpec => []NoReplyMissed
<1>1. HandlingInv /\ ReplyInv => NoReplyMissed
  <2> SUFFICES ASSUME HandlingInv, ReplyInv, NEW r \in Callers, waiter[r] = "returned",
                      resolvedEvent[r] = None,
                      NEW e \in published, To[e] = Source(r), Root[e] = Request[r]
               PROVE  FALSE
    BY DEF NoReplyMissed
  <2>1. e \in AtCall(r)
    BY DEF ReplyInv, Tracked
  <2>2. e \in Active
    BY <2>1, HeldActive, CallFacts DEF AtCall, HandlingInv
  <2> QED
    BY <2>2, LiveRoot
<1> QED
  BY <1>1, HandlingInvariant, ReplyInvariant, PTL

-----------------------------------------------------------------------------
(* Whose reply a call gets *)

\* What a request leads to is addressed to no source of a call but its own:
\* handlers reply to the source of the event they handle.
RepliesGoBack ==
  \A e \in Events, q, r \in Callers :
    To[e] = Source(r) /\ Root[e] = Request[q] => Source(q) = Source(r)

\* A request is no reply.
LEMMA RequestIsNoReply ==
  ASSUME RepliesGoBack, NEW q \in Callers, NEW r \in Callers PROVE To[Request[q]] # Source(r)
<1>1. Request[q] \in Events /\ Root[Request[q]] = Request[q] /\ To[Request[q]] # Source(q)
  BY CallFacts
<1>2. To[Request[q]] = Source(r) => Source(q) = Source(r)
  BY <1>1 DEF RepliesGoBack
<1> QED
  BY <1>1, <1>2

\* A reply published while another call holds the source comes too late.
LEMMA PublishedIsOwned ==
  ASSUME HandlingInv, ReplyInv, RepliesGoBack,
         NEW e \in Active, NEW f \in Events, Root[f] = Root[e],
         NEW r \in Callers, subscriptions[To[f]] = ReplySub[r]
  PROVE  OwnOrLate(r, f)
<1>1. To[f] = Source(r)
  <2>1. To[f] \in Topics /\ ReplySub[r] # None
    BY EventsAssumption, SubsAssumption, CallFacts
  <2> QED
    BY <2>1 DEF ReplyInv, Holders, Source
<1>2. e \in published
  BY DEF HandlingInv, BrokerInv, Accounted
<1>3. PICK q \in Callers : Root[f] = Request[q]
  BY <1>2 DEF ReplyInv, RootsKnown
<1>4. Source(q) = Source(r)
  BY <1>1, <1>3 DEF RepliesGoBack
<1>5. CASE q = r
  BY <1>3, <1>5 DEF OwnOrLate
<1>6. CASE q # r
  <2>1. ReplySub[q] # ReplySub[r]
    BY <1>6, CallFacts
  <2>2. waiter[q] = "timedOut"
    BY <2>1, <1>1, <1>3, <1>4, LiveRoot
  <2> QED
    BY <2>2, <1>3, <1>4 DEF OwnOrLate
<1> QED
  BY <1>5, <1>6

\* A step keeps the replies with the calls they belong to.
LEMMA OwnedStep ==
  ASSUME HandlingInv, ReplyInv, RepliesGoBack, RepliesOwned, [FactoryNext]_factoryVars
  PROVE  RepliesOwned'
<1>0. TypeOK
  BY DEF HandlingInv, FactoryTypeOK
<1>1. ASSUME NEW r \in Callers, NEW e, OwnOrLate(r, e) PROVE OwnOrLate(r, e)'
  <2>1. \A q \in Callers : waiter[q] = "timedOut" => waiter'[q] = "timedOut"
    <3>1. UNCHANGED waiter \/ \E q \in Callers : Resolve(q) \/ PollResolve(q)
      BY DEF FactoryNext, Handle, InputMiddleware, Execute, ExecuteReturns, ExecuteFails,
             Delayed, OutputMiddleware, Emit, Finish, Await, Reply, EndResolve, Unsubscribe,
             factoryVars, vars
    <3>2. ASSUME NEW q \in Callers, Resolve(q) \/ PollResolve(q)
          PROVE  \A p \in Callers : waiter[p] = "timedOut" => waiter'[p] = "timedOut"
      BY <1>0, <3>2 DEF Resolve, PollResolve, Poll, TimeOut, TypeOK, vars
    <3> QED
      BY <3>1, <3>2
  <2> QED
    BY <1>1, <2>1 DEF OwnOrLate
<1>2. ASSUME NothingPublished, UNCHANGED resolvedEvent PROVE RepliesOwned'
  BY <1>1, <1>2 DEF RepliesOwned, NothingPublished
<1>3. ASSUME NEW s \in Subs, NEW e \in Events, Handle(s, e) PROVE RepliesOwned'
  <2>1. UNCHANGED resolvedEvent
    BY <1>3, HandlePublishes DEF resolveVars
  <2>2. CASE published' = published /\ \A r \in Callers : AtCall(r)' = AtCall(r)
    BY <2>1, <2>2, <1>2 DEF NothingPublished
  <2>3. ASSUME NEW f \in Events, Publication(f), e \in Active, Root[f] = Root[e]
        PROVE  RepliesOwned'
    <3>1. ASSUME NEW r \in Callers, NEW d \in AtCall(r)' PROVE OwnOrLate(r, d)
      BY <2>3, <3>1, PublishedIsOwned DEF RepliesOwned, Publication
    <3> QED
      BY <3>1, <2>1, <1>1 DEF RepliesOwned
  <2> QED
    BY <1>3, <2>2, <2>3, HandlePublishes
<1>4. ASSUME NEW r \in Callers, Resolve(r) PROVE RepliesOwned'
  <2>1. UNCHANGED resolvedEvent
    BY <1>4 DEF Resolve
  <2>2. CASE UNCHANGED vars
    BY <2>1, <2>2, <1>2 DEF NothingPublished, AtCall, Held, Waiting, vars, brokerVars
  <2>3. CASE Route(Request[r])
    <3>1. waiter[r] = "idle"
      BY <1>4 DEF Resolve
    <3>2. Publication(Request[r])
      BY <1>0, <2>3, <3>1, RequestIsNew, RoutePublishes
    <3>3. ASSUME NEW q \in Callers PROVE subscriptions[To[Request[r]]] # ReplySub[q]
      <4>1. To[Request[r]] \in Topics /\ ReplySub[q] # None
        BY EventsAssumption, SubsAssumption, CallFacts
      <4>2. To[Request[r]] # TopicOf[ReplySub[q]]
        BY RequestIsNoReply DEF Source
      <4> QED
        BY <4>1, <4>2 DEF ReplyInv, Holders
    <3>4. \A q \in Callers : AtCall(q)' = AtCall(q)
      BY <3>2, <3>3 DEF Publication
    <3> QED
      BY <3>4, <2>1, <1>1 DEF RepliesOwned
  <2> QED
    BY <1>4, <2>2, <2>3 DEF Resolve
<1>5. ASSUME NEW r \in Callers, NEW e \in Events, Reply(r, e) PROVE RepliesOwned'
  <2>1. e \in AtCall(r) /\ \A q \in Callers : AtCall(q)' \subseteq AtCall(q)
    BY <1>0, <1>5, SettleHeld, CallFacts DEF Reply, SettleTask, AtCall, Held
  <2>2. \A q \in Callers : resolvedEvent'[q] = IF q = r THEN e ELSE resolvedEvent[q]
    BY <1>5 DEF Reply, HandlingInv, FactoryTypeOK
  <2> QED
    BY <2>1, <2>2, <1>1 DEF RepliesOwned
<1>6. ASSUME NEW r \in Callers, PollResolve(r) PROVE RepliesOwned'
  BY <1>6, <1>2 DEF PollResolve, Poll, TimeOut, NothingPublished, AtCall, Held, Waiting,
                    brokerVars, resolveVars
<1>7. ASSUME NEW r \in Callers, EndResolve(r) PROVE RepliesOwned'
  <2>1. \A q \in Callers : AtCall(q)' \subseteq AtCall(q)
    BY <1>0, <1>7, UnsubscribeHeld, CallFacts DEF EndResolve, AtCall
  <2> QED
    BY <2>1, <1>7, <1>2 DEF EndResolve, Unsubscribe, NothingPublished
<1>8. ASSUME UNCHANGED factoryVars PROVE RepliesOwned'
  BY <1>8, <1>2 DEF factoryVars, vars, brokerVars, resolveVars, NothingPublished, AtCall, Held,
                    Waiting
<1> QED
  BY <1>3, <1>4, <1>5, <1>6, <1>7, <1>8 DEF FactoryNext, Await

\* If replies go back to the source of their request, a call of resolve gets a
\* reply to another call's request only from a call of the same source that has
\* timed out (factory.ts:178-205).
THEOREM RepliesAreOwn ==
  ASSUME RepliesGoBack PROVE FactorySpec => []ForeignReplyOnlyAfterTimeOut
<1>1. FactoryInit => RepliesOwned
  <2> SUFFICES ASSUME FactoryInit, NEW r \in Callers
               PROVE  AtCall(r) = {} /\ resolvedEvent[r] = None
    BY DEF RepliesOwned
  <2> QED
    BY CallFacts DEF FactoryInit, AtCall, Held, Waiting
<1>2. HandlingInv /\ ReplyInv /\ RepliesOwned /\ [FactoryNext]_factoryVars => RepliesOwned'
  BY OwnedStep
<1>3. RepliesOwned => ForeignReplyOnlyAfterTimeOut
  BY DEF RepliesOwned, OwnOrLate, ForeignReplyOnlyAfterTimeOut
<1> QED
  BY <1>1, <1>2, <1>3, HandlingInvariant, ReplyInvariant, PTL DEF FactorySpec
=============================================================================
