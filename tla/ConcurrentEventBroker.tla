------------------------ MODULE ConcurrentEventBroker ------------------------
(***************************************************************************)
(* The in-process event broker (concurrent/src/ConcurrentEventBroker/      *)
(* index.ts): one handler and one p-queue per topic, fire-and-forget       *)
(* publishing, and idle detection by counting the work in flight.          *)
(*                                                                         *)
(* Data abstraction: an event is a model value with a destination and a    *)
(* cause, the event whose handler publishes it (None for an event that     *)
(* comes from outside).  An event is published at most once.  A            *)
(* subscription stands for one call of subscribe and the queue it creates. *)
(*                                                                         *)
(* p-queue (external): add starts the task at once if fewer than           *)
(* `concurrency` tasks run, and appends it to a FIFO queue otherwise; a    *)
(* task that settles hands its slot to the head of the queue; clear        *)
(* empties the queue and lets running tasks go on.                         *)
(***************************************************************************)
EXTENDS Naturals, FiniteSets, Sequences, Functions

CONSTANTS
  Topics,
  Events,
  To,              \* event -> topic it is addressed to
  Cause,           \* event -> event whose handler publishes it, or None
  Subs,            \* calls of subscribe
  TopicOf,         \* subscription -> topic
  Prefetch,        \* subscription -> concurrency of its queue
  Callers,         \* calls of waitForIdle
  Impatient,       \* the calls of waitForIdle with a timeout
  None

ASSUME EventsAssumption ==
  /\ IsFiniteSet(Events)
  /\ None \notin Events
  /\ To \in [Events -> Topics]
  /\ Cause \in [Events -> Events \cup {None}]
ASSUME SubsAssumption ==
  /\ None \notin Subs
  /\ TopicOf \in [Subs -> Topics]
  /\ Prefetch \in [Subs -> Nat \ {0}]
ASSUME CallersAssumption == Impatient \subseteq Callers

VARIABLES
  subscriptions,  \* topic -> current subscription, or None
  subscribed,     \* subscriptions that have been made
  queue,          \* subscription -> events waiting for a slot
  running,        \* subscription -> events being handled
  inFlightMap,    \* topic -> count of work in flight
  published,      \* events that have been published
  settled,        \* events handled (or failed), or reported as unroutable
  discarded,      \* events that were queued when their queue was cleared
  waiter          \* state of each waitForIdle call

brokerVars == <<subscriptions, subscribed, queue, running, inFlightMap, published, settled,
                discarded>>
vars == <<brokerVars, waiter>>

TypeOK ==
  /\ subscriptions \in [Topics -> Subs \cup {None}]
  /\ subscribed \subseteq Subs
  /\ queue \in [Subs -> Seq(Events)]
  /\ running \in [Subs -> SUBSET Events]
  /\ inFlightMap \in [Topics -> Nat]
  /\ published \subseteq Events
  /\ settled \subseteq Events
  /\ discarded \subseteq Events
  /\ waiter \in [Callers -> {"idle", "polling", "returned", "timedOut"}]

Init ==
  /\ subscriptions = [t \in Topics |-> None]
  /\ subscribed = {}
  /\ queue = [s \in Subs |-> <<>>]
  /\ running = [s \in Subs |-> {}]
  /\ inFlightMap = [t \in Topics |-> 0]
  /\ published = {}
  /\ settled = {}
  /\ discarded = {}
  /\ waiter = [c \in Callers |-> "idle"]

-----------------------------------------------------------------------------
\* The events in a subscription's queue, and the events on their way.
Waiting(s) == {queue[s][i] : i \in 1 .. Len(queue[s])}
Active == UNION {running[s] \cup Waiting(s) : s \in Subs}

-----------------------------------------------------------------------------
(* subscribe, unsubscribe, clear *)

\* A topic that already has a handler is refused (the call throws).
CanSubscribe(s) == s \notin subscribed /\ subscriptions[TopicOf[s]] = None

Subscribe(s) ==
  /\ CanSubscribe(s)
  /\ subscribed' = subscribed \cup {s}
  /\ subscriptions' = [subscriptions EXCEPT ![TopicOf[s]] = s]
  /\ UNCHANGED <<queue, running, inFlightMap, published, settled, discarded, waiter>>

\* The closure returned by subscribe may be called at any time and more than
\* once; it frees the topic whoever holds it by then.
Unsubscribe(s) ==
  /\ s \in subscribed
  /\ queue' = [queue EXCEPT ![s] = <<>>]
  /\ discarded' = discarded \cup Waiting(s)
  /\ subscriptions' = [subscriptions EXCEPT ![TopicOf[s]] = None]
  /\ UNCHANGED <<subscribed, running, inFlightMap, published, settled, waiter>>

\* The queues of the current subscriptions are emptied and all topics freed.
Clear ==
  LET current == Range(subscriptions) \ {None} IN
  /\ queue' = [s \in Subs |-> IF s \in current THEN <<>> ELSE queue[s]]
  /\ discarded' = discarded \cup UNION {Waiting(s) : s \in current}
  /\ subscriptions' = [t \in Topics |-> None]
  /\ UNCHANGED <<subscribed, running, inFlightMap, published, settled, waiter>>

-----------------------------------------------------------------------------
(* publish *)

\* Variant: the last slot is never used.
NoSlotForLast(s) == Cardinality(running[s]) + 1 < Prefetch[s]

HasFreeSlot(s) == Cardinality(running[s]) < Prefetch[s]

\* Variant: an event that has to queue is not counted.
CountIfStarted(t) ==
  inFlightMap' = IF HasFreeSlot(subscriptions[t])
                 THEN [inFlightMap EXCEPT ![t] = @ + 1] ELSE inFlightMap

\* The event is counted under its topic before its task is added, so that it
\* is in flight from the moment publish is called.
CountIn(t) == inFlightMap' = [inFlightMap EXCEPT ![t] = @ + 1]

\* queue.add
AddTask(s, e) ==
  IF HasFreeSlot(s)
  THEN running' = [running EXCEPT ![s] = @ \cup {e}] /\ UNCHANGED queue
  ELSE queue' = [queue EXCEPT ![s] = Append(@, e)] /\ UNCHANGED running

\* An event whose topic has no handler is reported to onError and dropped.
Route(e) ==
  /\ published' = published \cup {e}
  /\ IF subscriptions[To[e]] = None
     THEN /\ settled' = settled \cup {e}
          /\ UNCHANGED <<queue, running, inFlightMap>>
     ELSE /\ CountIn(To[e])
          /\ AddTask(subscriptions[To[e]], e)
          /\ UNCHANGED settled
  /\ UNCHANGED discarded

\* Published from outside, or by the handler of its cause while it runs.
Publish(e) ==
  /\ e \notin published
  /\ Cause[e] = None \/ \E s \in Subs : Cause[e] \in running[s]
  /\ Route(e)
  /\ UNCHANGED <<subscriptions, subscribed, waiter>>

\* Variants: no decrement, and deletion of the entry.
CountLeaked(t) == UNCHANGED inFlightMap
CountForgotten(t) == inFlightMap' = [inFlightMap EXCEPT ![t] = 0]

\* The count is decremented, and its entry deleted once it is below one.
CountOut(t) ==
  inFlightMap' = [inFlightMap EXCEPT ![t] = IF @ > 1 THEN @ - 1 ELSE 0]

\* The handler resolves or throws (then onError is told): either way the
\* `finally` gives the count back, and the slot goes to the next in the queue.
SettleTask(s, e) ==
  /\ e \in running[s]
  /\ CountOut(To[e])
  /\ settled' = settled \cup {e}
  /\ IF queue[s] = <<>>
     THEN running' = [running EXCEPT ![s] = @ \ {e}] /\ UNCHANGED queue
     ELSE /\ running' = [running EXCEPT ![s] = (@ \ {e}) \cup {Head(queue[s])}]
          /\ queue' = [queue EXCEPT ![s] = Tail(@)]
  /\ UNCHANGED <<subscriptions, subscribed, published, discarded>>

Settle(s, e) == SettleTask(s, e) /\ UNCHANGED waiter

-----------------------------------------------------------------------------
(* waitForIdle *)

HasInflightWork == \E t \in Topics : inFlightMap[t] > 0

\* The call checks once before its first await.
WaitForIdle(c) ==
  /\ waiter[c] = "idle"
  /\ waiter' = [waiter EXCEPT ![c] = IF HasInflightWork THEN "polling" ELSE "returned"]
  /\ UNCHANGED brokerVars

\* A poll that finds work in flight changes nothing.
Poll(c) ==
  /\ waiter[c] = "polling"
  /\ ~HasInflightWork
  /\ waiter' = [waiter EXCEPT ![c] = "returned"]
  /\ UNCHANGED brokerVars

TimeOut(c) ==
  /\ waiter[c] = "polling"
  /\ c \in Impatient
  /\ HasInflightWork
  /\ waiter' = [waiter EXCEPT ![c] = "timedOut"]
  /\ UNCHANGED brokerVars

-----------------------------------------------------------------------------
Next ==
  \/ \E s \in Subs : Subscribe(s) \/ Unsubscribe(s)
  \/ Clear
  \/ \E e \in Events : Publish(e)
  \/ \E s \in Subs, e \in Events : Settle(s, e)
  \/ \E c \in Callers : WaitForIdle(c) \/ Poll(c) \/ TimeOut(c)

Spec == Init /\ [][Next]_vars

\* Every handler settles sooner or later, and the poll timer keeps firing.
Fairness ==
  /\ \A s \in Subs, e \in Events : WF_vars(Settle(s, e))
  /\ \A c \in Callers : WF_vars(Poll(c))

FairSpec == Spec /\ Fairness

-----------------------------------------------------------------------------
(* Properties *)

\* waitForIdle never returns early: when a call returns, every event published
\* until then, and so everything published because of it, has been handled or
\* reported, whatever has been unsubscribed, replaced or cleared meanwhile.
IdleMeansSettled ==
  [][\A c \in Callers :
       waiter[c] # "returned" /\ waiter'[c] = "returned" =>
         published \subseteq settled]_vars

\* The counts are exact, across unsubscribing and resubscribing while tasks
\* run, but for the events discarded from a queue, which are counted for ever.
\* A count too low would end waitForIdle early; one too high keeps it waiting.
CountsAreExact ==
  \A t \in Topics : inFlightMap[t] = Cardinality({e \in Active \cup discarded : To[e] = t})

\* Every event that is published is handled, reported or discarded by a clear;
\* none is forgotten in the queue of a subscription.
EveryEventSettles ==
  \A e \in Events : e \in published ~> e \in settled \cup discarded

\* waitForIdle returns once the work is done, provided no queued event has been
\* discarded.
IdleIsReportedIfNothingDiscarded ==
  \A c \in Callers :
    waiter[c] = "polling" ~> waiter[c] # "polling" \/ discarded # {}

\* The unconditional claim: waitForIdle "polls until all in-flight work across
\* all handlers completes" (index.ts:140-144), also when clear has dropped the
\* queued tasks (index.ts:164-167).
IdleIsReported == \A c \in Callers : waiter[c] = "polling" ~> waiter[c] # "polling"
=============================================================================
