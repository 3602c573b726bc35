--------------------- MODULE ConcurrentEventBrokerProofs ---------------------
(***************************************************************************)
(* Proofs about ConcurrentEventBroker, for any topics, events,             *)
(* subscriptions and prefetch limits.                                      *)
(*                                                                         *)
(* The argument: an event is in at most one place (Placement), so that     *)
(* adding a task adds one event, and settling one removes one event, from  *)
(* the set that the counts of inFlightMap are the cardinalities of.  All   *)
(* counts are then zero only if nothing is on its way.                     *)
(***************************************************************************)
EXTENDS ConcurrentEventBroker, FiniteSetTheorems, TLAPS

\* Every published event is in one of the places an event can be in ...
Accounted == published = settled \cup Active \cup discarded

\* ... and a task is in one place only.
Placement ==
  /\ \A s, t \in Subs : s # t => running[s] \cap running[t] = {}
  /\ \A s, t \in Subs : running[s] \cap Waiting(t) = {}
  /\ \A s, t \in Subs : \A i \in 1 .. Len(queue[s]), j \in 1 .. Len(queue[t]) :
       queue[s][i] = queue[t][j] => s = t /\ i = j
  /\ discarded \cap Active = {}

Counted(t) == {e \in Active \cup discarded : To[e] = t}

BrokerInv == TypeOK /\ Accounted /\ Placement /\ CountsAreExact

-----------------------------------------------------------------------------
\* Replacing one value of a function by another of its range keeps its type.
LEMMA ExceptType ==
  ASSUME NEW S, NEW T, NEW f \in [S -> T], NEW x \in S, NEW v \in T
  PROVE  [f EXCEPT ![x] = v] \in [S -> T]
  OBVIOUS

\* The initial state satisfies the type invariant.
LEMMA TypeInit == Init => TypeOK
  BY DEF Init, TypeOK

\* The variables that publishing an event and settling a task change.
WorkTyped ==
  /\ queue \in [Subs -> Seq(Events)]
  /\ running \in [Subs -> SUBSET Events]
  /\ inFlightMap \in [Topics -> Nat]
  /\ published \subseteq Events
  /\ settled \subseteq Events
  /\ discarded \subseteq Events

\* Publishing leaves them well typed.
LEMMA RouteType == ASSUME TypeOK, NEW e \in Events, Route(e) PROVE WorkTyped'
<1> USE EventsAssumption, SubsAssumption DEF TypeOK, WorkTyped
<1>1. CASE subscriptions[To[e]] = None
  BY <1>1 DEF Route
<1>2. CASE subscriptions[To[e]] # None
  <2> DEFINE s == subscriptions[To[e]]
  <2>1. s \in Subs /\ Append(queue[s], e) \in Seq(Events)
    BY <1>2
  <2>2. running' \in [Subs -> SUBSET Events] /\ queue' \in [Subs -> Seq(Events)]
    <3>1. \/ queue' = queue
          \/ queue' = [queue EXCEPT ![s] = Append(queue[s], e)]
      BY <1>2 DEF Route, AddTask
    <3>2. \/ running' = running
          \/ running' = [running EXCEPT ![s] = @ \cup {e}]
      BY <1>2 DEF Route, AddTask
    <3>3. [queue EXCEPT ![s] = Append(queue[s], e)] \in [Subs -> Seq(Events)]
      <4> HIDE DEF s
      <4> QED
        BY <2>1, ExceptType, Zenon
    <3>4. [running EXCEPT ![s] = @ \cup {e}] \in [Subs -> SUBSET Events]
      BY <2>1
    <3> QED
      BY <3>1, <3>2, <3>3, <3>4
  <2>3. inFlightMap' \in [Topics -> Nat]
    BY <1>2 DEF Route, CountIn
  <2> QED
    BY <1>2, <2>2, <2>3 DEF Route
<1> QED
  BY <1>1, <1>2

\* So does settling.
LEMMA SettleType ==
  ASSUME TypeOK, NEW s \in Subs, NEW e \in Events, SettleTask(s, e) PROVE WorkTyped'
<1> USE EventsAssumption, SubsAssumption DEF TypeOK, WorkTyped
<1>1. running' \in [Subs -> SUBSET Events] /\ queue' \in [Subs -> Seq(Events)]
  <2>1. queue[s] # <<>> => Head(queue[s]) \in Events /\ Tail(queue[s]) \in Seq(Events)
    OBVIOUS
  <2>2. CASE queue[s] = <<>>
    <3>1. queue' = queue /\ running' = [running EXCEPT ![s] = running[s] \ {e}]
      BY <2>2 DEF SettleTask
    <3>2. [running EXCEPT ![s] = running[s] \ {e}] \in [Subs -> SUBSET Events]
      OBVIOUS
    <3> QED
      BY <3>1, <3>2
  <2>3. CASE queue[s] # <<>>
    <3>1. /\ queue' = [queue EXCEPT ![s] = Tail(queue[s])]
          /\ running' = [running EXCEPT ![s] = (running[s] \ {e}) \cup {Head(queue[s])}]
      BY <2>3 DEF SettleTask
    <3>2. (running[s] \ {e}) \cup {Head(queue[s])} \in SUBSET Events
      BY <2>1, <2>3
    <3>3. [queue EXCEPT ![s] = Tail(queue[s])] \in [Subs -> Seq(Events)]
      BY <2>1, <2>3, ExceptType, Zenon
    <3>4. [running EXCEPT ![s] = (running[s] \ {e}) \cup {Head(queue[s])}]
            \in [Subs -> SUBSET Events]
      BY <3>2, ExceptType, Zenon
    <3> QED
      BY <3>1, <3>3, <3>4, Zenon
  <2> QED
    BY <2>2, <2>3
<1>2. inFlightMap' \in [Topics -> Nat]
  BY DEF SettleTask, CountOut
<1> QED
  BY <1>1, <1>2 DEF SettleTask

\* Every step leaves the variables well typed.
LEMMA TypeStep == ASSUME TypeOK, [Next]_vars PROVE TypeOK'
<1> USE EventsAssumption, SubsAssumption DEF TypeOK, brokerVars
<1>1. ASSUME NEW s \in Subs, Subscribe(s) PROVE TypeOK'
  BY <1>1 DEF Subscribe
<1>2. ASSUME NEW s \in Subs, Unsubscribe(s) PROVE TypeOK'
  <2>1. Waiting(s) \subseteq Events
    BY DEF Waiting
  <2> QED
    BY <1>2, <2>1 DEF Unsubscribe
<1>3. ASSUME Clear PROVE TypeOK'
  <2>1. UNION {Waiting(s) : s \in Range(subscriptions) \ {None}} \subseteq Events
    BY DEF Waiting, Range
  <2> QED
    BY <1>3, <2>1 DEF Clear
<1>4. ASSUME NEW e \in Events, Publish(e) PROVE TypeOK'
  BY <1>4, RouteType DEF Publish, WorkTyped
<1>5. ASSUME NEW s \in Subs, NEW e \in Events, Settle(s, e) PROVE TypeOK'
  BY <1>5, SettleType DEF Settle, SettleTask, WorkTyped
<1>6. ASSUME NEW c \in Callers, WaitForIdle(c) \/ Poll(c) \/ TimeOut(c) PROVE TypeOK'
  BY <1>6 DEF WaitForIdle, Poll, TimeOut
<1>7. ASSUME UNCHANGED vars PROVE TypeOK'
  BY <1>7 DEF vars
<1> QED
  BY <1>1, <1>2, <1>3, <1>4, <1>5, <1>6, <1>7 DEF Next

\* The variables keep their types; no count of work in flight ever goes below
\* zero (index.ts:101-104).
THEOREM TypeCorrect == Spec => []TypeOK
<1>1. TypeOK /\ [Next]_vars => TypeOK'
  BY TypeStep
<1> QED
  BY TypeInit, <1>1, PTL DEF Spec

-----------------------------------------------------------------------------
(* Counting *)

\* The counted events are finitely many.
LEMMA CountedFinite ==
  ASSUME TypeOK, NEW t \in Topics
  PROVE  /\ Active \subseteq Events
         /\ Counted(t) \subseteq Events
         /\ IsFiniteSet(Counted(t))
<1>1. \A s \in Subs : Waiting(s) \subseteq Events
  BY DEF TypeOK, Waiting
<1>2. Active \subseteq Events
  BY <1>1 DEF TypeOK, Active
<1>3. Counted(t) \subseteq Events
  BY <1>2 DEF TypeOK, Counted
<1> QED
  BY <1>2, <1>3, FS_Subset, EventsAssumption

\* What appending to a queue, and taking its head, do to its elements.
LEMMA QueueFacts ==
  ASSUME NEW q \in Seq(Events), NEW e \in Events
  PROVE  /\ Len(Append(q, e)) = Len(q) + 1
         /\ \A i \in 1 .. Len(q) : Append(q, e)[i] = q[i]
         /\ Append(q, e)[Len(q) + 1] = e
         /\ q # <<>> => /\ Len(q) >= 1
                       /\ Head(q) = q[1]
                       /\ Len(Tail(q)) = Len(q) - 1
                       /\ \A i \in 1 .. Len(q) - 1 : Tail(q)[i] = q[i + 1]
  OBVIOUS

\* A published event that finds a handler becomes the one more active event.
LEMMA RouteStep ==
  ASSUME BrokerInv, NEW e \in Events \ published, Route(e), subscriptions[To[e]] # None
  PROVE  Accounted' /\ Placement' /\ CountsAreExact' /\ Active' = Active \cup {e}
<1> USE EventsAssumption DEF BrokerInv
<1>0. PICK s \in Subs : s = subscriptions[To[e]]
  BY DEF TypeOK
<1>1. queue[s] \in Seq(Events)
  BY DEF TypeOK
<1>2. e \notin settled \cup Active \cup discarded
  BY DEF Accounted
<1>3. \/ /\ running' = [running EXCEPT ![s] = @ \cup {e}]
         /\ queue' = queue
      \/ /\ queue' = [queue EXCEPT ![s] = Append(queue[s], e)]
         /\ running' = running
  BY <1>0 DEF Route, AddTask
<1>4. /\ inFlightMap' = [inFlightMap EXCEPT ![To[e]] = @ + 1]
      /\ published' = published \cup {e}
      /\ settled' = settled
      /\ discarded' = discarded
  BY DEF Route, CountIn
<1>5. Active' = Active \cup {e} /\ Placement'
  <2>1. CASE /\ running' = [running EXCEPT ![s] = @ \cup {e}]
             /\ queue' = queue
    <3>1. \A t \in Subs : Waiting(t)' = Waiting(t)
      BY <2>1 DEF Waiting
    <3>2. \A t \in Subs : running'[t] = IF t = s THEN running[t] \cup {e} ELSE running[t]
      BY <2>1, <1>1 DEF TypeOK
    <3>3. Active' = Active \cup {e}
      <4>1. \A t \in Subs : (running[t] \cup Waiting(t))' =
              IF t = s THEN running[t] \cup Waiting(t) \cup {e} ELSE running[t] \cup Waiting(t)
        BY <3>1, <3>2
      <4> QED
        BY <4>1 DEF Active
    <3>4. Placement'
      BY <3>1, <3>2, <3>3, <2>1, <1>1, <1>2, <1>4 DEF Placement, Active
    <3> QED
      BY <3>3, <3>4
  <2>2. CASE /\ queue' = [queue EXCEPT ![s] = Append(queue[s], e)]
             /\ running' = running
    <3>1. \A t \in Subs : t # s => queue'[t] = queue[t]
      BY <2>2, <1>1 DEF TypeOK
    <3>2. queue'[s] = Append(queue[s], e)
      BY <2>2, <1>1 DEF TypeOK
    <3>3. \A t \in Subs : Waiting(t)' = IF t = s THEN Waiting(t) \cup {e} ELSE Waiting(t)
      <4>1. Waiting(s)' = Waiting(s) \cup {e}
        BY <3>2, <1>1, QueueFacts DEF Waiting
      <4>2. ASSUME NEW t \in Subs, t # s PROVE Waiting(t)' = Waiting(t)
        BY <4>2, <3>1 DEF Waiting
      <4> QED
        BY <4>1, <4>2
    <3>4. Active' = Active \cup {e}
      BY <3>3, <2>2, <1>1 DEF Active
    <3>5. \A t, u \in Subs : \A i \in 1 .. Len(queue'[t]), j \in 1 .. Len(queue'[u]) :
            queue'[t][i] = queue'[u][j] => t = u /\ i = j
      <4> SUFFICES ASSUME NEW t \in Subs, NEW u \in Subs,
                          NEW i \in 1 .. Len(queue'[t]), NEW j \in 1 .. Len(queue'[u]),
                          queue'[t][i] = queue'[u][j]
                   PROVE  t = u /\ i = j
        OBVIOUS
      <4>1. \A v \in Subs : \A k \in 1 .. Len(queue[v]) : queue[v][k] # e
        BY <1>2 DEF Active, Waiting
      <4>2. \A v \in Subs : \A k \in 1 .. Len(queue'[v]) :
              \/ k \in 1 .. Len(queue[v]) /\ queue'[v][k] = queue[v][k]
              \/ v = s /\ k = Len(queue[s]) + 1 /\ queue'[v][k] = e
        BY <3>1, <3>2, <1>1, QueueFacts
      <4> QED
        BY <4>1, <4>2 DEF Placement
    <3>6. Placement'
      BY <3>3, <3>4, <3>5, <2>2, <1>1, <1>2, <1>4 DEF Placement, Active
    <3> QED
      BY <3>4, <3>6
  <2> QED
    BY <1>3, <2>1, <2>2
<1>6. Accounted'
  BY <1>4, <1>5 DEF Accounted
<1>7. CountsAreExact'
  <2> SUFFICES ASSUME NEW t \in Topics PROVE inFlightMap'[t] = Cardinality(Counted(t)')
    BY DEF CountsAreExact, Counted
  <2>1. inFlightMap[t] = Cardinality(Counted(t)) /\ IsFiniteSet(Counted(t))
    BY CountedFinite DEF CountsAreExact, Counted
  <2>2. CASE t = To[e]
    <3>1. Counted(t)' = Counted(t) \cup {e} /\ e \notin Counted(t)
      BY <2>2, <1>2, <1>4, <1>5 DEF Counted
    <3>2. inFlightMap'[t] = inFlightMap[t] + 1
      BY <2>2, <1>4 DEF TypeOK
    <3> QED
      BY <2>1, <3>1, <3>2, FS_AddElement
  <2>3. CASE t # To[e]
    <3>1. Counted(t)' = Counted(t)
      BY <2>3, <1>4, <1>5 DEF Counted
    <3> QED
      BY <2>1, <2>3, <3>1, <1>4 DEF TypeOK
  <2> QED
    BY <2>2, <2>3
<1> QED
  BY <1>5, <1>6, <1>7

\* A published event that finds no handler is settled at once.
LEMMA UnroutableStep ==
  ASSUME BrokerInv, NEW e \in Events, Route(e), subscriptions[To[e]] = None
  PROVE  Accounted' /\ Placement' /\ CountsAreExact' /\ Active' = Active
<1>1. /\ UNCHANGED <<queue, running, inFlightMap, discarded>>
      /\ published' = published \cup {e}
      /\ settled' = settled \cup {e}
  BY DEF Route
<1>2. Active' = Active
  BY <1>1 DEF Active, Waiting
<1> QED
  BY <1>1, <1>2 DEF BrokerInv, Accounted, Placement, Waiting, CountsAreExact

\* A task that settles is removed from the active events, and so from the count.
LEMMA SettleStep ==
  ASSUME BrokerInv, NEW s \in Subs, NEW e \in Events, SettleTask(s, e)
  PROVE  Accounted' /\ Placement' /\ CountsAreExact' /\ Active' = Active \ {e}
<1> USE EventsAssumption DEF BrokerInv
<1>1. queue[s] \in Seq(Events) /\ e \in running[s] /\ e \in Active
  BY DEF TypeOK, SettleTask, Active
<1>2. \/ /\ queue[s] = <<>>
         /\ running' = [running EXCEPT ![s] = @ \ {e}]
         /\ queue' = queue
      \/ /\ queue[s] # <<>>
         /\ running' = [running EXCEPT ![s] = (@ \ {e}) \cup {Head(queue[s])}]
         /\ queue' = [queue EXCEPT ![s] = Tail(queue[s])]
  BY DEF SettleTask
<1>3. /\ inFlightMap' = [inFlightMap EXCEPT ![To[e]] = IF @ > 1 THEN @ - 1 ELSE 0]
      /\ settled' = settled \cup {e}
      /\ published' = published
      /\ discarded' = discarded
  BY DEF SettleTask, CountOut
<1>4. /\ \A t \in Subs : e \notin Waiting(t) /\ (t # s => e \notin running[t])
      /\ e \notin discarded
  BY <1>1 DEF Placement
<1>5. Active' = Active \ {e} /\ Placement'
  <2>1. CASE /\ running' = [running EXCEPT ![s] = @ \ {e}]
             /\ queue' = queue
    <3>1. \A t \in Subs : Waiting(t)' = Waiting(t)
      BY <2>1 DEF Waiting
    <3>2. \A t \in Subs : running'[t] = IF t = s THEN running[t] \ {e} ELSE running[t]
      BY <2>1 DEF TypeOK
    <3>3. Active' = Active \ {e}
      <4>1. \A t \in Subs : (running[t] \cup Waiting(t))' = (running[t] \cup Waiting(t)) \ {e}
        BY <3>1, <3>2, <1>4
      <4> QED
        BY <4>1 DEF Active
    <3>4. Placement'
      BY <3>1, <3>2, <3>3, <2>1, <1>3 DEF Placement
    <3> QED
      BY <3>3, <3>4
  <2>2. CASE /\ queue[s] # <<>>
             /\ running' = [running EXCEPT ![s] = (@ \ {e}) \cup {Head(queue[s])}]
             /\ queue' = [queue EXCEPT ![s] = Tail(queue[s])]
    <3>1. PICK h \in Waiting(s) : h = Head(queue[s]) /\ h = queue[s][1]
      BY <2>2, <1>1, QueueFacts DEF Waiting
    <3>2. \A t \in Subs : running'[t] = IF t = s THEN (running[t] \ {e}) \cup {h} ELSE running[t]
      BY <2>2, <3>1 DEF TypeOK
    <3>3. /\ \A t \in Subs : t # s => queue'[t] = queue[t]
          /\ queue'[s] = Tail(queue[s])
      BY <2>2 DEF TypeOK
    <3>4. \A v \in Subs : \A k \in 1 .. Len(queue'[v]) :
            LET j == IF v = s THEN k + 1 ELSE k
            IN  j \in 1 .. Len(queue[v]) /\ queue'[v][k] = queue[v][j]
      BY <3>3, <2>2, <1>1, QueueFacts DEF TypeOK
    <3>5. \A t \in Subs : Waiting(t)' = IF t = s THEN Waiting(t) \ {h} ELSE Waiting(t)
      <4>1. Waiting(s)' = Waiting(s) \ {h}
        <5>1. Waiting(s)' \subseteq Waiting(s)
          BY <3>4 DEF Waiting
        <5>2. h \notin Waiting(s)'
          <6> SUFFICES ASSUME NEW k \in 1 .. Len(queue'[s]), queue'[s][k] = h PROVE FALSE
            BY DEF Waiting
          <6>1. k + 1 \in 1 .. Len(queue[s]) /\ queue[s][k + 1] = queue[s][1]
            BY <3>1, <3>4
          <6>2. 1 \in 1 .. Len(queue[s])
            BY <2>2, <1>1, QueueFacts
          <6> QED
            BY <6>1, <6>2 DEF Placement
        <5>3. ASSUME NEW x \in Waiting(s), x # h PROVE x \in Waiting(s)'
          <6>1. PICK k \in 1 .. Len(queue[s]) : x = queue[s][k]
            BY <5>3 DEF Waiting
          <6>2. k # 1
            BY <6>1, <5>3, <3>1
          <6>3. k - 1 \in 1 .. Len(queue'[s]) /\ queue'[s][k - 1] = x
            BY <6>1, <6>2, <3>3, <2>2, <1>1, QueueFacts
          <6> QED
            BY <6>3 DEF Waiting
        <5> QED
          BY <5>1, <5>2, <5>3
      <4>2. ASSUME NEW t \in Subs, t # s PROVE Waiting(t)' = Waiting(t)
        BY <4>2, <3>3 DEF Waiting
      <4> QED
        BY <4>1, <4>2
    <3>6. \A t \in Subs : h \notin running[t] /\ (t # s => h \notin Waiting(t))
      BY <3>1 DEF Placement, Waiting
    <3>7. Active' = Active \ {e}
      <4>1. (running[s] \cup Waiting(s))' = (running[s] \cup Waiting(s)) \ {e}
        BY <3>1, <3>2, <3>5, <1>4
      <4>2. ASSUME NEW t \in Subs, t # s
            PROVE  (running[t] \cup Waiting(t))' = (running[t] \cup Waiting(t)) \ {e}
        <5>1. running'[t] = running[t] /\ Waiting(t)' = Waiting(t)
          BY <4>2, <3>2, <3>5
        <5> QED
          BY <4>2, <5>1, <1>4
      <4>3. \A t \in Subs : (running[t] \cup Waiting(t))' = (running[t] \cup Waiting(t)) \ {e}
        BY <4>1, <4>2
      <4> QED
        BY <4>3 DEF Active
    <3>8. \A t, u \in Subs : \A i \in 1 .. Len(queue'[t]), j \in 1 .. Len(queue'[u]) :
            queue'[t][i] = queue'[u][j] => t = u /\ i = j
      <4> SUFFICES ASSUME NEW t \in Subs, NEW u \in Subs,
                          NEW i \in 1 .. Len(queue'[t]), NEW j \in 1 .. Len(queue'[u]),
                          queue'[t][i] = queue'[u][j]
                   PROVE  t = u /\ i = j
        OBVIOUS
      <4>1. PICK k \in 1 .. Len(queue[t]) :
              queue'[t][i] = queue[t][k] /\ k = (IF t = s THEN i + 1 ELSE i)
        BY <3>4
      <4>2. PICK l \in 1 .. Len(queue[u]) :
              queue'[u][j] = queue[u][l] /\ l = (IF u = s THEN j + 1 ELSE j)
        BY <3>4
      <4>3. t = u /\ k = l
        <5>1. queue[t][k] = queue[u][l]
          BY <4>1, <4>2
        <5>2. \A v, w \in Subs : \A m \in 1 .. Len(queue[v]), n \in 1 .. Len(queue[w]) :
                queue[v][m] = queue[w][n] => v = w /\ m = n
          BY DEF Placement
        <5> QED
          BY <5>1, <5>2
      <4>4. i \in Int /\ j \in Int
        OBVIOUS
      <4> QED
        BY <4>1, <4>2, <4>3, <4>4
    <3>9. Placement'
      <4>1. \A t \in Subs : running'[t] \subseteq running[t] \cup {h} /\ (t # s => running'[t] = running[t])
        BY <3>2
      <4>2. ASSUME NEW t \in Subs, NEW u \in Subs, t # u PROVE running'[t] \cap running'[u] = {}
        BY <4>1, <4>2, <3>6 DEF Placement
      <4>3. ASSUME NEW t \in Subs, NEW u \in Subs PROVE running'[t] \cap Waiting(u)' = {}
        <5>1. Waiting(u)' \subseteq Waiting(u) /\ h \notin Waiting(u)'
          BY <3>5, <3>6
        <5> QED
          BY <4>1, <5>1 DEF Placement
      <4>4. discarded' \cap Active' = {}
        BY <3>7, <1>3 DEF Placement
      <4> QED
        BY <4>2, <4>3, <4>4, <3>8 DEF Placement
    <3> QED
      BY <3>7, <3>9
  <2> QED
    BY <1>2, <2>1, <2>2
<1>6. Accounted'
  BY <1>1, <1>3, <1>5 DEF Accounted
<1>7. CountsAreExact'
  <2> SUFFICES ASSUME NEW t \in Topics PROVE inFlightMap'[t] = Cardinality(Counted(t)')
    BY DEF CountsAreExact, Counted
  <2>1. inFlightMap[t] = Cardinality(Counted(t)) /\ IsFiniteSet(Counted(t))
    BY CountedFinite DEF CountsAreExact, Counted
  <2>2. CASE t = To[e]
    <3>1. Counted(t)' = Counted(t) \ {e} /\ e \in Counted(t)
      BY <2>2, <1>1, <1>3, <1>4, <1>5 DEF Counted
    <3>2. inFlightMap'[t] = IF inFlightMap[t] > 1 THEN inFlightMap[t] - 1 ELSE 0
      BY <2>2, <1>3 DEF TypeOK
    <3>3. Cardinality(Counted(t)') = inFlightMap[t] - 1
      BY <2>1, <3>1, FS_RemoveElement
    <3>4. inFlightMap[t] # 0
      BY <2>1, <3>1, FS_EmptySet
    <3> QED
      BY <3>2, <3>3, <3>4 DEF TypeOK
  <2>3. CASE t # To[e]
    <3>1. Counted(t)' = Counted(t)
      BY <2>3, <1>3, <1>5 DEF Counted
    <3> QED
      BY <2>1, <2>3, <3>1, <1>3 DEF TypeOK
  <2> QED
    BY <2>2, <2>3
<1> QED
  BY <1>5, <1>6, <1>7

\* Emptying queues moves their events to the discarded ones, which stay counted.
LEMMA DiscardStep ==
  ASSUME BrokerInv, NEW C \in SUBSET Subs,
         queue' = [s \in Subs |-> IF s \in C THEN <<>> ELSE queue[s]],
         discarded' = discarded \cup UNION {Waiting(s) : s \in C},
         UNCHANGED <<running, inFlightMap, published, settled>>
  PROVE  /\ Accounted' /\ Placement' /\ CountsAreExact'
         /\ Active' \cup discarded' = Active \cup discarded
<1> USE DEF BrokerInv
<1>1. \A t \in Subs : Waiting(t)' = IF t \in C THEN {} ELSE Waiting(t)
  <2>1. ASSUME NEW t \in Subs, t \in C PROVE Waiting(t)' = {}
    BY <2>1 DEF Waiting
  <2>2. ASSUME NEW t \in Subs, t \notin C PROVE Waiting(t)' = Waiting(t)
    BY <2>2 DEF Waiting
  <2> QED
    BY <2>1, <2>2
<1>2. Active' \cup discarded' = Active \cup discarded
  BY <1>1 DEF Active
<1>3. \A t, u \in Subs : t # u => Waiting(t) \cap Waiting(u) = {}
  BY DEF Placement, Waiting
<1>4. discarded' \cap Active' = {}
  <2>1. ASSUME NEW x \in Active', x \in UNION {Waiting(s) : s \in C} PROVE FALSE
    <3>1. PICK t \in Subs : x \in running[t] \/ (t \notin C /\ x \in Waiting(t))
      BY <1>1, <2>1 DEF Active
    <3>2. PICK u \in C : x \in Waiting(u)
      BY <2>1
    <3> QED
      BY <3>1, <3>2, <1>3 DEF Placement
  <2>2. Active' \subseteq Active
    BY <1>1 DEF Active
  <2> QED
    BY <2>1, <2>2 DEF Placement
<1>5. \A t, u \in Subs : \A i \in 1 .. Len(queue'[t]), j \in 1 .. Len(queue'[u]) :
        queue'[t][i] = queue'[u][j] => t = u /\ i = j
  BY DEF Placement
<1>6. Placement'
  BY <1>1, <1>4, <1>5 DEF Placement
<1>7. Accounted'
  BY <1>2 DEF Accounted
<1>8. CountsAreExact'
  BY <1>2 DEF CountsAreExact
<1> QED
  BY <1>2, <1>6, <1>7, <1>8

\* Every step preserves the invariant.
LEMMA BrokerStep == ASSUME BrokerInv, [Next]_vars PROVE BrokerInv'
<1> DEFINE Rest == Accounted /\ Placement /\ CountsAreExact
<1>t. TypeOK'
  BY TypeStep DEF BrokerInv
<1>1. ASSUME NEW e \in Events, Publish(e) PROVE Rest'
  BY <1>1, RouteStep, UnroutableStep DEF Publish
<1>2. ASSUME NEW s \in Subs, NEW e \in Events, Settle(s, e) PROVE Rest'
  BY <1>2, SettleStep DEF Settle
<1>3. ASSUME NEW s \in Subs, Unsubscribe(s) PROVE Rest'
  <2>1. queue' = [t \in Subs |-> IF t \in {s} THEN <<>> ELSE queue[t]]
    BY <1>3 DEF Unsubscribe, BrokerInv, TypeOK
  <2>2. discarded' = discarded \cup UNION {Waiting(t) : t \in {s}}
    BY <1>3 DEF Unsubscribe
  <2> QED
    BY <1>3, <2>1, <2>2, DiscardStep DEF Unsubscribe
<1>4. ASSUME Clear PROVE Rest'
  <2>1. Range(subscriptions) \ {None} \in SUBSET Subs
    BY DEF BrokerInv, TypeOK, Range
  <2> QED
    BY <1>4, <2>1, DiscardStep DEF Clear
<1>5. ASSUME UNCHANGED <<queue, running, inFlightMap, published, settled, discarded>> PROVE Rest'
  BY <1>5 DEF BrokerInv, Accounted, Placement, Active, Waiting, CountsAreExact
<1>6. ASSUME NEW s \in Subs, Subscribe(s) PROVE Rest'
  BY <1>6, <1>5 DEF Subscribe
<1>7. ASSUME NEW c \in Callers, WaitForIdle(c) \/ Poll(c) \/ TimeOut(c) PROVE Rest'
  BY <1>7, <1>5 DEF WaitForIdle, Poll, TimeOut, brokerVars
<1>8. ASSUME UNCHANGED vars PROVE Rest'
  BY <1>8, <1>5 DEF vars, brokerVars
<1> QED
  BY <1>t, <1>1, <1>2, <1>3, <1>4, <1>6, <1>7, <1>8 DEF Next, BrokerInv

\* The accounting invariant behind ExactCounts and IdleIsSound holds.
THEOREM BrokerInvariant == Spec => []BrokerInv
<1>1. Init => BrokerInv
  <2> SUFFICES ASSUME Init PROVE BrokerInv
    OBVIOUS
  <2>1. \A s \in Subs : Waiting(s) = {}
    BY DEF Init, Waiting
  <2>2. Active = {}
    BY <2>1 DEF Init, Active
  <2> QED
    BY <2>1, <2>2, TypeInit, FS_EmptySet
       DEF Init, BrokerInv, Accounted, Placement, CountsAreExact
<1>2. BrokerInv /\ [Next]_vars => BrokerInv'
  BY BrokerStep
<1> QED
  BY <1>1, <1>2, PTL DEF Spec

\* The count of a topic is the number of its events that are queued, being
\* handled, or were discarded from a queue, whatever is subscribed, removed or
\* replaced meanwhile.
THEOREM ExactCounts == Spec => []CountsAreExact
<1>1. BrokerInv => CountsAreExact
  BY DEF BrokerInv
<1> QED
  BY <1>1, BrokerInvariant, PTL

\* With exact counts, no work in flight means that all that was published has
\* been handled.
LEMMA IdleSettled == BrokerInv /\ ~HasInflightWork => published \subseteq settled
<1> SUFFICES ASSUME BrokerInv, ~HasInflightWork, NEW e \in published, e \notin settled
             PROVE  FALSE
  OBVIOUS
<1>1. e \in Active \cup discarded /\ To[e] \in Topics
  BY EventsAssumption DEF BrokerInv, TypeOK, Accounted
<1>2. inFlightMap[To[e]] = 0
  BY <1>1 DEF BrokerInv, TypeOK, HasInflightWork
<1>3. Cardinality(Counted(To[e])) = 0 /\ IsFiniteSet(Counted(To[e]))
  BY <1>1, <1>2, CountedFinite DEF BrokerInv, CountsAreExact, Counted
<1>4. e \in Counted(To[e])
  BY <1>1 DEF Counted
<1> QED
  BY <1>3, <1>4, FS_EmptySet

\* waitForIdle never returns while an event published before is still queued or
\* being handled, for any number of topics, events and prefetch limits.
THEOREM IdleIsSound == Spec => IdleMeansSettled
<1>1. BrokerInv /\ [Next]_vars =>
        \A c \in Callers : waiter[c] # "returned" /\ waiter'[c] = "returned" =>
          published \subseteq settled
  <2> SUFFICES ASSUME BrokerInv, [Next]_vars, NEW c \in Callers,
                      waiter[c] # "returned", waiter'[c] = "returned"
               PROVE  published \subseteq settled
    OBVIOUS
  <2>1. \E d \in Callers : WaitForIdle(d) \/ Poll(d) \/ TimeOut(d)
    BY DEF Next, vars, Subscribe, Unsubscribe, Clear, Publish, Settle
  <2>2. ~HasInflightWork
    BY <2>1 DEF WaitForIdle, Poll, TimeOut, BrokerInv, TypeOK
  <2> QED
    BY <2>2, IdleSettled
<1> QED
  BY <1>1, BrokerInvariant, PTL DEF Spec, IdleMeansSettled
=============================================================================
