---------------------------- MODULE ArvoAgentProofs ----------------------------
(***************************************************************************)
(* Proofs about ArvoAgent, for any number of tool calls, tools,            *)
(* interactions, restarts and repeated deliveries.                         *)
(*                                                                         *)
(* The arguments.  Results: in every state that is saved or worked on, the *)
(* calls without a result are exactly those awaited or received, or those  *)
(* of the batch being acted on (Accounted).  Permissions: what is still    *)
(* granted, and what has just been drained for the batch in progress, is   *)
(* covered by a grant that no batch has used up (PermissionsCovered).      *)
(* Budget: the interactions counted in the state in force are the          *)
(* responses of the model (CountedInteractions).                           *)
(***************************************************************************)
EXTENDS ArvoAgent, TLAPS

\* An interaction is counted before it is acted on, so that its number names a
\* request.
CountedBeforeActing == phase = "acting" => local.current >= 1

TypeInv == TypeOK /\ CountedBeforeActing

\* What an invocation in progress has started from.
LifeCycle ==
  /\ phase # "idle" => status \in {"new", "suspended"}
  /\ phase = "preparing" => local = saved
  /\ phase = "preparing" /\ trigger = None => status = "new"
  /\ status = "new" => saved = NewState

\* The calls in the history have one result each, except those in open.
ResultsExcept(s, open) ==
  \A c \in Calls : s.results[c] = IF c \in s.used \ open THEN 1 ELSE 0

Outstanding(s) == s.awaiting \cup s.received

\* A state between two batches: what has no result is awaited or received.
Consistent(s) ==
  /\ s.awaiting \cap s.received = {}
  /\ Outstanding(s) \cap Calls \subseteq s.used
  /\ ResultsExcept(s, Outstanding(s))

Accounted ==
  /\ Consistent(saved)
  /\ phase = "calling" => Consistent(local) /\ Outstanding(local) = {}
  /\ phase = "acting" =>
       /\ Outstanding(local) = {}
       /\ batch \subseteq local.used
       /\ ResultsExcept(local, batch)

\* A permission that may still serve a batch.
Granted(t) == permissions[t] = "granted"
Drained(t) == phase = "acting" /\ authorization[t] = "APPROVED"

PermissionsCovered ==
  \A t \in Restricted :
    /\ Granted(t) \/ Drained(t) \/ runs[t] > 0 => grants[t] > 0
    /\ singleUse =>
         runs[t] + (IF Granted(t) THEN 1 ELSE 0) + (IF Drained(t) THEN 1 ELSE 0) <= grants[t]

\* The state in force: the invocation's, or the saved one.
CurrentState == IF phase = "idle" THEN saved ELSE local

CountedInteractions ==
  restarts = 0 =>
    /\ llmCalls <= MaxInteractions + 1
    /\ status \in {"new", "suspended"} => llmCalls <= CurrentState.current

-----------------------------------------------------------------------------
\* What is empty is well typed.
LEMMA NewStateType == NewState \in AgentStates /\ NoVerdict \in [Restricted -> Verdicts]
  BY ConfigAssumption DEF NewState, AgentStates, NoVerdict, Verdicts

\* The initial state is well typed.
LEMMA TypeInit == Init => TypeInv
<1> SUFFICES ASSUME Init PROVE TypeInv
  OBVIOUS
<1>1. /\ permissions \in [Restricted -> {"none", "granted", "denied"}]
      /\ requested \in [Requests -> SUBSET Restricted]
      /\ runs \in [Restricted -> Nat] /\ grants \in [Restricted -> Nat]
      /\ replies \in [Ids -> Replies \cup {None}]
  BY DEF Init, Blank
<1>2. 0 \in 0 .. MaxRestarts /\ 0 \in 0 .. MaxRedeliveries /\ llmCalls \in Nat
  BY ConfigAssumption DEF Init
<1> QED
  BY <1>1, <1>2, NewStateType DEF Init, TypeInv, TypeOK, CountedBeforeActing

\* An invocation that ends leaves well-typed variables.
LEMMA LeaveType ==
  ASSUME Leave
  PROVE  /\ phase' \in {"idle", "preparing", "calling", "acting"}
         /\ trigger' \in Ids \cup {None}
         /\ local' \in AgentStates
         /\ batch' \in SUBSET Calls
         /\ authorization' \in [Restricted -> Verdicts]
         /\ CountedBeforeActing'
  BY NewStateType DEF Leave, CountedBeforeActing

\* What the steps of the loop do to a state keeps it an AgentState.
LEMMA StateTypes ==
  ASSUME NEW s \in AgentStates
  PROVE  /\ \A i \in Ids : i \in s.awaiting =>
              [s EXCEPT !.awaiting = @ \ {i}, !.received = @ \cup {i}] \in AgentStates
         /\ WithResults(s) \in AgentStates
         /\ s.current <= MaxInteractions =>
              /\ \A B \in SUBSET Calls :
                   [s EXCEPT !.current = @ + 1, !.used = @ \cup B] \in AgentStates
              /\ [s EXCEPT !.current = @ + 1] \in AgentStates
         /\ \A B \in SUBSET Calls :
              [s EXCEPT !.results = [c \in Calls |-> @[c] + IF c \in B THEN 1 ELSE 0]]
                \in AgentStates
         /\ \A E \in SUBSET Ids : [s EXCEPT !.awaiting = E] \in AgentStates
<1>1. /\ s.current \in 0 .. (MaxInteractions + 1)
      /\ s.results \in [Calls -> Nat]
  BY DEF AgentStates
<1>2. s.current <= MaxInteractions => s.current + 1 \in 0 .. (MaxInteractions + 1)
  BY <1>1, ConfigAssumption
<1>3. WithResults(s) \in AgentStates
  <2> DEFINE r == [c \in Calls |-> s.results[c] + IF c \in s.received THEN 1 ELSE 0]
  <2>1. r \in [Calls -> Nat]
    BY <1>1
  <2>2. WithResults(s) = [s EXCEPT !.results = r, !.awaiting = {}, !.received = {}]
    BY DEF WithResults
  <2> HIDE DEF r
  <2> QED
    BY <2>1, <2>2 DEF AgentStates
<1>4. \A B \in SUBSET Calls :
        [s EXCEPT !.results = [c \in Calls |-> @[c] + IF c \in B THEN 1 ELSE 0]]
          \in AgentStates
  BY <1>1 DEF AgentStates
<1> QED
  BY <1>2, <1>3, <1>4 DEF AgentStates

\* Every step leaves the variables well typed.
LEMMA TypeStep == ASSUME TypeInv, [Next]_vars PROVE TypeInv'
<1> USE ToolsAssumption, ConfigAssumption DEF invocation, outside, history, bounds
<1>t. TypeOK /\ CountedBeforeActing
  BY DEF TypeInv
<1>thr. ASSUME phase # "idle", Throw, UNCHANGED <<singleUse, outside, history, bounds>>
        PROVE  TypeInv'
  <2>1. permissions' \in [Restricted -> {"none", "granted", "denied"}]
    BY <1>thr, <1>t DEF Throw, AfterCleanup, Blank, TypeOK
  <2> QED
    BY <1>thr, <1>t, <2>1, LeaveType DEF Throw, TypeInv, TypeOK
<1>start. ASSUME NEW i \in Ids \cup {None}, Start(i), redeliveries' \in 0 .. MaxRedeliveries
          PROVE  TypeInv'
  BY <1>start, <1>t DEF Start, TypeInv, TypeOK, CountedBeforeActing
<1>1. CASE Initiate
  BY <1>1, <1>t, <1>start DEF Initiate, TypeOK
<1>2. ASSUME NEW i \in Ids, Deliver(i) PROVE TypeInv'
  BY <1>2, <1>t, <1>start DEF Deliver, TypeOK
<1>3. ASSUME NEW i \in Ids, Redeliver(i) PROVE TypeInv'
  <2>1. redeliveries' \in 0 .. MaxRedeliveries
    BY <1>3, <1>t DEF Redeliver, TypeOK
  <2> QED
    BY <1>3, <2>1, <1>start DEF Redeliver
<1>4. ASSUME NEW i \in Ids, Answer(i) PROVE TypeInv'
  <2>1. RepliesTo(i) \subseteq Replies
    <3>1. [ok |-> TRUE, granted |-> {}, denied |-> {}] \in Replies
      BY DEF Replies
    <3>2. [ok |-> FALSE, granted |-> {}, denied |-> {}] \in Replies
      BY DEF Replies
    <3> QED
      BY <3>1, <3>2 DEF RepliesTo
  <2>2. replies' \in [Ids -> Replies \cup {None}]
    BY <1>4, <1>t, <2>1 DEF Answer, TypeOK
  <2> QED
    BY <1>4, <1>t, <2>2 DEF Answer, TypeInv, TypeOK, CountedBeforeActing
<1>5. CASE Begin
  BY <1>5, <1>t DEF Begin, TypeInv, TypeOK, CountedBeforeActing
<1>6. CASE Resume
  <2>1. trigger \in Ids
    BY <1>6, <1>t DEF Resume, TypeOK
  <2>2. Recorded(trigger) \in AgentStates /\ WithResults(Recorded(trigger)) \in AgentStates
    BY <2>1, <1>t, StateTypes DEF Recorded, TypeOK
  <2>3. permissions' \in [Restricted -> {"none", "granted", "denied"}]
    BY <1>6, <1>t DEF Resume, AfterSet, TypeOK
  <2>4. grants' \in [Restricted -> Nat]
    BY <1>6, <1>t DEF Resume, TypeOK
  <2>5. CASE Waits(Recorded(trigger))
    BY <1>6, <1>t, <2>2, <2>3, <2>4, <2>5, LeaveType DEF Resume, Suspend, TypeInv, TypeOK
  <2>6. CASE ~Waits(Recorded(trigger))
    BY <1>6, <1>t, <2>2, <2>3, <2>4, <2>6
       DEF Resume, TypeInv, TypeOK, CountedBeforeActing
  <2> QED
    BY <2>5, <2>6
<1>7. ASSUME NEW R \in SUBSET (Calls \ local.used) \ {{}}, Decide(R) PROVE TypeInv'
  <2>1. Prioritized(R) \in SUBSET Calls
    BY DEF Prioritized
  <2>2. local' \in AgentStates
    BY <1>7, <1>t, <2>1, StateTypes DEF Decide, InLoop, TypeOK
  <2>3. local'.current = local.current + 1 /\ local.current \in Nat
    BY <1>7, <1>t DEF Decide, TypeOK, AgentStates
  <2>4. /\ authorization' \in [Restricted -> Verdicts]
        /\ permissions' \in [Restricted -> {"none", "granted", "denied"}]
    BY <1>7, <1>t DEF Decide, Authorization, Verdicts, AfterGet, Blank, TypeOK
  <2>5. llmCalls' \in Nat /\ batch' \in SUBSET Calls /\ CountedBeforeActing'
    BY <1>7, <1>t, <2>1, <2>3 DEF Decide, TypeOK, CountedBeforeActing
  <2> QED
    BY <1>7, <1>t, <2>2, <2>4, <2>5 DEF Decide, TypeInv, TypeOK
<1>8. ASSUME NEW valid \in SUBSET batch, Act(valid) PROVE TypeInv'
  <2> DEFINE approved == {c \in batch : Verdict(c) = "APPROVED"}
             remote   == {c \in approved : ToolOf[c] \in Remote}
             blocked  == {ToolOf[c] : c \in {d \in batch : Verdict(d) = "REQUESTABLE"}}
             emitted  == valid \cup IF blocked = {} THEN {} ELSE {local.current}
             answered == batch \ valid
             state    == [local EXCEPT !.results = [c \in Calls |->
                            @[c] + IF c \in answered THEN 1 ELSE 0]]
  <2>1. batch \in SUBSET Calls /\ local \in AgentStates /\ phase = "acting"
    BY <1>8, <1>t DEF TypeOK, Act
  <2>2. local.current \in Requests
    BY <2>1, <1>t DEF CountedBeforeActing, AgentStates, Requests
  <2>3. emitted \in SUBSET Ids
    BY <2>1, <2>2 DEF Ids
  <2>4. blocked \in SUBSET Restricted
    <3> SUFFICES ASSUME NEW c \in batch, Verdict(c) = "REQUESTABLE"
                 PROVE  ToolOf[c] \in Restricted
      OBVIOUS
    <3> QED
      BY <2>1 DEF Verdict
  <2>5. answered \in SUBSET Calls
    BY <2>1
  <2>6. state \in AgentStates
    BY <2>1, <2>5, StateTypes
  <2>7. [state EXCEPT !.awaiting = emitted] \in AgentStates
    BY <2>3, <2>6, StateTypes
  <2>8. /\ sent' \in SUBSET Ids
        /\ requested' \in [Requests -> SUBSET Restricted]
        /\ runs' \in [Restricted -> Nat]
    <3>1. sent' = sent \cup emitted /\ (requested' = requested \/
                                        requested' = [requested EXCEPT ![local.current] = blocked])
      BY <1>8 DEF Act
    <3>2. runs' \in [Restricted -> Nat]
      BY <1>8, <1>t DEF Act, TypeOK
    <3> QED
      BY <3>1, <3>2, <2>3, <2>4, <1>t DEF TypeOK
  <2>9. UNCHANGED <<singleUse, permissions, replies, grants, llmCalls, bounds>>
    BY <1>8 DEF Act
  <2>10. CASE emitted = {}
    <3>1. /\ local' = state /\ phase' = "calling" /\ batch' = {}
          /\ authorization' = NoVerdict /\ UNCHANGED <<status, saved, trigger>>
      BY <1>8, <2>10 DEF Act
    <3> QED
      BY <3>1, <2>6, <2>8, <2>9, <1>t, NewStateType DEF TypeInv, TypeOK, CountedBeforeActing
  <2>11. CASE emitted # {}
    <3>1. Suspend([state EXCEPT !.awaiting = emitted])
      BY <1>8, <2>11 DEF Act
    <3> QED
      BY <3>1, <2>7, <2>8, <2>9, <1>t, LeaveType DEF Suspend, TypeInv, TypeOK
  <2> QED
    BY <2>10, <2>11
<1>9. CASE OutputRejected
  <2>1. /\ local' = [local EXCEPT !.current = @ + 1] /\ local.current <= MaxInteractions
        /\ local \in AgentStates /\ llmCalls' = llmCalls + 1
    BY <1>9, <1>t DEF OutputRejected, InLoop, TypeOK
  <2>2. local' \in AgentStates
    BY <2>1, StateTypes
  <2> QED
    BY <1>9, <1>t, <2>1, <2>2 DEF OutputRejected, InLoop, TypeInv, TypeOK, CountedBeforeActing
<1>10. CASE Complete
  <2>1. /\ saved' = [local EXCEPT !.current = @ + 1] /\ local.current <= MaxInteractions
        /\ local \in AgentStates /\ llmCalls' = llmCalls + 1
    BY <1>10, <1>t DEF Complete, InLoop, TypeOK
  <2>2. saved' \in AgentStates
    BY <2>1, StateTypes
  <2>3. permissions' \in [Restricted -> {"none", "granted", "denied"}]
    BY <1>10, <1>t DEF Complete, AfterCleanup, Blank, TypeOK
  <2> QED
    BY <1>10, <1>t, <2>1, <2>2, <2>3, LeaveType DEF Complete, TypeInv, TypeOK
<1>11. CASE DecisionFailed \/ Exhausted \/ Fail
  BY <1>11, <1>thr DEF DecisionFailed, Exhausted, Fail
<1>12. CASE Restart
  <2>1. /\ permissions' \in [Restricted -> {"none", "granted", "denied"}]
        /\ restarts' \in 0 .. MaxRestarts
    BY <1>12, <1>t DEF Restart, Blank, TypeOK
  <2> QED
    BY <1>12, <1>t, <2>1, LeaveType DEF Restart, TypeInv, TypeOK
<1>13. CASE UNCHANGED vars
  BY <1>13, <1>t DEF vars, TypeInv, TypeOK, CountedBeforeActing
<1> QED
  BY <1>1, <1>2, <1>3, <1>4, <1>5, <1>6, <1>7, <1>8, <1>9, <1>10, <1>11, <1>12, <1>13
     DEF Next, Invocation

\* The variables keep their types: the interactions never exceed the budget by
\* more than the one in progress, and what is emitted has an id that a reply can
\* be matched to (agentLoop.ts, index.ts:347-401).
THEOREM TypeCorrect == Spec => []TypeOK
<1>1. TypeInv /\ [Next]_vars => TypeInv'
  BY TypeStep
<1>2. TypeInv => TypeOK
  BY DEF TypeInv
<1> QED
  BY TypeInit, <1>1, <1>2, PTL DEF Spec

-----------------------------------------------------------------------------
(* Kinds of steps *)

\* An invocation begins: of a new workflow, or of one that waits for replies.
Starts ==
  /\ \/ Start(None) /\ status = "new"
     \/ \E i \in Ids : Start(i) /\ status = "suspended"
  /\ phase = "idle"

\* An invocation ends with an error.
Throws == phase # "idle" /\ Throw /\ UNCHANGED <<singleUse, outside, history, bounds>>

\* Something happens that does not touch the workflow.
Elsewhere ==
  UNCHANGED <<singleUse, status, saved, invocation, permissions, history, restarts>>

\* Every step begins an invocation, is one of it, ends it, or is elsewhere.
LEMMA StepKinds ==
  ASSUME [Next]_vars
  PROVE  \/ Starts \/ Throws \/ Elsewhere \/ Begin \/ Resume
         \/ \E R \in SUBSET (Calls \ local.used) : Decide(R)
         \/ \E valid \in SUBSET batch : Act(valid)
         \/ OutputRejected \/ Complete \/ Restart
<1>1. ASSUME Next PROVE \/ Initiate \/ \E i \in Ids : Deliver(i) \/ Redeliver(i) \/ Answer(i)
                        \/ Invocation \/ Fail \/ Restart
  BY <1>1 DEF Next
<1>2. CASE Initiate \/ \E i \in Ids : Deliver(i) \/ Redeliver(i)
  BY <1>2 DEF Initiate, Deliver, Redeliver, Starts, Start
<1>3. CASE (\E i \in Ids : Answer(i)) \/ UNCHANGED vars
  BY <1>3 DEF Answer, vars, Elsewhere, bounds
<1>4. CASE DecisionFailed \/ Exhausted \/ Fail
  BY <1>4 DEF DecisionFailed, Exhausted, Fail, Throws
<1>5. CASE Invocation
  BY <1>4, <1>5 DEF Invocation
<1> QED
  BY <1>1, <1>2, <1>3, <1>4, <1>5

\* What acting on a batch does: valid service calls, and a permission request
\* for what is blocked, are emitted; the other calls have their results.
LEMMA ActEffect ==
  ASSUME TypeInv, NEW valid \in SUBSET batch, Act(valid)
  PROVE  \E emitted \in SUBSET Ids :
           LET state == [local EXCEPT !.results = [c \in Calls |->
                           @[c] + IF c \in batch \ valid THEN 1 ELSE 0]]
           IN
           /\ emitted \cap Calls = valid
           /\ \/ /\ emitted = {}
                 /\ local' = state /\ phase' = "calling"
                 /\ UNCHANGED <<status, saved>>
              \/ Suspend([state EXCEPT !.awaiting = emitted])
<1> DEFINE approved == {c \in batch : Verdict(c) = "APPROVED"}
           remote   == {c \in approved : ToolOf[c] \in Remote}
           blocked  == {ToolOf[c] : c \in {d \in batch : Verdict(d) = "REQUESTABLE"}}
           emitted  == valid \cup IF blocked = {} THEN {} ELSE {local.current}
           state    == [local EXCEPT !.results = [c \in Calls |->
                          @[c] + IF c \in batch \ valid THEN 1 ELSE 0]]
<1>1. local.current \in Requests /\ batch \subseteq Calls
  BY DEF Act, TypeInv, TypeOK, CountedBeforeActing, AgentStates, Requests
<1>2. local.current \notin Calls /\ emitted \in SUBSET Ids
  BY <1>1, ToolsAssumption DEF Ids, Requests
<1>3. emitted \cap Calls = valid
  BY <1>1, <1>2
<1>4. IF emitted = {}
      THEN local' = state /\ phase' = "calling" /\ UNCHANGED <<status, saved>>
      ELSE Suspend([state EXCEPT !.awaiting = emitted])
  BY DEF Act
<1> QED
  BY <1>2, <1>3, <1>4

\* A restricted tool runs, or is called, only with the verdict that get gave.
LEMMA ActRuns ==
  ASSUME TypeInv, NEW valid \in SUBSET batch, Act(valid), NEW t \in Restricted
  PROVE  /\ runs'[t] = runs[t] + 1 \/ runs'[t] = runs[t]
         /\ runs'[t] # runs[t] => authorization[t] = "APPROVED"
<1> DEFINE approved == {c \in batch : Verdict(c) = "APPROVED"}
           remote   == {c \in approved : ToolOf[c] \in Remote}
           ran      == {ToolOf[c] : c \in (approved \ remote) \cup valid}
<1>1. valid \subseteq remote /\ runs'[t] = runs[t] + IF t \in ran THEN 1 ELSE 0
  BY DEF Act
<1>2. ASSUME t \in ran PROVE authorization[t] = "APPROVED"
  <2>1. PICK c \in approved : ToolOf[c] = t
    BY <1>1, <1>2
  <2>2. t # None
    BY ToolsAssumption
  <2> QED
    BY <2>1, <2>2 DEF Verdict
<1>3. runs[t] \in Nat
  BY DEF TypeInv, TypeOK
<1> QED
  BY <1>1, <1>2, <1>3

-----------------------------------------------------------------------------
(* Results *)

\* The initial state accounts for all calls: there are none.
LEMMA AccountedInit == Init => LifeCycle /\ Accounted
  BY DEF Init, LifeCycle, Accounted, Consistent, ResultsExcept, Outstanding, NewState

\* Every step keeps the life cycle of invocations.
LEMMA LifeCycleStep == ASSUME LifeCycle, [Next]_vars PROVE LifeCycle'
<1> USE DEF LifeCycle, Leave
<1>1. CASE Starts
  BY <1>1, NoneAssumption DEF Starts, Start
<1>2. CASE Throws
  BY <1>2 DEF Throws, Throw
<1>3. CASE Elsewhere
  BY <1>3 DEF Elsewhere, invocation
<1>4. CASE Begin
  BY <1>4 DEF Begin
<1>5. CASE Resume
  BY <1>5 DEF Resume, Suspend
<1>6. ASSUME NEW R, Decide(R) PROVE LifeCycle'
  BY <1>6 DEF Decide, InLoop
<1>7. ASSUME NEW valid, Act(valid) PROVE LifeCycle'
  <2>1. /\ phase = "acting"
        /\ \/ phase' = "calling" /\ UNCHANGED <<status, saved>>
           \/ phase' = "idle" /\ status' = "suspended"
    BY <1>7 DEF Act, Suspend
  <2> QED
    BY <2>1
<1>8. CASE OutputRejected
  BY <1>8 DEF OutputRejected, InLoop
<1>9. CASE Complete
  BY <1>9 DEF Complete
<1>10. CASE Restart
  BY <1>10 DEF Restart
<1> QED
  BY <1>1, <1>2, <1>3, <1>4, <1>5, <1>6, <1>7, <1>8, <1>9, <1>10, StepKinds

\* Every step accounts for the calls whose results are missing.
LEMMA AccountedStep ==
  ASSUME TypeInv, LifeCycle, Accounted, [Next]_vars PROVE Accounted'
<1>t. TypeOK /\ local \in AgentStates /\ saved \in AgentStates
  BY DEF TypeInv, TypeOK
<1>s. \A s \in AgentStates : s.results \in [Calls -> Nat] /\ s.used \subseteq Calls
  BY DEF AgentStates
<1>l. phase = "preparing" => Consistent(local)
  BY DEF LifeCycle, Accounted
<1>1. CASE Starts
  BY <1>1 DEF Starts, Start, Accounted
<1>2. CASE Throws
  BY <1>2 DEF Throws, Throw, Leave, Accounted
<1>3. CASE Elsewhere
  BY <1>3 DEF Elsewhere, invocation, Accounted
<1>4. CASE Begin
  <2>1. local = NewState /\ phase = "preparing"
    BY <1>4 DEF Begin, LifeCycle
  <2>2. Outstanding(local) = {}
    BY <2>1 DEF NewState, Outstanding
  <2> QED
    BY <1>4, <1>l, <2>1, <2>2 DEF Begin, Accounted
<1>5. CASE Resume
  <2> DEFINE rec == Recorded(trigger)
  <2>1. rec \in AgentStates /\ Consistent(rec)
    <3>1. CASE trigger \in local.awaiting
      <4>1. rec = [local EXCEPT !.awaiting = @ \ {trigger}, !.received = @ \cup {trigger}]
        BY <3>1 DEF Recorded
      <4>2. /\ rec.awaiting = local.awaiting \ {trigger}
            /\ rec.received = local.received \cup {trigger}
            /\ rec.used = local.used /\ rec.results = local.results
        BY <4>1, <1>t DEF AgentStates
      <4>3. Outstanding(rec) = Outstanding(local)
        BY <4>2, <3>1 DEF Outstanding
      <4>4. rec.awaiting \cap rec.received = {}
        BY <4>2, <1>5, <1>l DEF Resume, Consistent
      <4>5. Consistent(rec)
        BY <4>2, <4>3, <4>4, <1>5, <1>l DEF Resume, Consistent, ResultsExcept
      <4>6. trigger \in Ids
        BY <3>1, <1>t DEF AgentStates
      <4> QED
        BY <4>1, <4>5, <4>6, <3>1, <1>t, StateTypes
    <3>2. CASE trigger \notin local.awaiting
      BY <3>2, <1>5, <1>l, <1>t DEF Recorded, Resume
    <3> QED
      BY <3>1, <3>2
  <2>2. CASE Waits(rec)
    <3>1. saved' = rec /\ phase' = "idle"
      BY <1>5, <2>2 DEF Resume, Suspend, Leave
    <3> QED
      BY <2>1, <3>1 DEF Accounted
  <2>3. CASE ~Waits(rec)
    <3>1. local' = WithResults(rec) /\ saved' = saved /\ phase' = "calling"
      BY <1>5, <2>3 DEF Resume
    <3>2. /\ local'.awaiting = {} /\ local'.received = {} /\ local'.used = rec.used
          /\ local'.results = [c \in Calls |->
               rec.results[c] + IF c \in rec.received THEN 1 ELSE 0]
      BY <3>1, <2>1 DEF WithResults, AgentStates
    <3>3. Outstanding(local') = {}
      BY <3>2 DEF Outstanding
    <3>4. ASSUME NEW c \in Calls
          PROVE  local'.results[c] = IF c \in local'.used THEN 1 ELSE 0
      <4>1. rec.results[c] = IF c \in rec.used \ rec.received THEN 1 ELSE 0
        BY <2>1, <2>3 DEF Waits, Consistent, ResultsExcept, Outstanding
      <4>2. c \in rec.received => c \in rec.used
        BY <2>1 DEF Consistent, Outstanding
      <4> QED
        BY <3>2, <4>1, <4>2
    <3>5. Consistent(local')
      BY <3>2, <3>3, <3>4 DEF Consistent, ResultsExcept
    <3> QED
      BY <3>1, <3>3, <3>5 DEF Accounted
  <2> QED
    BY <2>2, <2>3
<1>6. ASSUME NEW R \in SUBSET (Calls \ local.used), Decide(R) PROVE Accounted'
  <2>1. /\ phase = "calling" /\ phase' = "acting" /\ saved' = saved
        /\ batch' = Prioritized(R)
        /\ local'.used = local.used \cup batch' /\ local'.results = local.results
        /\ local'.awaiting = local.awaiting /\ local'.received = local.received
    BY <1>6, <1>t DEF Decide, InLoop, AgentStates
  <2>2. batch' \subseteq Calls \ local.used
    BY <2>1 DEF Prioritized
  <2>3. Outstanding(local)' = {}
    BY <2>1 DEF Outstanding, Accounted
  <2>4. ResultsExcept(local, {})
    BY <2>1 DEF Accounted, Consistent
  <2>5. ResultsExcept(local, batch)'
    BY <2>1, <2>2, <2>4 DEF ResultsExcept
  <2> QED
    BY <2>1, <2>3, <2>5 DEF Accounted
<1>7. ASSUME NEW valid \in SUBSET batch, Act(valid) PROVE Accounted'
  <2> DEFINE state == [local EXCEPT !.results = [c \in Calls |->
                         @[c] + IF c \in batch \ valid THEN 1 ELSE 0]]
  <2>1. PICK emitted \in SUBSET Ids :
          /\ emitted \cap Calls = valid
          /\ \/ emitted = {} /\ local' = state /\ phase' = "calling" /\ saved' = saved
             \/ Suspend([state EXCEPT !.awaiting = emitted])
    BY <1>7, ActEffect
  <2>2. /\ Outstanding(local) = {} /\ batch \subseteq local.used
        /\ ResultsExcept(local, batch)
    BY <1>7 DEF Act, Accounted
  <2>3. /\ state.used = local.used
        /\ state.awaiting = local.awaiting /\ state.received = local.received
        /\ state.results = [c \in Calls |->
             local.results[c] + IF c \in batch \ valid THEN 1 ELSE 0]
    BY <1>t DEF AgentStates
  <2>4. ResultsExcept(state, valid)
    BY <2>2, <2>3 DEF ResultsExcept
  <2> HIDE DEF state
  <2>5. CASE emitted = {} /\ local' = state /\ phase' = "calling" /\ saved' = saved
    <3>1. Outstanding(state) = {} /\ valid = {}
      BY <2>1, <2>2, <2>3, <2>5 DEF Outstanding
    <3>2. Consistent(state)
      BY <2>3, <2>4, <3>1 DEF Consistent, Outstanding
    <3> QED
      BY <2>5, <3>1, <3>2 DEF Accounted
  <2>6. CASE Suspend([state EXCEPT !.awaiting = emitted])
    <3>1. saved' = [state EXCEPT !.awaiting = emitted] /\ phase' = "idle"
      BY <2>6 DEF Suspend, Leave
    <3>2. /\ saved'.awaiting = emitted /\ saved'.received = {}
          /\ saved'.used = state.used /\ saved'.results = state.results
      BY <1>t, <2>2, <2>3, <3>1 DEF Outstanding, AgentStates, state
    <3>3. Outstanding(saved') = emitted
      BY <3>2 DEF Outstanding
    <3>4. Consistent(saved')
      BY <2>1, <2>2, <2>3, <2>4, <3>2, <3>3 DEF Consistent, ResultsExcept
    <3> QED
      BY <3>1, <3>4 DEF Accounted
  <2> QED
    BY <2>1, <2>5, <2>6
<1>8. CASE OutputRejected
  <2>1. /\ phase = "calling" /\ phase' = "calling" /\ saved' = saved
        /\ local'.used = local.used /\ local'.results = local.results
        /\ local'.awaiting = local.awaiting /\ local'.received = local.received
    BY <1>8, <1>t DEF OutputRejected, InLoop, AgentStates
  <2> QED
    BY <2>1 DEF Accounted, Consistent, Outstanding, ResultsExcept
<1>9. CASE Complete
  <2>1. /\ phase = "calling" /\ phase' = "idle"
        /\ saved'.used = local.used /\ saved'.results = local.results
        /\ saved'.awaiting = local.awaiting /\ saved'.received = local.received
    BY <1>9, <1>t DEF Complete, InLoop, Leave, AgentStates
  <2> QED
    BY <2>1 DEF Accounted, Consistent, Outstanding, ResultsExcept
<1>10. CASE Restart
  BY <1>10 DEF Restart, Leave, Accounted
<1> QED
  BY <1>1, <1>2, <1>3, <1>4, <1>5, <1>6, <1>7, <1>8, <1>9, <1>10, StepKinds

\* The model is never called with a tool call that has no result, or two: for
\* any batches, verdicts, orders and repetitions of the replies, and restarts
\* (agentLoop.ts:188-440, index.ts:347-401).
THEOREM ResultsAreComplete == Spec => []EveryCallAnsweredOnce
<1>1. TypeInv /\ LifeCycle /\ Accounted /\ [Next]_vars => (TypeInv /\ LifeCycle /\ Accounted)'
  BY TypeStep, LifeCycleStep, AccountedStep
<1>2. Accounted => EveryCallAnsweredOnce
  BY DEF Accounted, EveryCallAnsweredOnce, InLoop, Consistent, ResultsExcept
<1> QED
  BY TypeInit, AccountedInit, <1>1, <1>2, PTL DEF Spec

-----------------------------------------------------------------------------
(* Permissions *)

\* At first nothing is granted, and nothing has run.
LEMMA CoveredInit == Init => PermissionsCovered
  BY DEF Init, PermissionsCovered, Granted, Drained, Blank

\* Every step keeps the permissions in force, and the batches that have run,
\* covered by grants.
LEMMA CoveredStep ==
  ASSUME TypeInv, PermissionsCovered, [Next]_vars PROVE PermissionsCovered'
<1>t. TypeOK /\ \A t \in Restricted : runs[t] \in Nat /\ grants[t] \in Nat
  BY DEF TypeInv, TypeOK
\* A step that grants nothing and runs nothing.
<1>q. ASSUME UNCHANGED <<singleUse, runs, grants>>,
             \A t \in Restricted : Granted(t)' => Granted(t),
             \A t \in Restricted : Drained(t)' => Drained(t)
      PROVE  PermissionsCovered'
  BY <1>q, <1>t DEF PermissionsCovered
<1> USE DEF history
<1>1. CASE Starts
  BY <1>1, <1>q DEF Starts, Start, Granted, Drained
<1>2. CASE Throws
  BY <1>2, <1>q DEF Throws, Throw, AfterCleanup, Blank, Leave, Granted, Drained
<1>3. CASE Elsewhere
  BY <1>3, <1>q DEF Elsewhere, invocation, Granted, Drained
<1>4. CASE Begin
  BY <1>4, <1>q DEF Begin, Granted, Drained
<1>5. CASE Resume
  <2>1. /\ singleUse' = singleUse /\ runs' = runs
        /\ \A t \in Restricted : ~Drained(t) /\ ~Drained(t)'
    BY <1>5 DEF Resume, Suspend, Leave, Drained
  <2>2. CASE ~IsDecision(trigger)
    BY <1>5, <2>1, <2>2, <1>q DEF Resume, Granted
  <2>3. CASE IsDecision(trigger)
    <3> SUFFICES ASSUME NEW t \in Restricted
                 PROVE  /\ Granted(t)' \/ Drained(t)' \/ runs'[t] > 0 => grants'[t] > 0
                        /\ singleUse' =>
                             runs'[t] + (IF Granted(t)' THEN 1 ELSE 0)
                               + (IF Drained(t)' THEN 1 ELSE 0) <= grants'[t]
      BY DEF PermissionsCovered
    <3> DEFINE now == t \in replies[trigger].granted \ replies[trigger].denied
    <3>1. grants'[t] = grants[t] + IF now THEN 1 ELSE 0
      BY <1>5, <2>3 DEF Resume
    <3>2. Granted(t)' => now \/ Granted(t)
      BY <1>5, <2>3 DEF Resume, AfterSet, Granted
    <3>3. /\ Granted(t) \/ runs[t] > 0 => grants[t] > 0
          /\ singleUse => runs[t] + (IF Granted(t) THEN 1 ELSE 0) <= grants[t]
      BY <2>1, <1>t DEF PermissionsCovered
    <3> HIDE DEF now
    <3> QED
      BY <2>1, <3>1, <3>2, <3>3, <1>t
  <2> QED
    BY <2>2, <2>3
<1>6. ASSUME NEW R \in SUBSET (Calls \ local.used), Decide(R) PROVE PermissionsCovered'
  <2>1. /\ UNCHANGED <<singleUse, runs, grants>>
        /\ phase = "calling" /\ phase' = "acting"
        /\ authorization' = [t \in Restricted |-> Authorization(t)]
        /\ permissions' = AfterGet
    BY <1>6 DEF Decide, InLoop
  <2>2. ASSUME NEW t \in Restricted
        PROVE  /\ ~Drained(t)
               /\ Drained(t)' <=> Granted(t)
               /\ Granted(t)' => Granted(t)
               /\ singleUse => ~Granted(t)'
    BY <2>1 DEF Drained, Granted, Authorization, AfterGet, Blank
  <2> QED
    BY <2>1, <2>2, <1>t DEF PermissionsCovered
<1>7. ASSUME NEW valid \in SUBSET batch, Act(valid) PROVE PermissionsCovered'
  <2>1. /\ UNCHANGED <<singleUse, grants, permissions>>
        /\ phase = "acting" /\ phase' # "acting"
    BY <1>7 DEF Act, Suspend, Leave
  <2>2. ASSUME NEW t \in Restricted
        PROVE  /\ runs'[t] = runs[t] \/ (runs'[t] = runs[t] + 1 /\ Drained(t))
               /\ ~Drained(t)'
               /\ Granted(t)' <=> Granted(t)
    BY <1>7, <2>1, ActRuns DEF Drained, Granted
  <2> QED
    BY <2>1, <2>2, <1>t DEF PermissionsCovered
<1>8. CASE OutputRejected
  BY <1>8, <1>q DEF OutputRejected, Granted, Drained
<1>9. CASE Complete
  BY <1>9, <1>q DEF Complete, AfterCleanup, Blank, Leave, Granted, Drained
<1>10. CASE Restart
  BY <1>10, <1>q DEF Restart, Blank, Leave, Granted, Drained
<1> QED
  BY <1>1, <1>2, <1>3, <1>4, <1>5, <1>6, <1>7, <1>8, <1>9, <1>10, StepKinds

\* A restricted tool never runs without a grant, and no single-use grant serves
\* two batches, whatever else is decided, repeated or lost in between
\* (SimplePermissionManager get and set, agentLoop.ts:188-330).
THEOREM RunsArePermitted == Spec => []PermittedRuns
<1>1. TypeInv /\ PermissionsCovered /\ [Next]_vars => (TypeInv /\ PermissionsCovered)'
  BY TypeStep, CoveredStep
<1>2. TypeInv /\ PermissionsCovered => PermittedRuns
  <2> SUFFICES ASSUME TypeInv, PermissionsCovered, NEW t \in Restricted
               PROVE  /\ runs[t] > 0 => grants[t] > 0
                      /\ singleUse => runs[t] <= grants[t]
    BY DEF PermittedRuns
  <2>1. runs[t] \in Nat /\ grants[t] \in Nat
    BY DEF TypeInv, TypeOK
  <2> QED
    BY <2>1 DEF PermissionsCovered
<1> QED
  BY TypeInit, CoveredInit, <1>1, <1>2, PTL DEF Spec

\* A workflow that has ended leaves no permission behind, on whichever way it
\* ended (AfterCleanup on output and on every error, index.ts).
THEOREM NothingLeftBehind == Spec => []PermissionsCleared
<1>1. Init => PermissionsCleared
  BY DEF Init, PermissionsCleared
<1>2. ASSUME LifeCycle, PermissionsCleared, [Next]_vars PROVE PermissionsCleared'
  <2> USE <1>2 DEF PermissionsCleared, LifeCycle, Leave
  <2>1. CASE Starts
    BY <2>1 DEF Starts, Start
  <2>2. CASE Throws
    BY <2>2 DEF Throws, Throw, AfterCleanup
  <2>3. CASE Elsewhere
    BY <2>3 DEF Elsewhere
  <2>4. CASE Begin
    BY <2>4 DEF Begin
  <2>5. CASE Resume
    BY <2>5 DEF Resume, Suspend
  <2>6. ASSUME NEW R, Decide(R) PROVE PermissionsCleared'
    BY <2>6 DEF Decide, InLoop
  <2>7. ASSUME NEW valid, Act(valid) PROVE PermissionsCleared'
    <3>1. phase = "acting" /\ (status' = status \/ status' = "suspended")
      BY <2>7 DEF Act, Suspend
    <3> QED
      BY <3>1
  <2>8. CASE OutputRejected
    BY <2>8 DEF OutputRejected, InLoop
  <2>9. CASE Complete
    BY <2>9 DEF Complete, AfterCleanup
  <2>10. CASE Restart
    BY <2>10 DEF Restart
  <2> QED
    BY <2>1, <2>2, <2>3, <2>4, <2>5, <2>6, <2>7, <2>8, <2>9, <2>10, StepKinds
<1>3. LifeCycle /\ PermissionsCleared /\ [Next]_vars => (LifeCycle /\ PermissionsCleared)'
  BY <1>2, LifeCycleStep
<1> QED
  BY AccountedInit, <1>1, <1>3, PTL DEF Spec

-----------------------------------------------------------------------------
(* The budget *)

\* Every step counts the responses of the model in the state in force.
LEMMA CountedStep ==
  ASSUME TypeInv, LifeCycle, CountedInteractions, [Next]_vars PROVE CountedInteractions'
<1>t. /\ local.current \in 0 .. (MaxInteractions + 1)
      /\ saved.current \in 0 .. (MaxInteractions + 1)
      /\ local \in AgentStates
      /\ llmCalls \in Nat /\ restarts \in Nat /\ MaxInteractions \in Nat
  BY ConfigAssumption DEF TypeInv, TypeOK, AgentStates
<1> USE DEF CountedInteractions, CurrentState, history, bounds
\* A step that keeps the count, or ends the workflow.
<1>q. ASSUME llmCalls' = llmCalls, restarts' = restarts,
             status \in {"new", "suspended"},
             status' \in {"new", "suspended"} => CurrentState'.current = CurrentState.current
      PROVE  CountedInteractions'
  BY <1>q
<1>1. CASE Starts
  BY <1>1, <1>q DEF Starts, Start, LifeCycle
<1>2. CASE Throws
  BY <1>2, <1>q DEF Throws, Throw, LifeCycle
<1>3. CASE Elsewhere
  BY <1>3 DEF Elsewhere, invocation
<1>4. CASE Begin
  BY <1>4, <1>q DEF Begin, LifeCycle
<1>5. CASE Resume
  <2>1. /\ phase = "preparing" /\ phase' \in {"idle", "calling"}
        /\ llmCalls' = llmCalls /\ restarts' = restarts
        /\ phase' = "idle" => saved' = Recorded(trigger)
        /\ phase' = "calling" => local' = WithResults(Recorded(trigger))
    BY <1>5 DEF Resume, Suspend, Leave
  <2>2. Recorded(trigger).current = local.current
    BY <1>t DEF Recorded, AgentStates
  <2>3. WithResults(Recorded(trigger)).current = local.current
    <3>1. Recorded(trigger) \in [current  : 0 .. (MaxInteractions + 1), used : SUBSET Calls,
                                 results  : [Calls -> Nat],
                                 awaiting : SUBSET Ids, received : SUBSET (Ids \cup {trigger})]
      BY <1>t DEF Recorded, AgentStates
    <3> QED
      BY <2>2, <3>1 DEF WithResults
  <2> QED
    BY <2>1, <2>2, <2>3, <1>q DEF LifeCycle
<1>6. ASSUME NEW R, Decide(R) PROVE CountedInteractions'
  <2>1. /\ phase = "calling" /\ local.current <= MaxInteractions /\ phase' = "acting"
        /\ local'.current = local.current + 1
        /\ llmCalls' = llmCalls + 1 /\ restarts' = restarts /\ status' = status
    BY <1>6, <1>t DEF Decide, InLoop, AgentStates
  <2> QED
    BY <2>1, <1>t DEF LifeCycle
<1>7. ASSUME NEW valid \in SUBSET batch, Act(valid) PROVE CountedInteractions'
  <2> DEFINE state == [local EXCEPT !.results = [c \in Calls |->
                         @[c] + IF c \in batch \ valid THEN 1 ELSE 0]]
  <2>1. PICK emitted \in SUBSET Ids :
          \/ local' = state /\ phase' = "calling"
          \/ Suspend([state EXCEPT !.awaiting = emitted])
    BY <1>7, ActEffect
  <2>2. /\ state.current = local.current
        /\ [state EXCEPT !.awaiting = emitted].current = local.current
    BY <1>t DEF AgentStates
  <2>3. phase = "acting" /\ llmCalls' = llmCalls /\ restarts' = restarts
    BY <1>7 DEF Act
  <2> HIDE DEF state
  <2>4. CurrentState'.current = local.current
    BY <2>1, <2>2 DEF Suspend, Leave
  <2> QED
    BY <2>3, <2>4, <1>q DEF LifeCycle
<1>8. CASE OutputRejected
  <2>1. /\ phase = "calling" /\ local.current <= MaxInteractions /\ phase' = "calling"
        /\ local'.current = local.current + 1
        /\ llmCalls' = llmCalls + 1 /\ restarts' = restarts /\ status' = status
    BY <1>8, <1>t DEF OutputRejected, InLoop, AgentStates
  <2> QED
    BY <2>1, <1>t DEF LifeCycle
<1>9. CASE Complete
  <2>1. /\ phase = "calling" /\ local.current <= MaxInteractions
        /\ llmCalls' = llmCalls + 1 /\ restarts' = restarts /\ status' = "done"
    BY <1>9 DEF Complete, InLoop
  <2> QED
    BY <2>1, <1>t DEF LifeCycle
<1>10. CASE Restart
  <2>1. restarts' # 0
    BY <1>10, <1>t DEF Restart
  <2> QED
    BY <2>1
<1> QED
  BY <1>1, <1>2, <1>3, <1>4, <1>5, <1>6, <1>7, <1>8, <1>9, <1>10, StepKinds

\* For any maxToolInteractions, and any number of suspensions and resumptions,
\* the model is asked at most once more than that (agentLoop.ts:107).
THEOREM BudgetHolds == Spec => []InteractionsBounded
<1> DEFINE Inv == TypeInv /\ LifeCycle /\ CountedInteractions
<1>1. Init => CountedInteractions
  BY ConfigAssumption DEF Init, CountedInteractions, CurrentState, NewState
<1>2. Inv /\ [Next]_vars => Inv'
  BY TypeStep, LifeCycleStep, CountedStep
<1>3. Inv => InteractionsBounded
  BY DEF CountedInteractions, InteractionsBounded
<1> QED
  BY TypeInit, AccountedInit, <1>1, <1>2, <1>3, PTL DEF Spec
=============================================================================
