-------------------------- MODULE MCPClientProofs --------------------------
(***************************************************************************)
(* Proofs about MCPClient, for any number of executions, tool calls and    *)
(* versions of the list of tools.                                          *)
(*                                                                         *)
(* The argument: an execution that is not in overlapped has been alone     *)
(* from its connect on (Alone), so that nobody replaces, resets or closes  *)
(* what it uses (Holds); and at each point of its way out its session is   *)
(* closed or is the one that disconnect is going to close (Ends).          *)
(***************************************************************************)
EXTENDS MCPClient, TLAPS

\* While an execution that was never overlapped is in progress, no other is.
Alone ==
  \A e \in InProgress \ overlapped : InProgress = {e}

\* What an undisturbed execution relies on.
Holds(e) ==
  /\ pc[e] \in {"connecting", "listing", "connected", "ready", "calling"} => client = e
  /\ pc[e] \in {"connected", "ready", "calling"} =>
       /\ isConnected
       /\ availableTools = listed[e]
       /\ listed[e] # Nothing
  /\ pc[e] \in {"ready", "calling"} => tools[e] = listed[e]
  /\ pc[e] \in {"listing", "calling"} => target[e] = e

\* Where the session of an undisturbed execution gets closed, unless its
\* listing or its closing fails.
Ends(e) ==
  /\ pc[e] = "new" => session[e] # "open"
  /\ pc[e] = "leaving" /\ session[e] = "open" => e \in stranded \/ (client = e /\ isConnected)
  /\ pc[e] = "closing" /\ session[e] = "open" => e \in stranded \/ target[e] = e
  /\ pc[e] = "done" /\ session[e] = "open" => e \in stranded

ClientInv ==
  /\ TypeOK
  /\ Alone
  /\ \A e \in Executions \ overlapped : Holds(e) /\ Ends(e)

-----------------------------------------------------------------------------
\* The initial state is well typed.
LEMMA TypeInit == Init => TypeOK
<1> SUFFICES ASSUME Init PROVE TypeOK
  OBVIOUS
<1>1. 1 \in Versions /\ 0 \in 0 .. MaxCalls
  BY MCPAssumption DEF Versions
<1>2. calls \in [Executions -> 0 .. MaxCalls]
  BY <1>1 DEF Init
<1> QED
  BY <1>1, <1>2 DEF Init, TypeOK, Nothing

\* Every step leaves the variables well typed.
LEMMA TypeStep == ASSUME TypeOK, [Next]_vars PROVE TypeOK'
<1> USE MCPAssumption DEF TypeOK, Versions, Nothing, shared, history
<1>1. ASSUME NEW e \in Executions, Execution(e) PROVE TypeOK'
  <2>1. CASE Connect(e)
    BY <2>1 DEF Connect, Enter, InProgress, NewClient
  <2>2. CASE ConfigFails(e)
    BY <2>2 DEF ConfigFails, ConnectThrows, Enter, InProgress
  <2>3. CASE HandshakeFails(e)
    BY <2>3 DEF HandshakeFails, ConnectThrows
  <2>4. CASE List(e)
    BY <2>4 DEF List, Opened
  <2>5. CASE NoClientToList(e)
    BY <2>5 DEF NoClientToList, ConnectThrows, Opened
  <2>6. CASE ListDone(e)
    BY <2>6 DEF ListDone
  <2>7. CASE ListFails(e)
    BY <2>7 DEF ListFails, ConnectThrows
  <2>8. CASE GetTools(e)
    BY <2>8 DEF GetTools, Retrieved
  <2>9. CASE Invoke(e)
    BY <2>9 DEF Invoke
  <2>10. CASE InvokeReturns(e)
    BY <2>10 DEF InvokeReturns
  <2>11. CASE Leave(e)
    BY <2>11 DEF Leave
  <2>12. CASE Disconnect(e)
    BY <2>12 DEF Disconnect, Closes
  <2>13. CASE CloseSession(e)
    BY <2>13 DEF CloseSession, Closed
  <2>14. CASE Reset(e)
    BY <2>14 DEF Reset, EmptyList
  <2>15. CASE CloseFails(e)
    BY <2>15 DEF CloseFails
  <2> QED
    BY <1>1, <2>1, <2>2, <2>3, <2>4, <2>5, <2>6, <2>7, <2>8, <2>9, <2>10, <2>11, <2>12,
       <2>13, <2>14, <2>15 DEF Execution
<1>2. ASSUME NEW e \in Executions, Lose(e) PROVE TypeOK'
  BY <1>2 DEF Lose
<1>3. CASE Upgrade
  BY <1>3 DEF Upgrade
<1>4. CASE UNCHANGED vars
  BY <1>4 DEF vars
<1> QED
  BY <1>1, <1>2, <1>3, <1>4 DEF Next

\* The variables keep their types, in any interleaving of the executions: the
\* list of tools is a list again after each disconnect (MCPClient.ts:270-275).
THEOREM TypeCorrect == Spec => []TypeOK
<1>1. TypeOK /\ [Next]_vars => TypeOK'
  BY TypeStep
<1> QED
  BY TypeInit, <1>1, PTL DEF Spec

-----------------------------------------------------------------------------
\* The initial state satisfies the invariant.
LEMMA ClientInit == Init => ClientInv
  BY TypeInit DEF Init, ClientInv, Alone, InProgress, Holds, Ends

\* One execution at a time is alone: the others are overlapped by it, or it by
\* them.
LEMMA AloneStep == ASSUME ClientInv, [Next]_vars PROVE Alone'
<1> USE DEF ClientInv, Alone, InProgress, TypeOK
<1>1. ASSUME NEW e \in Executions, Enter(e), pc' = [pc EXCEPT ![e] = "connecting"] \/
                                            pc' = [pc EXCEPT ![e] = "leaving"]
      PROVE Alone'
  BY <1>1 DEF Enter
<1>2. ASSUME NEW e \in Executions, pc[e] \notin {"new", "done"},
             NEW s \in {"connecting", "listing", "connected", "ready", "calling", "leaving",
                        "closing", "done"},
             pc' = [pc EXCEPT ![e] = s], overlapped' = overlapped
      PROVE Alone'
  BY <1>2
<1>3. ASSUME pc' = pc, overlapped' = overlapped PROVE Alone'
  BY <1>3
<1>4. ASSUME NEW e \in Executions, Execution(e) PROVE Alone'
  <2>1. CASE Connect(e)
    BY <2>1, <1>1 DEF Connect
  <2>2. CASE ConfigFails(e)
    BY <2>2, <1>1 DEF ConfigFails, ConnectThrows
  <2>3. CASE HandshakeFails(e) \/ List(e) \/ NoClientToList(e) \/ ListDone(e) \/ ListFails(e)
    BY <2>3, <1>2
       DEF HandshakeFails, List, NoClientToList, ListDone, ListFails, ConnectThrows, history
  <2>4. CASE GetTools(e) \/ InvokeReturns(e) \/ Leave(e) \/ Disconnect(e)
    BY <2>4, <1>2 DEF GetTools, InvokeReturns, Leave, Disconnect, history
  <2>5. CASE Invoke(e)
    BY <2>5, <1>2, <1>3 DEF Invoke, history
  <2>6. CASE CloseSession(e)
    BY <2>6, <1>3 DEF CloseSession, history
  <2>7. CASE Reset(e) \/ CloseFails(e)
    BY <2>7, <1>2 DEF Reset, CloseFails, history
  <2> QED
    BY <1>4, <2>1, <2>2, <2>3, <2>4, <2>5, <2>6, <2>7 DEF Execution
<1>5. CASE Upgrade \/ UNCHANGED vars
  BY <1>5, <1>3 DEF Upgrade, vars, history
<1>6. ASSUME NEW e \in Executions, Lose(e) PROVE Alone'
  BY <1>6, <1>3 DEF Lose, history
<1> QED
  BY <1>4, <1>5, <1>6 DEF Next

\* What an execution does leaves those alone that have not begun or are over:
\* nothing of theirs is used, and their sessions are not opened.
LEMMA Bystander ==
  ASSUME ClientInv, NEW f \in Executions, NEW e \in Executions \ {f}, e \notin overlapped',
         overlapped \subseteq overlapped', stranded \subseteq stranded',
         f \in InProgress \/ InProgress \subseteq overlapped',
         pc'[e] = pc[e], session'[e] = "open" => session[e] = "open"
  PROVE  Holds(e)' /\ Ends(e)'
  BY DEF ClientInv, Alone, InProgress, Holds, Ends, TypeOK

\* Every step keeps what undisturbed executions rely on.
LEMMA UndisturbedStep ==
  ASSUME ClientInv, [Next]_vars, NEW e \in Executions, e \notin overlapped'
  PROVE  Holds(e)' /\ Ends(e)'
<1> DEFINE Goal == Holds(e)' /\ Ends(e)'
<1>t. TypeOK /\ TypeOK'
  BY TypeStep DEF ClientInv
<1>h. e \in overlapped \/ (Holds(e) /\ Ends(e))
  BY DEF ClientInv
<1>1. ASSUME Execution(e) PROVE Goal
  <2> USE <1>h, <1>t, MCPAssumption DEF TypeOK, Holds, Ends, shared, history
  <2>1. CASE Connect(e)
    BY <2>1 DEF Connect, Enter, NewClient
  <2>2. CASE ConfigFails(e)
    BY <2>2 DEF ConfigFails, ConnectThrows, Enter
  <2>3. CASE HandshakeFails(e)
    BY <2>3 DEF HandshakeFails, ConnectThrows
  <2>4. CASE List(e)
    BY <2>4 DEF List, Opened
  <2>5. CASE NoClientToList(e)
    BY <2>5 DEF NoClientToList, ConnectThrows, Opened
  <2>6. CASE ListDone(e)
    BY <2>6 DEF ListDone, Versions, Nothing
  <2>7. CASE ListFails(e)
    BY <2>7 DEF ListFails, ConnectThrows
  <2>8. CASE GetTools(e)
    BY <2>8 DEF GetTools, Retrieved
  <2>9. CASE Invoke(e)
    BY <2>9 DEF Invoke
  <2>10. CASE InvokeReturns(e)
    BY <2>10 DEF InvokeReturns
  <2>11. CASE Leave(e)
    BY <2>11 DEF Leave
  <2>12. CASE Disconnect(e)
    BY <2>12 DEF Disconnect, Closes
  <2>13. CASE CloseSession(e)
    BY <2>13 DEF CloseSession, Closed
  <2>14. CASE Reset(e)
    BY <2>14 DEF Reset
  <2>15. CASE CloseFails(e)
    BY <2>15 DEF CloseFails
  <2> QED
    BY <1>1, <2>1, <2>2, <2>3, <2>4, <2>5, <2>6, <2>7, <2>8, <2>9, <2>10, <2>11, <2>12,
       <2>13, <2>14, <2>15 DEF Execution
<1>2. ASSUME NEW f \in Executions \ {e}, Execution(f) PROVE Goal
  <2>1. CASE Connect(f) \/ ConfigFails(f)
    <3>1. overlapped \subseteq overlapped' /\ InProgress \subseteq overlapped'
      BY <2>1 DEF Connect, ConfigFails, Enter
    <3>2. stranded' = stranded /\ pc'[e] = pc[e] /\ session'[e] = session[e]
      BY <2>1, <1>t DEF Connect, ConfigFails, ConnectThrows, TypeOK
    <3> QED
      BY <3>1, <3>2, Bystander
  <2>2. CASE ~(Connect(f) \/ ConfigFails(f))
    <3>1. f \in InProgress
      BY <1>2, <2>2
         DEF Execution, HandshakeFails, List, NoClientToList, ListDone, ListFails, GetTools,
             Invoke, InvokeReturns, Leave, Disconnect, CloseSession, Reset, CloseFails,
             InProgress
    <3>2. overlapped' = overlapped /\ stranded \subseteq stranded'
      BY <1>2, <2>2
         DEF Execution, HandshakeFails, List, NoClientToList, ListDone, ListFails, GetTools,
             Invoke, InvokeReturns, Leave, Disconnect, CloseSession, Reset, CloseFails,
             history
    <3>3. pc'[e] = pc[e]
      BY <1>2, <2>2, <1>t
         DEF Execution, HandshakeFails, List, NoClientToList, ListDone, ListFails, GetTools,
             Invoke, InvokeReturns, Leave, Disconnect, CloseSession, Reset, CloseFails,
             ConnectThrows, TypeOK
    <3>4. session'[e] = "open" => session[e] = "open"
      BY <1>2, <2>2, <1>t
         DEF Execution, HandshakeFails, List, NoClientToList, ListDone, ListFails, GetTools,
             Invoke, InvokeReturns, Leave, Disconnect, CloseSession, Reset, CloseFails,
             Opened, Closed, TypeOK
    <3> QED
      BY <3>1, <3>2, <3>3, <3>4, Bystander
  <2> QED
    BY <2>1, <2>2
<1>3. ASSUME NEW f \in Executions, Lose(f) PROVE Goal
  BY <1>3, <1>h, <1>t DEF Lose, Holds, Ends, shared, history, TypeOK
<1>4. CASE Upgrade \/ UNCHANGED vars
  BY <1>4, <1>h DEF Upgrade, vars, Holds, Ends, shared, history
<1> QED
  BY <1>1, <1>2, <1>3, <1>4 DEF Next

\* The invariant holds in every reachable state.
LEMMA ClientInvariant == Spec => []ClientInv
<1>1. ClientInv /\ [Next]_vars => ClientInv'
  BY TypeStep, AloneStep, UndisturbedStep DEF ClientInv
<1> QED
  BY ClientInit, <1>1, PTL DEF Spec

\* For any number of executions before it, and whatever they left behind, an
\* execution that is alone is offered the list that its own connect got and
\* calls its tools over its own session (MCPClient.ts:97-139).
THEOREM Fresh == Spec => []FreshStart
<1>1. ClientInv => FreshStart
  BY DEF ClientInv, FreshStart, Holds
<1> QED
  BY ClientInvariant, <1>1, PTL

\* An execution leaves its session open only if it was overlapped, or its
\* listing or its closing failed (MCPClient.ts:265-277).
THEOREM Ended == Spec => []SessionsEnd
<1>1. ClientInv => SessionsEnd
  BY DEF ClientInv, SessionsEnd, Ends
<1> QED
  BY ClientInvariant, <1>1, PTL
=============================================================================
