----------------------------- MODULE MCPClient -----------------------------
(***************************************************************************)
(* The connection of an agent to an MCP server (agentic/src/Integrations/  *)
(* MCPClient.ts) as the executions of the agent use it (Agent/index.ts:    *)
(* each connects, reads the tools, calls them from its loop and            *)
(* disconnects).  One MCPClient serves all executions of the agent; they   *)
(* interleave at every await.                                              *)
(*                                                                         *)
(* Data abstraction: an SDK client and its transport session are named by  *)
(* the execution whose connect created them.  A list of tools is known by  *)
(* its version on the server, Nothing standing for the empty list.  An     *)
(* execution has one tool call in progress at a time.                      *)
(*                                                                         *)
(* The SDK (external): connect opens the session and closes it again when  *)
(* the handshake fails; a request over a session that is not open fails;   *)
(* closing a session fails its pending requests.                           *)
(***************************************************************************)
EXTENDS Naturals

CONSTANTS
  Executions,      \* executions of the agent, each of one event
  MaxVersion,      \* bound: versions of the list of tools
  MaxCalls,        \* bound: tool calls of an execution
  None

ASSUME MCPAssumption ==
  /\ None \notin Executions
  /\ MaxVersion \in Nat \ {0}
  /\ MaxCalls \in Nat

Nothing == 0
Versions == 1 .. MaxVersion

VARIABLES
  client,          \* whose SDK client this.client is, or None
  isConnected,
  availableTools,
  session,         \* "none", "handshaking", "open" or "closed"
  version,         \* of the list of tools on the server
  pc,              \* where each execution is
  target,          \* whose client the request in progress goes to, or None
  tools,           \* the MCP tools the execution offers its model
  calls,
  listed,          \* history: the list connect got
  overlapped,      \* history: executions that were not alone
  stranded         \* history: executions whose listing or closing failed

shared == <<client, isConnected, availableTools>>
history == <<listed, overlapped, stranded>>
vars == <<shared, session, version, pc, target, tools, calls, history>>

InProgress == {e \in Executions : pc[e] \notin {"new", "done"}}

TypeOK ==
  /\ client \in Executions \cup {None}
  /\ isConnected \in BOOLEAN
  /\ availableTools \in Versions \cup {Nothing}
  /\ session \in [Executions -> {"none", "handshaking", "open", "closed"}]
  /\ version \in Versions
  /\ pc \in [Executions -> {"new", "connecting", "listing", "connected", "ready",
                            "calling", "leaving", "closing", "done"}]
  /\ target \in [Executions -> Executions \cup {None}]
  /\ tools \in [Executions -> Versions \cup {Nothing}]
  /\ calls \in [Executions -> 0 .. MaxCalls]
  /\ listed \in [Executions -> Versions \cup {Nothing}]
  /\ overlapped \in SUBSET Executions
  /\ stranded \in SUBSET Executions

Init ==
  /\ client = None
  /\ isConnected = FALSE
  /\ availableTools = Nothing
  /\ session = [e \in Executions |-> "none"]
  /\ version = 1
  /\ pc = [e \in Executions |-> "new"]
  /\ target = [e \in Executions |-> None]
  /\ tools = [e \in Executions |-> Nothing]
  /\ calls = [e \in Executions |-> 0]
  /\ listed = [e \in Executions |-> Nothing]
  /\ overlapped = {}
  /\ stranded = {}

-----------------------------------------------------------------------------
(* connect *)

\* Variant: a client that is there is used again.
KeptClient(e) == IF client = None THEN e ELSE client

\* Every connect makes a client of its own.
NewClient(e) == e

\* An execution begins; those in progress together are not alone.
Enter(e) ==
  /\ pc[e] = "new"
  /\ overlapped' = overlapped \cup IF InProgress = {} THEN {} ELSE InProgress \cup {e}

\* The client is replaced, whoever uses it; the rest stays until connect is over.
Connect(e) ==
  /\ Enter(e)
  /\ client' = NewClient(e)
  /\ session' = [session EXCEPT ![e] = "handshaking"]
  /\ pc' = [pc EXCEPT ![e] = "connecting"]
  /\ UNCHANGED <<isConnected, availableTools, version, target, tools, calls, listed,
                 stranded>>

\* The catch of connect; the handler fails and disconnects.
ConnectThrows(e) ==
  /\ isConnected' = FALSE
  /\ pc' = [pc EXCEPT ![e] = "leaving"]
  /\ target' = [target EXCEPT ![e] = None]
  /\ UNCHANGED <<client, availableTools, version, tools, calls, listed>>

\* The configuration, a function of the application, or the transport throws
\* before there is a client.
ConfigFails(e) ==
  /\ Enter(e)
  /\ ConnectThrows(e)
  /\ UNCHANGED <<session, stranded>>

HandshakeFails(e) ==
  /\ pc[e] = "connecting"
  /\ ConnectThrows(e)
  /\ session' = [session EXCEPT ![e] = "closed"]
  /\ UNCHANGED <<overlapped, stranded>>

\* Shaken hands: the tools are listed over the client that is there now, which
\* need no longer be the one that connected.
Opened(e) == [session EXCEPT ![e] = "open"]

List(e) ==
  /\ pc[e] = "connecting"
  /\ session[e] = "handshaking"
  /\ client # None
  /\ session' = Opened(e)
  /\ target' = [target EXCEPT ![e] = client]
  /\ pc' = [pc EXCEPT ![e] = "listing"]
  /\ UNCHANGED <<shared, version, tools, calls, history>>

\* A TypeError: there is no client any more.
NoClientToList(e) ==
  /\ pc[e] = "connecting"
  /\ session[e] = "handshaking"
  /\ client = None
  /\ ConnectThrows(e)
  /\ session' = Opened(e)
  /\ UNCHANGED <<overlapped, stranded>>

ListDone(e) ==
  /\ pc[e] = "listing"
  /\ session[target[e]] \in {"handshaking", "open"}
  /\ availableTools' = version
  /\ isConnected' = TRUE
  /\ listed' = [listed EXCEPT ![e] = version]
  /\ target' = [target EXCEPT ![e] = None]
  /\ pc' = [pc EXCEPT ![e] = "connected"]
  /\ UNCHANGED <<client, session, version, tools, calls, overlapped, stranded>>

\* Nobody closes the session: disconnect finds the client not connected.
ListFails(e) ==
  /\ pc[e] = "listing"
  /\ ConnectThrows(e)
  /\ stranded' = stranded \cup {e}
  /\ UNCHANGED <<session, overlapped>>

-----------------------------------------------------------------------------
(* The execution: getTools, invokeTool *)

Retrieved == IF isConnected THEN availableTools ELSE Nothing

\* generateMcpToolDefinitions
GetTools(e) ==
  /\ pc[e] = "connected"
  /\ tools' = [tools EXCEPT ![e] = Retrieved]
  /\ pc' = [pc EXCEPT ![e] = "ready"]
  /\ UNCHANGED <<shared, session, version, target, calls, history>>

\* A call goes to the client of the moment; it is answered with a text at once
\* if there is none.
Invoke(e) ==
  /\ pc[e] = "ready"
  /\ tools[e] # Nothing
  /\ calls[e] < MaxCalls
  /\ calls' = [calls EXCEPT ![e] = @ + 1]
  /\ IF isConnected /\ client # None
     THEN /\ target' = [target EXCEPT ![e] = client]
          /\ pc' = [pc EXCEPT ![e] = "calling"]
     ELSE UNCHANGED <<target, pc>>
  /\ UNCHANGED <<shared, session, version, tools, history>>

\* A result or, from the catch of invokeTool, the text of an error.
InvokeReturns(e) ==
  /\ pc[e] = "calling"
  /\ target' = [target EXCEPT ![e] = None]
  /\ pc' = [pc EXCEPT ![e] = "ready"]
  /\ UNCHANGED <<shared, session, version, tools, calls, history>>

\* The handler returns or throws: its finally is next.
Leave(e) ==
  /\ pc[e] \in {"connected", "ready"}
  /\ pc' = [pc EXCEPT ![e] = "leaving"]
  /\ UNCHANGED <<shared, session, version, target, tools, calls, history>>

-----------------------------------------------------------------------------
(* disconnect *)

Closes == client # None /\ isConnected

Disconnect(e) ==
  /\ pc[e] = "leaving"
  /\ IF Closes
     THEN /\ target' = [target EXCEPT ![e] = client]
          /\ pc' = [pc EXCEPT ![e] = "closing"]
     ELSE /\ pc' = [pc EXCEPT ![e] = "done"]
          /\ UNCHANGED target
  /\ UNCHANGED <<shared, session, version, tools, calls, history>>

\* Variant: the session is taken for closed.
StillOpen(e) == session

Closed(e) == [session EXCEPT ![target[e]] = "closed"]

\* The session closes while close is awaited: its pending requests fail.
CloseSession(e) ==
  /\ pc[e] = "closing"
  /\ target[e] # None
  /\ session' = Closed(e)
  /\ target' = [target EXCEPT ![e] = None]
  /\ UNCHANGED <<shared, version, pc, tools, calls, history>>

\* Variant: there is no list any more, where there was one.
NoList == None

EmptyList == Nothing

\* What is there by now is reset, also if it is the client of another execution.
Reset(e) ==
  /\ pc[e] = "closing"
  /\ target[e] = None
  /\ client' = None
  /\ isConnected' = FALSE
  /\ availableTools' = EmptyList
  /\ pc' = [pc EXCEPT ![e] = "done"]
  /\ UNCHANGED <<session, version, target, tools, calls, history>>

\* The handler only logs it; nothing is reset.
CloseFails(e) ==
  /\ pc[e] = "closing"
  /\ target[e] # None
  /\ stranded' = stranded \cup {e}
  /\ target' = [target EXCEPT ![e] = None]
  /\ pc' = [pc EXCEPT ![e] = "done"]
  /\ UNCHANGED <<shared, session, version, tools, calls, listed, overlapped>>

-----------------------------------------------------------------------------
(* The server *)

\* The server, or the network, ends a session.
Lose(e) ==
  /\ session[e] = "open"
  /\ session' = [session EXCEPT ![e] = "closed"]
  /\ UNCHANGED <<shared, version, pc, target, tools, calls, history>>

Upgrade ==
  /\ version < MaxVersion
  /\ version' = version + 1
  /\ UNCHANGED <<shared, session, pc, target, tools, calls, history>>

Execution(e) ==
  \/ Connect(e) \/ ConfigFails(e) \/ HandshakeFails(e) \/ List(e) \/ NoClientToList(e)
  \/ ListDone(e) \/ ListFails(e)
  \/ GetTools(e) \/ Invoke(e) \/ InvokeReturns(e) \/ Leave(e)
  \/ Disconnect(e) \/ CloseSession(e) \/ Reset(e) \/ CloseFails(e)

Next == Upgrade \/ \E e \in Executions : Execution(e) \/ Lose(e)

Spec == Init /\ [][Next]_vars

-----------------------------------------------------------------------------
(* Properties *)

\* An execution that has the client to itself finds it as connect should leave
\* it, whatever earlier executions left behind (MCPClient.ts:97-139): it is
\* offered the list its own connect got, and its calls go over its own session.
FreshStart ==
  \A e \in Executions \ overlapped :
    /\ pc[e] \in {"ready", "calling"} =>
         /\ client = e /\ isConnected
         /\ tools[e] = listed[e] /\ tools[e] # Nothing
    /\ pc[e] = "calling" => target[e] = e

\* disconnect "closes the transport session and releases resources"
\* (interfaces.mcp.ts:28, MCPClient.ts:265-277).  It does not always: an execution
\* leaves its session open if it was not alone, or its listing or its closing
\* failed, and in no other case.
SessionsEnd ==
  \A e \in Executions :
    pc[e] = "done" /\ session[e] = "open" => e \in overlapped \cup stranded
=============================================================================
