------------------------- MODULE MCEventBrokerFactory -------------------------
(***************************************************************************)
(* A small instance of EventBrokerFactory: two resolve calls of one source *)
(* send a request each to the same handler.                                *)
(***************************************************************************)
EXTENDS EventBrokerFactory, TLC

CONSTANTS h, x, q1, p1, d1, u1, q2, m2, p2, sh, y1, y2, r1, r2

MCTopics == {h, x}
MCEvents == {q1, p1, d1, u1, q2, m2, p2}
MCTo == [e \in MCEvents |-> IF e \in {q1, q2, m2} THEN h ELSE x]
MCCause == [e \in {q1, q2} |-> None] @@ [e \in {p1, d1, u1} |-> q1] @@ m2 :> q2 @@ p2 :> m2
MCDomained == {d1}
MCUnaddressed == {u1}

MCSubs == {sh, y1, y2}
MCTopicOf == sh :> h @@ y1 :> x @@ y2 :> x
MCPrefetch == sh :> 2 @@ y1 :> 1 @@ y2 :> 1

\* The first call may time out; the second can then be made while the first
\* request is still being handled.
MCCallers == {r1, r2}
MCImpatient == {r1}
MCRequest == r1 :> q1 @@ r2 :> q2
MCReplySub == r1 :> y1 @@ r2 :> y2
=============================================================================
