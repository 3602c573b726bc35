----------------------- MODULE MCConcurrentEventBroker -----------------------
(***************************************************************************)
(* A small instance of ConcurrentEventBroker: topic a can be subscribed    *)
(* twice, one of its events causes an event for b, and b's handler answers *)
(* with one for a.                                                         *)
(***************************************************************************)
EXTENDS ConcurrentEventBroker, TLC

CONSTANTS a, b, e1, e2, e3, e4, s1, s2, s3, c1, c2

MCTopics == {a, b}
MCEvents == {e1, e2, e3, e4}
MCTo == e1 :> a @@ e2 :> a @@ e3 :> b @@ e4 :> a
MCCause == e1 :> None @@ e2 :> None @@ e3 :> e1 @@ e4 :> e3

MCSubs == {s1, s2, s3}
MCTopicOf == s1 :> a @@ s2 :> a @@ s3 :> b
MCPrefetch == s1 :> 1 @@ s2 :> 2 @@ s3 :> 1

MCCallers == {c1, c2}
MCImpatient == {c2}
=============================================================================
