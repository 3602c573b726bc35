----------------------- MODULE MCPostgresMachineMemory -----------------------
(***************************************************************************)
(* A small instance of PostgresMachineMemory.                              *)
(***************************************************************************)
EXTENDS PostgresMachineMemory, TLC

CONSTANTS h1, h2, h3, w1, w2, p1, p2

MCHandlers == {h1, h2, h3}
MCIds == {w1, w2}
MCParent == w1 :> None @@ w2 :> w1

\* Three executions on one subject: two share a process and its pool, the third is
\* in another process.
AllOnParent == [h \in MCHandlers |-> w1]
MCProcesses == {p1, p2}
TwoAndOne == h1 :> p1 @@ h2 :> p1 @@ h3 :> p2
=============================================================================
