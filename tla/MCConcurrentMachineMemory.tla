---------------------- MODULE MCConcurrentMachineMemory ----------------------
(***************************************************************************)
(* Small instances of ConcurrentMachineMemory.                             *)
(***************************************************************************)
EXTENDS ConcurrentMachineMemory, TLC

CONSTANTS h1, h2, h3, h4, w1, w2

Three == {h1, h2, h3}
Four == {h1, h2, h3, h4}
MCIds == {w1, w2}

\* Three executions contend for one workflow ...
AllOnOne == [h \in Three |-> w1]

\* ... while a fourth works on another.
ThreeAndOne == AllOnOne @@ h4 :> w2
=============================================================================
