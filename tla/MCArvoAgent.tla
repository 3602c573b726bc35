----------------------------- MODULE MCArvoAgent -----------------------------
(***************************************************************************)
(* A small instance of ArvoAgent: three calls of a restricted service, one *)
(* of a restricted tool that runs in place, and one of a tool that does    *)
(* not exist, over which the others have priority.                         *)
(***************************************************************************)
EXTENDS ArvoAgent, TLC

CONSTANTS a1, a2, a3, b1, n1, A, B

MCCalls == {a1, a2, a3, b1, n1}
MCTools == {A, B}
MCToolOf == a1 :> A @@ a2 :> A @@ a3 :> A @@ b1 :> B @@ n1 :> None
MCRemote == {A}
MCRestricted == {A, B}
MCPriority == A :> 1 @@ B :> 1
=============================================================================
