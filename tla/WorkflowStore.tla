---------------------------- MODULE WorkflowStore ----------------------------
(***************************************************************************)
(* What a machine memory promises to the handlers that use it, whichever   *)
(* backend keeps the state: the record of a workflow instance is exactly   *)
(* the set of updates its handlers have committed since the record was     *)
(* last forgotten.  A handler's commit adds its own update and takes no    *)
(* other update away; only forgetting (cleanup or clear) removes any.      *)
(*                                                                         *)
(* A read-modify-write that works on a stale copy breaks this promise: it  *)
(* replaces the record by one that lacks the updates made in between.      *)
(***************************************************************************)
CONSTANTS
  Ids,      \* workflow instances
  Updates   \* each update is made by one handler execution, so at most once

VARIABLE store  \* the updates each workflow's record incorporates

Init == store = [id \in Ids |-> {}]

\* One execution's state change takes effect, on top of all the earlier ones.
Apply(id, u) ==
  /\ u \notin store[id]
  /\ store' = [store EXCEPT ![id] = @ \cup {u}]

\* The records of the workflows in S are dropped.
Forget(S) == store' = [id \in Ids |-> IF id \in S THEN {} ELSE store[id]]

Next ==
  \/ \E id \in Ids, u \in Updates : Apply(id, u)
  \/ \E S \in SUBSET Ids : Forget(S)

Spec == Init /\ [][Next]_store
=============================================================================
