--------------------------- MODULE MCCoordinator ---------------------------
(* Small instances of Coordinator.  The workers are interchangeable in the safety run. *)
EXTENDS Coordinator

WorkerSymmetry == Permutations(Workers)

(***************************************************************************)
(* Bound of the liveness run: a worker that is cut off from etcd, its      *)
(* lease gone or its keepalive channel closed, runs on; one that crashes   *)
(* or shuts down was not cut off before.                                   *)
(***************************************************************************)
CutOff(w) == w \notin lease \/ w \notin renewing

EndsOrCutOff ==
    \A w \in Expirable :
        /\ proc[w] = "running" /\ proc'[w] # "running" => ~CutOff(w)
        /\ proc'[w] = "releasing" => ~CutOff(w)'
=============================================================================
