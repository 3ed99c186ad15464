-------------------------------- MODULE Etcd --------------------------------
(***************************************************************************)
(* The part of etcd that the shard coordinator and the Python collector    *)
(* use, modelled from how internal/coordinator/coordinator.go and          *)
(* clients/collector.py call it (etcd itself is not in the repository):    *)
(* the assignment keys /collector/assignments/<product>, each bound to the *)
(* lease of the worker that created it, and the DELETE events of a prefix  *)
(* watch on them.  PUT events are left out: the only reader of the watch   *)
(* skips every event that is not a DELETE.  The Python collector does not  *)
(* watch.                                                                  *)
(*                                                                         *)
(* A worker is one run of one process: its identifier holds the start time *)
(* (cmd/collector/main.go, defaultWorkerID), so a process that is started  *)
(* again is another element of Workers with another lease.                 *)
(***************************************************************************)
EXTENDS Naturals

CONSTANTS
    Workers,     \* processes, each with one lease for its whole life
    Products,    \* the product list BootstrapProducts put into etcd
    NoWorker     \* the holder of an assignment key that does not exist

ASSUME NoWorkerAssumption == NoWorker \notin Workers

VARIABLES
    holder,      \* holder[p]: the value of p's assignment key
    lease,       \* the workers whose lease is alive
    watching,    \* the workers whose watch on the assignments is open
    deletes      \* deletes[w][p]: DELETE events of p's key that w's watcher has not handled

etcdVars == <<holder, lease, watching, deletes>>

NoEvents == [p \in Products |-> 0]

EtcdTypeOK ==
    /\ holder \in [Products -> Workers \cup {NoWorker}]
    /\ lease \in SUBSET Workers
    /\ watching \in SUBSET Workers
    /\ deletes \in [Workers -> [Products -> Nat]]

EtcdInit ==
    /\ holder = [p \in Products |-> NoWorker]
    /\ lease = {}
    /\ watching = {}
    /\ deletes = [w \in Workers |-> NoEvents]

\* Mutant of KeysOf: the claim creates the key without WithLease.
KeysOfMutant(w) == {}

\* Every key is created WithLease, so it is gone with its holder's lease.
KeysOf(w) == {p \in Products : holder[p] = w}

Existing(P) == {p \in P : holder[p] # NoWorker}

(***************************************************************************)
(* The keys of P are deleted in one revision: every watch of V gets one    *)
(* event for each of them that existed, whoever held it.                   *)
(***************************************************************************)
DeleteKeys(P, V) ==
    /\ holder' = [p \in Products |-> IF p \in P THEN NoWorker ELSE holder[p]]
    /\ deletes' = [v \in Workers |-> [p \in Products |->
            IF v \notin V THEN 0
            ELSE IF p \in Existing(P) THEN deletes[v][p] + 1 ELSE deletes[v][p]]]

\* The transaction of a claim: create the key under w's lease if there is none.
CanCreate(w, p) == holder[p] = NoWorker /\ w \in lease

CreateKey(w, p) == holder' = [holder EXCEPT ![p] = w]

\* A lease that ends (expired or revoked) takes its keys with it.
EndLease(w) ==
    /\ w \in lease
    /\ lease' = lease \ {w}
    /\ DeleteKeys(KeysOf(w), watching)
=============================================================================
