---------------------------- MODULE Coordinator ----------------------------
(***************************************************************************)
(* internal/coordinator/coordinator.go: the workers share the products of  *)
(* a list through assignment keys in etcd.  Every worker is a process with *)
(* four threads of control around two maps guarded by the mutex mu:        *)
(*   - the collector's loop, the only caller of ClaimProducts and          *)
(*     TryClaimOne (todo, won);                                            *)
(*   - the watcher goroutine of WatchAssignmentChanges (forgetting,        *)
(*     freeing);                                                           *)
(*   - the ownership checker, VerifyOwnership every five seconds           *)
(*     (toVerify, missing);                                                *)
(*   - the keepalive loop (renewing);                                      *)
(* and the shutdown sequence of main: ReleaseAll, cancel, Close.           *)
(* The grain is one call of etcd or one critical section of mu per step.   *)
(***************************************************************************)
EXTENDS Etcd, FiniteSets, Sequences, SequencesExt

CONSTANTS
    NoProduct,       \* "none" for the thread variables that hold a product
    PrevKvSupplied,  \* does a DELETE event carry PrevKv?  etcd: no, the watch is opened without WithPrevKV
    LostCap,         \* capacity of the channel lostProducts (100)
    FreedCap,        \* capacity of the channel of freed products (100)
    Faults,          \* which etcd calls may fail: subset of {"txn", "get", "delete", "watch"}
    Crashable,       \* workers that may be killed
    Expirable,       \* workers that may be cut off from etcd long enough to lose the lease
    Stoppable        \* workers that may be asked to shut down

ASSUME CoordinatorAssumption ==
    /\ NoProduct \notin Products
    /\ IsFiniteSet(Products)
    /\ PrevKvSupplied \in BOOLEAN
    /\ LostCap \in Nat \ {0} /\ FreedCap \in Nat \ {0}
    /\ Crashable \subseteq Workers /\ Expirable \subseteq Workers /\ Stoppable \subseteq Workers

VARIABLES
    proc,        \* life of the process
    renewing,    \* workers whose keepalive loop runs
    owned,       \* owned[w][p]: status of p in the map ownedProducts, "none" if it has no entry
    leased,      \* leased[w]: the set leasedProducts
    lost,        \* lost[w]: the channel lostProducts
    freed,       \* freed[w]: the channel of freed products
    todo,        \* todo[w]: products a running claim has yet to try
    won,         \* won[w]: product whose transaction succeeded and is not in the maps yet
    forgetting,  \* forgetting[w]: product the watcher found to be its own and is about to drop
    freeing,     \* freeing[w]: product the watcher is about to send to the freed channel
    toVerify,    \* toVerify[w]: products a running check has yet to look up
    missing,     \* missing[w]: product the check found lost and is about to mark
    toRelease    \* toRelease[w]: products ReleaseAll has yet to delete

mapVars == <<owned, leased>>
claimVars == <<todo, won>>
watchVars == <<forgetting, freeing>>
checkVars == <<toVerify, missing>>
chanVars == <<lost, freed>>
vars == <<etcdVars, proc, renewing, mapVars, chanVars, claimVars, watchVars, checkVars, toRelease>>

Status == {"claiming", "completed", "lost"}
Life == {"new", "running", "releasing", "leaving", "gone", "crashed", "panicked"}
NoEntries == [p \in Products |-> "none"]

TypeOK ==
    /\ EtcdTypeOK
    /\ proc \in [Workers -> Life]
    /\ renewing \in SUBSET Workers
    /\ owned \in [Workers -> [Products -> Status \cup {"none"}]]
    /\ leased \in [Workers -> SUBSET Products]
    /\ lost \in [Workers -> Seq(Products)]
    /\ freed \in [Workers -> Seq(Products)]
    /\ todo \in [Workers -> SUBSET Products]
    /\ won \in [Workers -> Products \cup {NoProduct}]
    /\ forgetting \in [Workers -> Products \cup {NoProduct}]
    /\ freeing \in [Workers -> Products \cup {NoProduct}]
    /\ toVerify \in [Workers -> SUBSET Products]
    /\ missing \in [Workers -> Products \cup {NoProduct}]
    /\ toRelease \in [Workers -> SUBSET Products]

Init ==
    /\ EtcdInit
    /\ proc = [w \in Workers |-> "new"]
    /\ renewing = {}
    /\ owned = [w \in Workers |-> NoEntries]
    /\ leased = [w \in Workers |-> {}]
    /\ lost = [w \in Workers |-> <<>>]
    /\ freed = [w \in Workers |-> <<>>]
    /\ todo = [w \in Workers |-> {}]
    /\ won = [w \in Workers |-> NoProduct]
    /\ forgetting = [w \in Workers |-> NoProduct]
    /\ freeing = [w \in Workers |-> NoProduct]
    /\ toVerify = [w \in Workers |-> {}]
    /\ missing = [w \in Workers |-> NoProduct]
    /\ toRelease = [w \in Workers |-> {}]

-----------------------------------------------------------------------------
Entries(w) == {p \in Products : owned[w][p] # "none"}

\* The process executes; mu is free (ReleaseAll holds it from its first to its last statement).
Alive(w) == proc[w] \in {"running", "releasing", "leaving"}
MuFree(w) == proc[w] \in {"running", "leaving"}

\* The memory of the process disappears and its watch with it; lease and keys stay in etcd.
Vanish(w, end) ==
    /\ proc' = [proc EXCEPT ![w] = end]
    /\ renewing' = renewing \ {w}
    /\ owned' = [owned EXCEPT ![w] = NoEntries]
    /\ leased' = [leased EXCEPT ![w] = {}]
    /\ lost' = [lost EXCEPT ![w] = <<>>]
    /\ freed' = [freed EXCEPT ![w] = <<>>]
    /\ todo' = [todo EXCEPT ![w] = {}]
    /\ won' = [won EXCEPT ![w] = NoProduct]
    /\ forgetting' = [forgetting EXCEPT ![w] = NoProduct]
    /\ freeing' = [freeing EXCEPT ![w] = NoProduct]
    /\ toVerify' = [toVerify EXCEPT ![w] = {}]
    /\ missing' = [missing EXCEPT ![w] = NoProduct]
    /\ toRelease' = [toRelease EXCEPT ![w] = {}]

CloseWatch(w) ==
    /\ watching' = watching \ {w}
    /\ deletes' = [deletes EXCEPT ![w] = NoEvents]

\* Sends with a default branch: what does not fit into lostProducts is dropped.
SendLost(w, s) ==
    LET room == LostCap - Len(lost[w])
    IN  lost' = [lost EXCEPT ![w] = @ \o (IF Len(s) <= room THEN s ELSE SubSeq(s, 1, room))]

-----------------------------------------------------------------------------
(* The process starts: NewCoordinator, then Run opens the watch before its first claim. *)
Start(w) ==
    /\ proc[w] = "new"
    /\ proc' = [proc EXCEPT ![w] = "running"]
    /\ lease' = lease \cup {w}
    /\ watching' = watching \cup {w}
    /\ renewing' = renewing \cup {w}
    /\ UNCHANGED <<holder, deletes, mapVars, chanVars, claimVars, watchVars, checkVars, toRelease>>

ClaimIdle(w) == proc[w] = "running" /\ todo[w] = {} /\ won[w] = NoProduct

\* Mutant of ClaimStart: the test for an assignment is inverted.
ClaimStartMutant(w) ==
    /\ ClaimIdle(w)
    /\ Existing(Products) # {}
    /\ todo' = [todo EXCEPT ![w] = Existing(Products)]
    /\ UNCHANGED <<etcdVars, proc, renewing, mapVars, chanVars, won, watchVars, checkVars, toRelease>>

(* ClaimProducts reads the assignments: the products without a holder are tried one by one. *)
ClaimStart(w) ==
    /\ ClaimIdle(w)
    /\ Existing(Products) # Products
    /\ todo' = [todo EXCEPT ![w] = Products \ Existing(Products)]
    /\ UNCHANGED <<etcdVars, proc, renewing, mapVars, chanVars, won, watchVars, checkVars, toRelease>>

(* Run receives a freed product and calls TryClaimOne: the same transaction for one product. *)
ClaimFreed(w) ==
    /\ ClaimIdle(w)
    /\ freed[w] # <<>>
    /\ todo' = [todo EXCEPT ![w] = {Head(freed[w])}]
    /\ freed' = [freed EXCEPT ![w] = Tail(@)]
    /\ UNCHANGED <<etcdVars, proc, renewing, mapVars, lost, won, watchVars, checkVars, toRelease>>

(* The transaction, its race lost, its error.  A failed call may have been applied in etcd. *)
Tries(w, p) ==
    /\ proc[w] = "running" /\ won[w] = NoProduct
    /\ p \in todo[w]
    /\ todo' = [todo EXCEPT ![w] = @ \ {p}]
    /\ UNCHANGED <<lease, watching, deletes, proc, renewing, mapVars, chanVars, watchVars, checkVars, toRelease>>

ClaimWon(w, p) ==
    /\ Tries(w, p)
    /\ CanCreate(w, p) /\ CreateKey(w, p)
    /\ won' = [won EXCEPT ![w] = p]

\* Mutant of ClaimRaceLost: Succeeded is not tested.
ClaimRaceLostMutant(w, p) ==
    /\ Tries(w, p)
    /\ holder[p] # NoWorker
    /\ won' = [won EXCEPT ![w] = p]
    /\ UNCHANGED holder

ClaimRaceLost(w, p) ==
    /\ Tries(w, p)
    /\ holder[p] # NoWorker
    /\ UNCHANGED <<holder, won>>

ClaimFailed(w, p) ==
    /\ Tries(w, p)
    /\ "txn" \in Faults \/ (holder[p] = NoWorker /\ w \notin lease)
    /\ UNCHANGED won
    /\ UNCHANGED holder \/ (CanCreate(w, p) /\ CreateKey(w, p))

(* After a successful transaction the maps are updated under mu. *)
ClaimRecord(w) ==
    /\ proc[w] = "running" /\ won[w] # NoProduct
    /\ owned' = [owned EXCEPT ![w][won[w]] = "claiming"]
    /\ leased' = [leased EXCEPT ![w] = @ \cup {won[w]}]
    /\ won' = [won EXCEPT ![w] = NoProduct]
    /\ UNCHANGED <<etcdVars, proc, renewing, chanVars, todo, watchVars, checkVars, toRelease>>

(* A collecting goroutine reports that it is done with p; it may be an old one. *)
MarkProductCollected(w, p) ==
    /\ proc[w] \in {"running", "leaving"}
    /\ owned[w][p] \in Status \ {"completed"}
    /\ owned' = [owned EXCEPT ![w][p] = "completed"]
    /\ UNCHANGED <<etcdVars, proc, renewing, leased, chanVars, claimVars, watchVars, checkVars, toRelease>>

(* Run receives a notice from LostProducts. *)
TakeLost(w) ==
    /\ ClaimIdle(w)
    /\ lost[w] # <<>>
    /\ lost' = [lost EXCEPT ![w] = Tail(@)]
    /\ UNCHANGED <<etcdVars, proc, renewing, mapVars, freed, claimVars, watchVars, checkVars, toRelease>>
-----------------------------------------------------------------------------
WatcherIdle(w) == forgetting[w] = NoProduct /\ freeing[w] = NoProduct

(* The watcher takes a DELETE event and looks the product up in leasedProducts: it is our own *)
(* product, or it was freed by somebody and PrevKv is read, which ends the process if it is nil. *)
Handles(w, p) ==
    /\ MuFree(w) /\ w \in watching /\ WatcherIdle(w)
    /\ deletes[w][p] > 0

WatchOurs(w, p) ==
    /\ Handles(w, p)
    /\ p \in leased[w]
    /\ deletes' = [deletes EXCEPT ![w][p] = @ - 1]
    /\ forgetting' = [forgetting EXCEPT ![w] = p]
    /\ UNCHANGED <<holder, lease, watching, proc, renewing, mapVars, chanVars, claimVars, freeing, checkVars, toRelease>>

WatchFreed(w, p) ==
    /\ Handles(w, p)
    /\ p \notin leased[w] /\ PrevKvSupplied
    /\ deletes' = [deletes EXCEPT ![w][p] = @ - 1]
    /\ freeing' = [freeing EXCEPT ![w] = p]
    /\ UNCHANGED <<holder, lease, watching, proc, renewing, mapVars, chanVars, claimVars, forgetting, checkVars, toRelease>>

\* Mutant of WatchPanic: an event with a nil PrevKv is skipped.
WatchPanicMutant(w, p) ==
    /\ Handles(w, p)
    /\ p \notin leased[w] /\ ~PrevKvSupplied
    /\ deletes' = [deletes EXCEPT ![w][p] = @ - 1]
    /\ UNCHANGED <<holder, lease, watching, proc, renewing, mapVars, chanVars, claimVars, watchVars, checkVars, toRelease>>

WatchPanic(w, p) ==
    /\ Handles(w, p)
    /\ p \notin leased[w] /\ ~PrevKvSupplied
    /\ Vanish(w, "panicked") /\ CloseWatch(w)
    /\ UNCHANGED <<holder, lease>>

(* The watcher drops its own product from both maps, after it had released the read lock. *)
WatchForget(w) ==
    /\ MuFree(w) /\ forgetting[w] # NoProduct
    /\ owned' = [owned EXCEPT ![w][forgetting[w]] = "none"]
    /\ leased' = [leased EXCEPT ![w] = @ \ {forgetting[w]}]
    /\ forgetting' = [forgetting EXCEPT ![w] = NoProduct]
    /\ UNCHANGED <<etcdVars, proc, renewing, chanVars, claimVars, freeing, checkVars, toRelease>>

(* The watcher sends a freed product, waiting while the channel is full. *)
WatchSend(w) ==
    /\ Alive(w) /\ freeing[w] # NoProduct
    /\ Len(freed[w]) < FreedCap
    /\ freed' = [freed EXCEPT ![w] = Append(@, freeing[w])]
    /\ freeing' = [freeing EXCEPT ![w] = NoProduct]
    /\ UNCHANGED <<etcdVars, proc, renewing, mapVars, lost, claimVars, forgetting, checkVars, toRelease>>

(* The watcher returns: its context is cancelled, or etcd cancelled the watch. *)
WatchEnd(w) ==
    /\ Alive(w) /\ w \in watching
    /\ forgetting[w] = NoProduct
    /\ proc[w] = "leaving" \/ ("watch" \in Faults /\ freeing[w] = NoProduct)
    /\ CloseWatch(w)
    /\ freeing' = [freeing EXCEPT ![w] = NoProduct]
    /\ UNCHANGED <<holder, lease, proc, renewing, mapVars, chanVars, claimVars, forgetting, checkVars, toRelease>>
-----------------------------------------------------------------------------
CheckIdle(w) == toVerify[w] = {} /\ missing[w] = NoProduct

(* VerifyOwnership: the entries of ownedProducts, then for each of them a Get, *)
(* and for each that is gone or another worker's the mark, under mu, and the notice. *)
VerifyStart(w) ==
    /\ proc[w] = "running" /\ CheckIdle(w)
    /\ Entries(w) # {}
    /\ toVerify' = [toVerify EXCEPT ![w] = Entries(w)]
    /\ UNCHANGED <<etcdVars, proc, renewing, mapVars, chanVars, claimVars, watchVars, missing, toRelease>>

Looks(w, p) ==
    /\ Alive(w) /\ missing[w] = NoProduct
    /\ p \in toVerify[w]
    /\ toVerify' = [toVerify EXCEPT ![w] = @ \ {p}]
    /\ UNCHANGED <<etcdVars, proc, renewing, mapVars, chanVars, claimVars, watchVars, toRelease>>

VerifyMissing(w, p) ==
    /\ Looks(w, p)
    /\ holder[p] # w
    /\ missing' = [missing EXCEPT ![w] = p]

VerifyOurs(w, p) ==
    /\ Looks(w, p)
    /\ holder[p] = w \/ "get" \in Faults \/ proc[w] = "leaving"
    /\ UNCHANGED missing

\* Mutant of VerifyMark: the product stays in leasedProducts.
VerifyMarkMutant(w) ==
    /\ MuFree(w) /\ missing[w] # NoProduct
    /\ owned' = [owned EXCEPT ![w][missing[w]] = "lost"]
    /\ SendLost(w, <<missing[w]>>)
    /\ missing' = [missing EXCEPT ![w] = NoProduct]
    /\ UNCHANGED <<etcdVars, proc, renewing, leased, freed, claimVars, watchVars, toVerify, toRelease>>

VerifyMark(w) ==
    /\ MuFree(w) /\ missing[w] # NoProduct
    /\ owned' = [owned EXCEPT ![w][missing[w]] = "lost"]
    /\ leased' = [leased EXCEPT ![w] = @ \ {missing[w]}]
    /\ SendLost(w, <<missing[w]>>)
    /\ missing' = [missing EXCEPT ![w] = NoProduct]
    /\ UNCHANGED <<etcdVars, proc, renewing, freed, claimVars, watchVars, toVerify, toRelease>>

(* keepAliveLoop: the keepalive channel is closed; notifyLostAll marks every entry under mu. *)
NotifyLostAll(w) ==
    /\ MuFree(w) /\ w \in renewing
    /\ w \in Expirable \/ proc[w] = "leaving"
    /\ renewing' = renewing \ {w}
    /\ owned' = [owned EXCEPT ![w] =
            [p \in Products |-> IF @[p] = "none" THEN "none" ELSE "lost"]]
    /\ \E s \in SetToSeqs(Entries(w)) : SendLost(w, s)
    /\ UNCHANGED <<etcdVars, proc, leased, freed, claimVars, watchVars, checkVars, toRelease>>
-----------------------------------------------------------------------------
(* Shutdown: main calls ReleaseAll after the collector's loop has ended. *)
ReleaseStart(w) ==
    /\ w \in Stoppable
    /\ ClaimIdle(w)
    /\ proc' = [proc EXCEPT ![w] = "releasing"]
    /\ toRelease' = [toRelease EXCEPT ![w] = Entries(w)]
    /\ UNCHANGED <<etcdVars, renewing, mapVars, chanVars, claimVars, watchVars, checkVars>>

Releases(w, p) ==
    /\ proc[w] = "releasing"
    /\ p \in toRelease[w]
    /\ toRelease' = [toRelease EXCEPT ![w] = @ \ {p}]
    /\ UNCHANGED <<lease, watching, proc, renewing, chanVars, claimVars, watchVars, checkVars>>

ReleaseDelete(w, p) ==
    /\ Releases(w, p)
    /\ DeleteKeys({p}, watching)
    /\ owned' = [owned EXCEPT ![w][p] = "none"]
    /\ leased' = [leased EXCEPT ![w] = @ \ {p}]

ReleaseFailed(w, p) ==
    /\ Releases(w, p)
    /\ "delete" \in Faults
    /\ DeleteKeys({p}, watching) \/ UNCHANGED <<holder, deletes>>
    /\ UNCHANGED mapVars

(* ReleaseAll returns, main cancels the context. *)
ReleaseDone(w) ==
    /\ proc[w] = "releasing" /\ toRelease[w] = {}
    /\ proc' = [proc EXCEPT ![w] = "leaving"]
    /\ UNCHANGED <<etcdVars, renewing, mapVars, chanVars, claimVars, watchVars, checkVars, toRelease>>

(* Close stops the keepalive loop and revokes the lease, which may fail; the process ends. *)
Close(w) ==
    /\ proc[w] = "leaving"
    /\ Vanish(w, "gone")
    /\ \/ /\ w \notin lease \/ "delete" \in Faults
          /\ CloseWatch(w)
          /\ UNCHANGED <<holder, lease>>
       \/ /\ w \in lease /\ lease' = lease \ {w}
          /\ watching' = watching \ {w}
          /\ DeleteKeys(KeysOf(w), watching')

(* The process is killed. *)
Crash(w) ==
    /\ w \in Crashable /\ Alive(w)
    /\ Vanish(w, "crashed") /\ CloseWatch(w)
    /\ UNCHANGED <<holder, lease>>

(* The lease runs out: nobody renews it, or the worker was cut off for longer than LeaseTTL. *)
LeaseExpire(w) ==
    /\ w \in Expirable \/ ~Alive(w) \/ proc[w] = "leaving"
    /\ EndLease(w)
    /\ UNCHANGED <<watching, proc, renewing, mapVars, chanVars, claimVars, watchVars, checkVars, toRelease>>
-----------------------------------------------------------------------------
Claim(w) ==
    \/ ClaimStart(w) \/ ClaimFreed(w) \/ ClaimRecord(w) \/ TakeLost(w)
    \/ \E p \in Products : ClaimWon(w, p) \/ ClaimRaceLost(w, p) \/ ClaimFailed(w, p)

Watch(w) ==
    \/ WatchForget(w) \/ WatchSend(w) \/ WatchEnd(w)
    \/ \E p \in Products : WatchOurs(w, p) \/ WatchFreed(w, p) \/ WatchPanic(w, p)

Verify(w) ==
    \/ VerifyStart(w) \/ VerifyMark(w)
    \/ \E p \in Products : VerifyMissing(w, p) \/ VerifyOurs(w, p)

Release(w) ==
    \/ ReleaseStart(w) \/ ReleaseDone(w) \/ Close(w)
    \/ \E p \in Products : ReleaseDelete(w, p) \/ ReleaseFailed(w, p)

Next ==
    \E w \in Workers :
        \/ Start(w) \/ Claim(w) \/ Watch(w) \/ Verify(w) \/ Release(w)
        \/ NotifyLostAll(w) \/ Crash(w) \/ LeaseExpire(w)
        \/ \E p \in Products : MarkProductCollected(w, p)

Spec == Init /\ [][Next]_vars

(***************************************************************************)
(* The goroutines are scheduled fairly: the reclaim ticker and the         *)
(* ownership ticker keep firing, a call of etcd that is retried at every   *)
(* tick does not fail for ever, a lease nobody renews runs out.  Nothing   *)
(* makes a worker start, stop, crash or lose its connection.               *)
(***************************************************************************)
Fairness ==
    \A w \in Workers :
        /\ WF_vars(ClaimStart(w)) /\ WF_vars(ClaimFreed(w)) /\ WF_vars(ClaimRecord(w))
        /\ WF_vars(TakeLost(w))
        /\ WF_vars(WatchForget(w)) /\ WF_vars(WatchSend(w))
        /\ WF_vars(VerifyStart(w)) /\ WF_vars(VerifyMark(w))
        /\ WF_vars(ReleaseDone(w)) /\ WF_vars(Close(w))
        /\ WF_vars(~Alive(w) /\ LeaseExpire(w))
        /\ \A p \in Products :
            /\ SF_vars(ClaimWon(w, p)) /\ WF_vars(ClaimRaceLost(w, p))
            /\ WF_vars(WatchOurs(w, p) \/ WatchFreed(w, p) \/ WatchPanic(w, p))
            /\ SF_vars(VerifyMissing(w, p)) /\ WF_vars(VerifyOurs(w, p))
            /\ WF_vars(ReleaseDelete(w, p) \/ ReleaseFailed(w, p))

FairSpec == Spec /\ Fairness
-----------------------------------------------------------------------------
(* The set of leases a worker believes it holds is part of the products it accounts for, *)
(* so ReleaseAll, which walks ownedProducts, reaches every one of them. *)
LeasedAreOwned == \A w \in Workers : leased[w] \subseteq Entries(w)

(* Why a worker may still believe in a product that is no longer its own: *)
(* the DELETE event is on its way, or the watcher is at work on it, or the watch is closed. *)
Pending(w, p) == deletes[w][p] > 0 \/ forgetting[w] = p \/ w \notin watching

(* A worker that has a product in leasedProducts holds its key in etcd, or the event that *)
(* will correct the belief is pending: no interleaving of claims, expiries, releases by *)
(* others, the watcher and the checker makes a false belief nobody is going to correct. *)
BeliefBacked ==
    \A w \in Workers, p \in Products : p \in leased[w] => holder[p] = w \/ Pending(w, p)

(* The same for a claim between its transaction and the update of the maps: if the key is gone *)
(* already its event is still to come, one more than an older belief in the product has pending. *)
WonBacked ==
    \A w \in Workers, p \in Products :
        won[w] = p /\ w \in watching =>
            /\ holder[p] # w => deletes[w][p] > 0
            /\ p \in leased[w] /\ forgetting[w] # p =>
                   deletes[w][p] > IF holder[p] = w THEN 0 ELSE 1

(* Two workers believe in the same product only while the event that corrects one is pending. *)
ExclusiveBelief ==
    \A v, w \in Workers, p \in Products :
        v # w /\ p \in leased[v] /\ p \in leased[w] => Pending(v, p) \/ Pending(w, p)

(* A false belief is dropped in the end, with the watch closed and events lost too: *)
(* VerifyOwnership finds every product in leasedProducts that is not the worker's own. *)
StaleBeliefDropped ==
    \A w \in Workers, p \in Products :
        (p \in leased[w] /\ holder[p] # w) ~> (p \notin leased[w] \/ holder[p] = w)

(* The products of a worker that ended are free again: its lease runs out. *)
EndedReleases ==
    \A w \in Workers : proc[w] \in {"gone", "crashed", "panicked"} ~> \A p \in Products : holder[p] # w

(* A worker that neither crashes nor is cut off nor stops takes every free product in the end. *)
Steady == Workers \ (Crashable \cup Expirable \cup Stoppable)

FreeShardTaken ==
    \A w \in Steady, p \in Products :
        (proc[w] # "new" /\ holder[p] = NoWorker) ~> holder[p] # NoWorker
=============================================================================
