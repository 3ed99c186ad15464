-------------------------- MODULE CollectorProofs --------------------------
(***************************************************************************)
(* What holds of Coordinator and of Collector, which extends it, for every *)
(* number of processes, products and goroutines: first the coordinator on  *)
(* its own, then the collector, with leases lost or not.                   *)
(***************************************************************************)
EXTENDS MCCollector, FiniteSetTheorems, TLAPS

-----------------------------------------------------------------------------
(* Type correctness *)

(* What fits of a list of products into lostProducts keeps the channel a sequence of products. *)
LEMMA SendLostType ==
    ASSUME NEW w \in Workers, NEW s \in Seq(Products), TypeOK, SendLost(w, s)
    PROVE  lost' \in [Workers -> Seq(Products)]
<1> DEFINE room == LostCap - Len(lost[w])
           sent == IF Len(s) <= room THEN s ELSE SubSeq(s, 1, room)
<1>1. lost[w] \in Seq(Products)  BY DEF TypeOK
<1>2. room \in Int  BY <1>1, CoordinatorAssumption
<1>3. sent \in Seq(Products)  BY <1>2
<1>4. lost[w] \o sent \in Seq(Products)  BY <1>1, <1>3
<1> QED  BY <1>4 DEF SendLost, TypeOK

(* A listing of the entries of a worker is a sequence of products. *)
LEMMA ListingType ==
    ASSUME NEW w \in Workers, NEW s \in SetToSeqs(Entries(w))
    PROVE  s \in Seq(Products)
<1>1. Entries(w) \subseteq Products  BY DEF Entries
<1>2. Cardinality(Entries(w)) \in Nat
  BY <1>1, CoordinatorAssumption, FS_Subset, FS_CardinalityType
<1>3. s \in [1..Cardinality(Entries(w)) -> Entries(w)]  BY DEF SetToSeqs
<1> QED  BY <1>1, <1>2, <1>3

(* The keys of a set of products are deleted: the etcd variables keep their types. *)
LEMMA DeleteKeysType ==
    ASSUME NEW P, NEW V, EtcdTypeOK, DeleteKeys(P, V)
    PROVE  /\ holder' \in [Products -> Workers \cup {NoWorker}]
           /\ deletes' \in [Workers -> [Products -> Nat]]
BY DEF EtcdTypeOK, DeleteKeys

LEMMA VanishType ==
    ASSUME NEW w \in Workers, NEW end \in Life, TypeOK, Vanish(w, end), EtcdTypeOK'
    PROVE  TypeOK'
<1>1. <<>> \in Seq(Products)  OBVIOUS
<1>2. NoEntries \in [Products -> Status \cup {"none"}]  BY DEF NoEntries
<1> QED  BY <1>1, <1>2 DEF Vanish, TypeOK

(* Every action keeps the types. *)
LEMMA TypeNext == TypeOK /\ [Next]_vars => TypeOK'
<1> SUFFICES ASSUME TypeOK, [Next]_vars PROVE TypeOK'
  OBVIOUS
<1>1. ASSUME NEW w \in Workers, Start(w) PROVE TypeOK'
  BY <1>1 DEF Start, TypeOK, EtcdTypeOK, Life, Status, mapVars, chanVars, claimVars, watchVars, checkVars, etcdVars
<1>2. ASSUME NEW w \in Workers, ClaimStart(w) PROVE TypeOK'
  BY <1>2 DEF ClaimStart, TypeOK, EtcdTypeOK, Life, Status, mapVars, chanVars, claimVars, watchVars, checkVars, etcdVars
<1>3. ASSUME NEW w \in Workers, ClaimFreed(w) PROVE TypeOK'
  BY <1>3 DEF ClaimFreed, ClaimIdle, TypeOK, EtcdTypeOK, Life, Status, mapVars, chanVars, claimVars, watchVars, checkVars, etcdVars
<1>4. ASSUME NEW w \in Workers, NEW p \in Products, ClaimWon(w, p) PROVE TypeOK'
  BY <1>4 DEF ClaimWon, Tries, CreateKey, TypeOK, EtcdTypeOK, Life, Status, mapVars, chanVars, claimVars, watchVars, checkVars, etcdVars
<1>5. ASSUME NEW w \in Workers, NEW p \in Products, ClaimRaceLost(w, p) PROVE TypeOK'
  BY <1>5 DEF ClaimRaceLost, Tries, TypeOK, EtcdTypeOK, Life, Status, mapVars, chanVars, claimVars, watchVars, checkVars, etcdVars
<1>6. ASSUME NEW w \in Workers, NEW p \in Products, ClaimFailed(w, p) PROVE TypeOK'
  BY <1>6 DEF ClaimFailed, Tries, CreateKey, TypeOK, EtcdTypeOK, Life, Status, mapVars, chanVars, claimVars, watchVars, checkVars, etcdVars
<1>7. ASSUME NEW w \in Workers, ClaimRecord(w) PROVE TypeOK'
  BY <1>7 DEF ClaimRecord, TypeOK, EtcdTypeOK, Life, Status, mapVars, chanVars, claimVars, watchVars, checkVars, etcdVars
<1>8. ASSUME NEW w \in Workers, NEW p \in Products, MarkProductCollected(w, p) PROVE TypeOK'
  BY <1>8 DEF MarkProductCollected, TypeOK, EtcdTypeOK, Life, Status, mapVars, chanVars, claimVars, watchVars, checkVars, etcdVars
<1>9. ASSUME NEW w \in Workers, TakeLost(w) PROVE TypeOK'
  BY <1>9 DEF TakeLost, ClaimIdle, TypeOK, EtcdTypeOK, Life, Status, mapVars, chanVars, claimVars, watchVars, checkVars, etcdVars
<1>10. ASSUME NEW w \in Workers, NEW p \in Products, WatchOurs(w, p) PROVE TypeOK'
  BY <1>10 DEF WatchOurs, Handles, TypeOK, EtcdTypeOK, Life, Status, mapVars, chanVars, claimVars, watchVars, checkVars, etcdVars
<1>11. ASSUME NEW w \in Workers, NEW p \in Products, WatchFreed(w, p) PROVE TypeOK'
  BY <1>11 DEF WatchFreed, Handles, TypeOK, EtcdTypeOK, Life, Status, mapVars, chanVars, claimVars, watchVars, checkVars, etcdVars
<1>12. ASSUME NEW w \in Workers, NEW p \in Products, WatchPanic(w, p) PROVE TypeOK'
  <2>1. EtcdTypeOK'  BY <1>12 DEF WatchPanic, CloseWatch, NoEvents, TypeOK, EtcdTypeOK
  <2> QED  BY <1>12, <2>1, VanishType DEF WatchPanic, Life
<1>13. ASSUME NEW w \in Workers, WatchForget(w) PROVE TypeOK'
  BY <1>13 DEF WatchForget, TypeOK, EtcdTypeOK, Life, Status, mapVars, chanVars, claimVars, watchVars, checkVars, etcdVars
<1>14. ASSUME NEW w \in Workers, WatchSend(w) PROVE TypeOK'
  BY <1>14 DEF WatchSend, TypeOK, EtcdTypeOK, Life, Status, mapVars, chanVars, claimVars, watchVars, checkVars, etcdVars
<1>15. ASSUME NEW w \in Workers, WatchEnd(w) PROVE TypeOK'
  BY <1>15 DEF WatchEnd, CloseWatch, NoEvents, TypeOK, EtcdTypeOK, Life, Status, mapVars, chanVars, claimVars, watchVars, checkVars, etcdVars
<1>16. ASSUME NEW w \in Workers, VerifyStart(w) PROVE TypeOK'
  BY <1>16 DEF VerifyStart, Entries, TypeOK, EtcdTypeOK, Life, Status, mapVars, chanVars, claimVars, watchVars, checkVars, etcdVars
<1>17. ASSUME NEW w \in Workers, NEW p \in Products, VerifyMissing(w, p) PROVE TypeOK'
  BY <1>17 DEF VerifyMissing, Looks, TypeOK, EtcdTypeOK, Life, Status, mapVars, chanVars, claimVars, watchVars, checkVars, etcdVars
<1>18. ASSUME NEW w \in Workers, NEW p \in Products, VerifyOurs(w, p) PROVE TypeOK'
  BY <1>18 DEF VerifyOurs, Looks, TypeOK, EtcdTypeOK, Life, Status, mapVars, chanVars, claimVars, watchVars, checkVars, etcdVars
<1>19. ASSUME NEW w \in Workers, VerifyMark(w) PROVE TypeOK'
  <2>1. lost' \in [Workers -> Seq(Products)]
    <3>1. <<missing[w]>> \in Seq(Products)  BY <1>19 DEF VerifyMark, TypeOK
    <3> QED  BY <1>19, <3>1, SendLostType DEF VerifyMark
  <2> QED  BY <1>19, <2>1 DEF VerifyMark, TypeOK, EtcdTypeOK, Status, mapVars, chanVars, claimVars, watchVars, checkVars, etcdVars
<1>20. ASSUME NEW w \in Workers, NotifyLostAll(w) PROVE TypeOK'
  <2>1. lost' \in [Workers -> Seq(Products)]
    BY <1>20, ListingType, SendLostType DEF NotifyLostAll
  <2> QED  BY <1>20, <2>1 DEF NotifyLostAll, TypeOK, EtcdTypeOK, Status, mapVars, chanVars, claimVars, watchVars, checkVars, etcdVars
<1>21. ASSUME NEW w \in Workers, ReleaseStart(w) PROVE TypeOK'
  BY <1>21 DEF ReleaseStart, Entries, TypeOK, EtcdTypeOK, Life, Status, mapVars, chanVars, claimVars, watchVars, checkVars, etcdVars
<1>22. ASSUME NEW w \in Workers, NEW p \in Products, ReleaseDelete(w, p) PROVE TypeOK'
  <2>1. EtcdTypeOK'
    BY <1>22, DeleteKeysType DEF ReleaseDelete, Releases, TypeOK, EtcdTypeOK
  <2> QED  BY <1>22, <2>1 DEF ReleaseDelete, Releases, TypeOK, Status, mapVars, chanVars, claimVars, watchVars, checkVars, etcdVars
<1>23. ASSUME NEW w \in Workers, NEW p \in Products, ReleaseFailed(w, p) PROVE TypeOK'
  <2>1. EtcdTypeOK'
    BY <1>23, DeleteKeysType DEF ReleaseFailed, Releases, TypeOK, EtcdTypeOK
  <2> QED  BY <1>23, <2>1 DEF ReleaseFailed, Releases, TypeOK, Status, mapVars, chanVars, claimVars, watchVars, checkVars, etcdVars
<1>24. ASSUME NEW w \in Workers, ReleaseDone(w) PROVE TypeOK'
  BY <1>24 DEF ReleaseDone, TypeOK, EtcdTypeOK, Life, Status, mapVars, chanVars, claimVars, watchVars, checkVars, etcdVars
<1>25. ASSUME NEW w \in Workers, Close(w) PROVE TypeOK'
  <2>1. EtcdTypeOK'
    <3>1. CASE CloseWatch(w) /\ UNCHANGED <<holder, lease>>
      BY <3>1 DEF CloseWatch, NoEvents, TypeOK, EtcdTypeOK
    <3>2. CASE /\ lease' = lease \ {w} /\ watching' = watching \ {w}
               /\ DeleteKeys(KeysOf(w), watching')
      <4>1. holder' \in [Products -> Workers \cup {NoWorker}]
        BY <3>2 DEF DeleteKeys, TypeOK, EtcdTypeOK
      <4>2. deletes' \in [Workers -> [Products -> Nat]]
        BY <3>2 DEF DeleteKeys, TypeOK, EtcdTypeOK
      <4> QED  BY <3>2, <4>1, <4>2 DEF TypeOK, EtcdTypeOK
    <3> QED  BY <1>25, <3>1, <3>2 DEF Close
  <2> QED  BY <1>25, <2>1, VanishType DEF Close, Life
<1>26. ASSUME NEW w \in Workers, Crash(w) PROVE TypeOK'
  <2>1. EtcdTypeOK'  BY <1>26 DEF Crash, CloseWatch, NoEvents, TypeOK, EtcdTypeOK
  <2> QED  BY <1>26, <2>1, VanishType DEF Crash, Life
<1>27. ASSUME NEW w \in Workers, LeaseExpire(w) PROVE TypeOK'
  <2>1. EtcdTypeOK'
    BY <1>27, DeleteKeysType DEF LeaseExpire, EndLease, TypeOK, EtcdTypeOK
  <2> QED  BY <1>27, <2>1 DEF LeaseExpire, EndLease, TypeOK, Status, mapVars, chanVars, claimVars, watchVars, checkVars, etcdVars
<1>28. CASE UNCHANGED vars
  BY <1>28 DEF vars, TypeOK, EtcdTypeOK, mapVars, chanVars, claimVars, watchVars, checkVars, etcdVars
<1> QED
  BY <1>1, <1>2, <1>3, <1>4, <1>5, <1>6, <1>7, <1>8, <1>9, <1>10, <1>11, <1>12, <1>13, <1>14, <1>15, <1>16, <1>17, <1>18, <1>19, <1>20, <1>21, <1>22, <1>23, <1>24, <1>25, <1>26, <1>27, <1>28 DEF Next, Claim, Watch, Verify, Release

LEMMA TypeInit == Init => TypeOK
BY DEF Init, EtcdInit, TypeOK, EtcdTypeOK, NoEvents, NoEntries, Status, Life

(* Every variable keeps its type in every behaviour of the coordinators. *)
THEOREM TypeCorrect == Spec => []TypeOK
BY TypeInit, TypeNext, PTL DEF Spec
-----------------------------------------------------------------------------
(* Beliefs and keys *)

(* One worker and one product: the two invariants, and that a process that has not *)
(* started believes in nothing. *)
Backed(w, p) ==
    /\ proc[w] = "new" => p \notin leased[w] /\ won[w] # p
    /\ p \in leased[w] => holder[p] = w \/ Pending(w, p)
    /\ won[w] = p /\ w \in watching =>
            /\ holder[p] # w => deletes[w][p] > 0
            /\ p \in leased[w] /\ forgetting[w] # p =>
                   deletes[w][p] > IF holder[p] = w THEN 0 ELSE 1

(* Every action keeps beliefs and unfinished claims backed, *)
(* as long as an event for a product the worker does not lease ends the process. *)
LEMMA BackedNext ==
    ASSUME ~PrevKvSupplied, TypeOK, NEW u \in Workers, NEW q \in Products, Backed(u, q), [Next]_vars
    PROVE  Backed(u, q)'
<1> USE NoWorkerAssumption, CoordinatorAssumption
<1>1. ASSUME NEW w \in Workers, Start(w) PROVE Backed(u, q)'
  BY <1>1 DEF Start, Backed, Pending, TypeOK, EtcdTypeOK, mapVars, chanVars, claimVars, watchVars, checkVars, etcdVars
<1>2. ASSUME NEW w \in Workers, ClaimStart(w) PROVE Backed(u, q)'
  BY <1>2 DEF ClaimStart, Backed, Pending, TypeOK, EtcdTypeOK, mapVars, chanVars, claimVars, watchVars, checkVars, etcdVars
<1>3. ASSUME NEW w \in Workers, ClaimFreed(w) PROVE Backed(u, q)'
  BY <1>3 DEF ClaimFreed, Backed, Pending, TypeOK, EtcdTypeOK, mapVars, chanVars, claimVars, watchVars, checkVars, etcdVars
<1>4. ASSUME NEW w \in Workers, NEW p \in Products, ClaimWon(w, p) PROVE Backed(u, q)'
  BY <1>4 DEF ClaimWon, Tries, CanCreate, CreateKey, Backed, Pending, TypeOK, EtcdTypeOK, mapVars, chanVars, claimVars, watchVars, checkVars, etcdVars
<1>5. ASSUME NEW w \in Workers, NEW p \in Products, ClaimRaceLost(w, p) PROVE Backed(u, q)'
  BY <1>5 DEF ClaimRaceLost, Tries, Backed, Pending, TypeOK, EtcdTypeOK, mapVars, chanVars, claimVars, watchVars, checkVars, etcdVars
<1>6. ASSUME NEW w \in Workers, NEW p \in Products, ClaimFailed(w, p) PROVE Backed(u, q)'
  BY <1>6 DEF ClaimFailed, Tries, CanCreate, CreateKey, Backed, Pending, TypeOK, EtcdTypeOK, mapVars, chanVars, claimVars, watchVars, checkVars, etcdVars
<1>7. ASSUME NEW w \in Workers, ClaimRecord(w) PROVE Backed(u, q)'
  BY <1>7 DEF ClaimRecord, Backed, Pending, TypeOK, EtcdTypeOK, mapVars, chanVars, claimVars, watchVars, checkVars, etcdVars
<1>8. ASSUME NEW w \in Workers, NEW p \in Products, MarkProductCollected(w, p) PROVE Backed(u, q)'
  BY <1>8 DEF MarkProductCollected, Backed, Pending, TypeOK, EtcdTypeOK, mapVars, chanVars, claimVars, watchVars, checkVars, etcdVars
<1>9. ASSUME NEW w \in Workers, TakeLost(w) PROVE Backed(u, q)'
  BY <1>9 DEF TakeLost, Backed, Pending, TypeOK, EtcdTypeOK, mapVars, chanVars, claimVars, watchVars, checkVars, etcdVars
<1>10. ASSUME NEW w \in Workers, NEW p \in Products, WatchOurs(w, p) PROVE Backed(u, q)'
  BY <1>10 DEF WatchOurs, Handles, WatcherIdle, Backed, Pending, TypeOK, EtcdTypeOK, mapVars, chanVars, claimVars, watchVars, checkVars, etcdVars
<1>11. ASSUME NEW w \in Workers, NEW p \in Products, WatchFreed(w, p) PROVE Backed(u, q)'
  BY <1>11 DEF WatchFreed
<1>12. ASSUME NEW w \in Workers, NEW p \in Products, WatchPanic(w, p) PROVE Backed(u, q)'
  BY <1>12 DEF WatchPanic, Vanish, CloseWatch, Backed, Pending, TypeOK, EtcdTypeOK, mapVars, chanVars, claimVars, watchVars, checkVars, etcdVars
<1>13. ASSUME NEW w \in Workers, WatchForget(w) PROVE Backed(u, q)'
  BY <1>13 DEF WatchForget, Backed, Pending, TypeOK, EtcdTypeOK, mapVars, chanVars, claimVars, watchVars, checkVars, etcdVars
<1>14. ASSUME NEW w \in Workers, WatchSend(w) PROVE Backed(u, q)'
  BY <1>14 DEF WatchSend, Backed, Pending, TypeOK, EtcdTypeOK, mapVars, chanVars, claimVars, watchVars, checkVars, etcdVars
<1>15. ASSUME NEW w \in Workers, WatchEnd(w) PROVE Backed(u, q)'
  BY <1>15 DEF WatchEnd, CloseWatch, Backed, Pending, TypeOK, EtcdTypeOK, mapVars, chanVars, claimVars, watchVars, checkVars, etcdVars
<1>16. ASSUME NEW w \in Workers, VerifyStart(w) PROVE Backed(u, q)'
  BY <1>16 DEF VerifyStart, Backed, Pending, TypeOK, EtcdTypeOK, mapVars, chanVars, claimVars, watchVars, checkVars, etcdVars
<1>17. ASSUME NEW w \in Workers, NEW p \in Products, VerifyMissing(w, p) PROVE Backed(u, q)'
  BY <1>17 DEF VerifyMissing, Looks, Backed, Pending, TypeOK, EtcdTypeOK, mapVars, chanVars, claimVars, watchVars, checkVars, etcdVars
<1>18. ASSUME NEW w \in Workers, NEW p \in Products, VerifyOurs(w, p) PROVE Backed(u, q)'
  BY <1>18 DEF VerifyOurs, Looks, Backed, Pending, TypeOK, EtcdTypeOK, mapVars, chanVars, claimVars, watchVars, checkVars, etcdVars
<1>19. ASSUME NEW w \in Workers, VerifyMark(w) PROVE Backed(u, q)'
  BY <1>19 DEF VerifyMark, Backed, Pending, TypeOK, EtcdTypeOK, mapVars, chanVars, claimVars, watchVars, checkVars, etcdVars
<1>20. ASSUME NEW w \in Workers, NotifyLostAll(w) PROVE Backed(u, q)'
  BY <1>20 DEF NotifyLostAll, Backed, Pending, TypeOK, EtcdTypeOK, mapVars, chanVars, claimVars, watchVars, checkVars, etcdVars
<1>21. ASSUME NEW w \in Workers, ReleaseStart(w) PROVE Backed(u, q)'
  BY <1>21 DEF ReleaseStart, Backed, Pending, TypeOK, EtcdTypeOK, mapVars, chanVars, claimVars, watchVars, checkVars, etcdVars
<1>22. ASSUME NEW w \in Workers, NEW p \in Products, ReleaseDelete(w, p) PROVE Backed(u, q)'
  BY <1>22 DEF ReleaseDelete, Releases, DeleteKeys, Existing, Backed, Pending, TypeOK, EtcdTypeOK, mapVars, chanVars, claimVars, watchVars, checkVars, etcdVars
<1>23. ASSUME NEW w \in Workers, NEW p \in Products, ReleaseFailed(w, p) PROVE Backed(u, q)'
  <2>1. CASE DeleteKeys({p}, watching)
    BY <1>23, <2>1 DEF ReleaseFailed, Releases, DeleteKeys, Existing, Backed, Pending, TypeOK, EtcdTypeOK, mapVars, chanVars, claimVars, watchVars, checkVars, etcdVars
  <2>2. CASE UNCHANGED <<holder, deletes>>
    BY <1>23, <2>2 DEF ReleaseFailed, Releases, Backed, Pending, mapVars, chanVars, claimVars, watchVars, checkVars, etcdVars
  <2> QED  BY <1>23, <2>1, <2>2 DEF ReleaseFailed
<1>24. ASSUME NEW w \in Workers, ReleaseDone(w) PROVE Backed(u, q)'
  BY <1>24 DEF ReleaseDone, Backed, Pending, TypeOK, EtcdTypeOK, mapVars, chanVars, claimVars, watchVars, checkVars, etcdVars
<1>25. ASSUME NEW w \in Workers, Close(w) PROVE Backed(u, q)'
  <2>1. CASE u = w
    BY <1>25, <2>1 DEF Close, Vanish, Backed, TypeOK
  <2>2. CASE u # w
    <3>1. UNCHANGED <<leased[u], won[u], forgetting[u], proc[u]>> /\ (u \in watching' <=> u \in watching)
      BY <1>25, <2>2 DEF Close, Vanish, CloseWatch, TypeOK, EtcdTypeOK
    <3>2. CASE CloseWatch(w) /\ UNCHANGED holder
      BY <2>2, <3>1, <3>2 DEF CloseWatch, Backed, Pending, TypeOK, EtcdTypeOK
    <3>3. CASE watching' = watching \ {w} /\ DeleteKeys(KeysOf(w), watching')
      BY <2>2, <3>1, <3>3 DEF DeleteKeys, Existing, Backed, Pending, TypeOK, EtcdTypeOK
    <3> QED  BY <1>25, <3>2, <3>3 DEF Close
  <2> QED  BY <2>1, <2>2
<1>26. ASSUME NEW w \in Workers, Crash(w) PROVE Backed(u, q)'
  BY <1>26 DEF Crash, Vanish, CloseWatch, Backed, Pending, TypeOK, EtcdTypeOK, mapVars, chanVars, claimVars, watchVars, checkVars, etcdVars
<1>27. ASSUME NEW w \in Workers, LeaseExpire(w) PROVE Backed(u, q)'
  BY <1>27 DEF LeaseExpire, EndLease, DeleteKeys, Existing, Backed, Pending, TypeOK, EtcdTypeOK, mapVars, chanVars, claimVars, watchVars, checkVars, etcdVars
<1>28. CASE UNCHANGED vars
  BY <1>28 DEF vars, Backed, Pending, mapVars, chanVars, claimVars, watchVars, checkVars, etcdVars
<1> QED
  BY <1>1, <1>2, <1>3, <1>4, <1>5, <1>6, <1>7, <1>8, <1>9, <1>10, <1>11, <1>12, <1>13, <1>14, <1>15, <1>16, <1>17, <1>18, <1>19, <1>20, <1>21, <1>22, <1>23, <1>24, <1>25, <1>26, <1>27, <1>28 DEF Next, Claim, Watch, Verify, Release

Backs == \A w \in Workers, p \in Products : Backed(w, p)

LEMMA BackedInit == Init => Backs
BY CoordinatorAssumption DEF Init, EtcdInit, Backs, Backed

LEMMA BackedInvariant ==
    ASSUME ~PrevKvSupplied
    PROVE  Spec => [](TypeOK /\ Backs)
<1>1. Init => TypeOK /\ Backs  BY TypeInit, BackedInit
<1>2. TypeOK /\ Backs /\ [Next]_vars => (TypeOK /\ Backs)'
  BY TypeNext, BackedNext DEF Backs
<1> QED  BY <1>1, <1>2, PTL DEF Spec

(* With etcd as the code uses it, no worker keeps a false belief that nothing will correct. *)
THEOREM BeliefsBacked ==
    ASSUME ~PrevKvSupplied
    PROVE  Spec => []BeliefBacked
<1>1. Backs => BeliefBacked  BY DEF Backs, Backed, BeliefBacked
<1> QED  BY <1>1, BackedInvariant, PTL

(* Nor does a claim whose maps are still to be updated. *)
THEOREM ClaimsBacked ==
    ASSUME ~PrevKvSupplied
    PROVE  Spec => []WonBacked
<1>1. Backs => WonBacked  BY DEF Backs, Backed, WonBacked
<1> QED  BY <1>1, BackedInvariant, PTL

(* So two workers share a belief only while an event that corrects one of them is pending. *)
THEOREM BeliefsExclusive ==
    ASSUME ~PrevKvSupplied
    PROVE  Spec => []ExclusiveBelief
<1>1. BeliefBacked => ExclusiveBelief  BY DEF BeliefBacked, ExclusiveBelief
<1> QED  BY <1>1, BeliefsBacked, PTL

-----------------------------------------------------------------------------
(* The two maps *)

(* Every action updates leasedProducts and ownedProducts together. *)
LEMMA LeasedOwnedNext == TypeOK /\ LeasedAreOwned /\ [Next]_vars => LeasedAreOwned'
<1> SUFFICES ASSUME TypeOK, LeasedAreOwned, [Next]_vars, NEW u \in Workers
             PROVE  (leased[u] \subseteq Entries(u))'
  BY DEF LeasedAreOwned
<1> USE DEF LeasedAreOwned, Entries, TypeOK
<1>1. CASE UNCHANGED mapVars
  BY <1>1 DEF mapVars
<1>2. ASSUME NEW w \in Workers, NEW end \in Life, Vanish(w, end) PROVE (leased[u] \subseteq Entries(u))'
  BY <1>2 DEF Vanish
<1>3. ASSUME NEW w \in Workers, ClaimRecord(w) PROVE (leased[u] \subseteq Entries(u))'
  BY <1>3 DEF ClaimRecord
<1>4. ASSUME NEW w \in Workers, NEW p \in Products, MarkProductCollected(w, p)
      PROVE  (leased[u] \subseteq Entries(u))'
  BY <1>4 DEF MarkProductCollected
<1>5. ASSUME NEW w \in Workers, WatchForget(w) PROVE (leased[u] \subseteq Entries(u))'
  BY <1>5 DEF WatchForget
<1>6. ASSUME NEW w \in Workers, VerifyMark(w) PROVE (leased[u] \subseteq Entries(u))'
  BY <1>6 DEF VerifyMark
<1>7. ASSUME NEW w \in Workers, NotifyLostAll(w) PROVE (leased[u] \subseteq Entries(u))'
  BY <1>7 DEF NotifyLostAll
<1>8. ASSUME NEW w \in Workers, NEW p \in Products, ReleaseDelete(w, p)
      PROVE  (leased[u] \subseteq Entries(u))'
  BY <1>8 DEF ReleaseDelete
<1>9. ASSUME NEW w \in Workers, Claim(w) PROVE UNCHANGED mapVars \/ ClaimRecord(w)
  BY <1>9 DEF Claim, ClaimStart, ClaimFreed, TakeLost, ClaimWon, ClaimRaceLost, ClaimFailed, Tries
<1>10. ASSUME NEW w \in Workers, Watch(w)
       PROVE  UNCHANGED mapVars \/ WatchForget(w) \/ Vanish(w, "panicked")
  BY <1>10 DEF Watch, WatchSend, WatchEnd, WatchOurs, WatchFreed, WatchPanic
<1>11. ASSUME NEW w \in Workers, Verify(w) PROVE UNCHANGED mapVars \/ VerifyMark(w)
  BY <1>11 DEF Verify, VerifyStart, VerifyMissing, VerifyOurs, Looks
<1>12. ASSUME NEW w \in Workers, Release(w)
       PROVE  \/ UNCHANGED mapVars \/ Vanish(w, "gone")
              \/ \E p \in Products : ReleaseDelete(w, p)
  BY <1>12 DEF Release, ReleaseStart, ReleaseDone, Close, ReleaseFailed
<1>13. ASSUME NEW w \in Workers, Start(w) \/ LeaseExpire(w) PROVE UNCHANGED mapVars
  BY <1>13 DEF Start, LeaseExpire
<1>14. ASSUME NEW w \in Workers, Crash(w) PROVE Vanish(w, "crashed")
  BY <1>14 DEF Crash
<1>15. CASE UNCHANGED vars
  BY <1>15, <1>1 DEF vars
<1> HIDE DEF LeasedAreOwned, Entries, TypeOK
<1> QED
  BY <1>1, <1>2, <1>3, <1>4, <1>5, <1>6, <1>7, <1>8, <1>9, <1>10, <1>11, <1>12, <1>13, <1>14, <1>15
  DEF Next, Life

(* ReleaseAll, which walks ownedProducts, reaches every product the worker leases. *)
THEOREM LeasedOwned == Spec => []LeasedAreOwned
<1>1. Init => LeasedAreOwned  BY DEF Init, LeasedAreOwned
<1>2. TypeOK /\ LeasedAreOwned /\ [Next]_vars => LeasedAreOwned'  BY LeasedOwnedNext
<1> QED  BY <1>1, <1>2, TypeCorrect, PTL DEF Spec

-----------------------------------------------------------------------------
(* Type correctness *)

\* What is typed beside the variables of the coordinator.
OwnTypeOK ==
    /\ run \in [Workers -> {"loop", "waiting", "ended"}]
    /\ claimed \in [Workers -> SUBSET Products]
    /\ at \in [Workers -> [Goroutines -> {"off", "fetch", "send", "mark"}]]
    /\ work \in [Workers -> [Goroutines -> Products \cup {NoProduct}]]
    /\ tracked \in [Workers -> [Products -> Goroutines \cup {NoGoroutine}]]
    /\ waiting \in [Workers -> SUBSET Goroutines]
    /\ detached \in [Workers -> SUBSET Products]

\* A goroutine that runs was spawned for a product.
Placed == \A w \in Workers, g \in Goroutines : at[w][g] # "off" => work[w][g] \in Products

TInv == CollectorTypeOK /\ Placed

LEMMA TInvInit == CollectorInit => TInv
<1> SUFFICES ASSUME CollectorInit PROVE TInv  OBVIOUS
<1>1. TypeOK  BY TypeInit DEF CollectorInit
<1>2. OwnTypeOK  BY DEF CollectorInit, OwnTypeOK, AllOff, NoWork, NoneTracked
<1>3. Placed  BY DEF CollectorInit, Placed, AllOff
<1> QED  BY <1>1, <1>2, <1>3 DEF TInv, CollectorTypeOK, OwnTypeOK

(* A send on the closed channel ends the process as a panic of the watcher does. *)
LEMMA PanicType ==
    ASSUME TypeOK, NEW w \in Workers, Vanish(w, "panicked"), CloseWatch(w), UNCHANGED <<holder, lease>>
    PROVE  TypeOK'
<1>1. EtcdTypeOK'  BY DEF CloseWatch, NoEvents, TypeOK, EtcdTypeOK
<1> QED  BY <1>1, VanishType DEF Life

(* Every step of the collectors is one of their coordinators, or leaves these alone, or panics. *)
LEMMA CoordinatorSteps ==
    ASSUME NEW w \in Workers, CoordinatorOnly(w) \/ ProcessEnds(w) \/ LoopClaims(w) \/ LoopRecords(w)
                                \/ LoopLoses(w) \/ MainReleases(w)
    PROVE  Next
BY DEF CoordinatorOnly, ProcessEnds, LoopClaims, LoopRecords, LoopLoses, MainReleases,
       Next, Claim, Watch, Verify, Release

LEMMA CoordinatorTypeNext == TypeOK /\ [CollectorNext]_allVars => TypeOK'
<1> SUFFICES ASSUME TypeOK, [CollectorNext]_allVars PROVE TypeOK'  OBVIOUS
<1>1. ASSUME Next \/ UNCHANGED vars PROVE TypeOK'  BY <1>1, TypeNext
<1>2. ASSUME NEW w \in Workers, NEW g \in Goroutines, SendPanics(w, g) PROVE TypeOK'
  BY <1>2, PanicType DEF SendPanics
<1>3. ASSUME NEW w \in Workers, NEW g \in Goroutines,
             Fetch(w, g) \/ FetchFails(w, g) \/ SendReviews(w, g) \/ Cancelled(w, g)
      PROVE  UNCHANGED vars
  BY <1>3 DEF Fetch, FetchFails, SendReviews, Cancelled, Goes
<1>4. ASSUME NEW w \in Workers, NEW g \in Goroutines, Collected(w, g) PROVE TypeOK'
  <2>1. CASE UNCHANGED vars  BY <1>1, <2>1
  <2>2. CASE MarkProductCollected(w, work[w][g])
    BY <2>2 DEF MarkProductCollected, TypeOK, EtcdTypeOK, Status, mapVars, chanVars, claimVars,
                watchVars, checkVars, etcdVars
  <2> QED  BY <1>4, <2>1, <2>2 DEF Collected
<1>5. ASSUME NEW w \in Workers,
             LoopStops(w) \/ CloseReviews(w) \/ \E p \in Products : Spawn(w, p)
      PROVE  UNCHANGED vars
  BY <1>5 DEF LoopStops, CloseReviews, Spawn
<1>6. CASE UNCHANGED allVars  BY <1>1, <1>6 DEF allVars
<1> QED  BY <1>1, <1>2, <1>3, <1>4, <1>5, <1>6, CoordinatorSteps DEF CollectorNext

(* The memory of an ended process is typed. *)
LEMMA LosesMemoryType ==
    ASSUME OwnTypeOK, Placed, NEW w \in Workers, LosesMemory(w)
    PROVE  OwnTypeOK' /\ Placed'
<1>1. /\ AllOff \in [Goroutines -> {"off", "fetch", "send", "mark"}]
      /\ NoWork \in [Goroutines -> Products \cup {NoProduct}]
      /\ NoneTracked \in [Products -> Goroutines \cup {NoGoroutine}]
  BY DEF AllOff, NoWork, NoneTracked
<1>2. OwnTypeOK'  BY <1>1 DEF LosesMemory, OwnTypeOK
<1>3. \A v \in Workers : v # w => at'[v] = at[v] /\ work'[v] = work[v]
  BY DEF LosesMemory, OwnTypeOK
<1>4. at'[w] = AllOff  BY DEF LosesMemory, OwnTypeOK
<1>5. Placed'  BY <1>3, <1>4 DEF Placed, AllOff
<1> QED  BY <1>2, <1>5

LEMMA ReturnsType ==
    ASSUME OwnTypeOK, Placed, NEW w \in Workers, NEW g \in Goroutines, Returns(w, g)
    PROVE  OwnTypeOK' /\ Placed'
<1>1. OwnTypeOK'  BY DEF Returns, OwnTypeOK
<1>2. Placed'  BY DEF Returns, OwnTypeOK, Placed
<1> QED  BY <1>1, <1>2

LEMMA GoesType ==
    ASSUME OwnTypeOK, Placed, NEW w \in Workers, NEW g \in Goroutines,
           NEW to \in {"fetch", "send", "mark"}, NEW from \in {"fetch", "send"}, Goes(w, g, from, to)
    PROVE  OwnTypeOK' /\ Placed'
<1>1. OwnTypeOK'  BY DEF Goes, OwnTypeOK
<1>2. Placed'  BY DEF Goes, OwnTypeOK, Placed
<1> QED  BY <1>1, <1>2

LEMMA TInvNext == TInv /\ [CollectorNext]_allVars => TInv'
<1> SUFFICES ASSUME TInv, [CollectorNext]_allVars PROVE TInv'  OBVIOUS
<1> USE DEF TInv
<1>1. TypeOK /\ OwnTypeOK /\ Placed  BY DEF CollectorTypeOK, OwnTypeOK
<1>2. TypeOK'  BY <1>1, CoordinatorTypeNext
<1>3. ASSUME UNCHANGED collectorVars PROVE OwnTypeOK' /\ Placed'
  BY <1>1, <1>3 DEF collectorVars, OwnTypeOK, Placed
<1>4. ASSUME NEW w \in Workers, LoopRecords(w) PROVE OwnTypeOK' /\ Placed'
  <2>1. won[w] \in Products  BY <1>1, <1>4 DEF LoopRecords, ClaimRecord, TypeOK
  <2> QED  BY <1>1, <1>4, <2>1 DEF LoopRecords, OwnTypeOK, Placed
<1>5. ASSUME NEW w \in Workers, LoopLoses(w) PROVE OwnTypeOK' /\ Placed'
  <2>1. Head(lost[w]) \in Products  BY <1>1, <1>5 DEF LoopLoses, TakeLost, TypeOK
  <2> QED  BY <1>1, <1>5, <2>1 DEF LoopLoses, OwnTypeOK, Placed
<1>6. ASSUME NEW w \in Workers, LoopStops(w) PROVE OwnTypeOK' /\ Placed'
  BY <1>1, <1>6 DEF LoopStops, OwnTypeOK, Placed
<1>7. ASSUME NEW w \in Workers, CloseReviews(w) PROVE OwnTypeOK' /\ Placed'
  BY <1>1, <1>7 DEF CloseReviews, OwnTypeOK, Placed
<1>8. ASSUME NEW w \in Workers, NEW p \in Products, Spawn(w, p) PROVE OwnTypeOK' /\ Placed'
  <2>1. CASE UNCHANGED <<at, work, tracked>>
    BY <1>1, <1>8, <2>1 DEF Spawn, OwnTypeOK, Placed
  <2>2. ASSUME NEW g \in Goroutines,
               /\ at' = [at EXCEPT ![w][g] = "fetch"]
               /\ work' = [work EXCEPT ![w][g] = p]
               /\ tracked' = [tracked EXCEPT ![w][p] = g]
        PROVE  OwnTypeOK' /\ Placed'
    <3>1. OwnTypeOK'  BY <1>1, <1>8, <2>2 DEF Spawn, OwnTypeOK
    <3>2. Placed'  BY <1>1, <2>2 DEF OwnTypeOK, Placed
    <3> QED  BY <3>1, <3>2
  <2> QED  BY <1>8, <2>1, <2>2 DEF Spawn
<1>9. ASSUME NEW w \in Workers, NEW g \in Goroutines, Fetch(w, g) \/ SendReviews(w, g)
      PROVE  OwnTypeOK' /\ Placed'
  BY <1>1, <1>9, GoesType DEF Fetch, SendReviews
<1>10. ASSUME NEW w \in Workers, NEW g \in Goroutines, FetchFails(w, g) \/ Collected(w, g) \/ Cancelled(w, g)
       PROVE  OwnTypeOK' /\ Placed'
  BY <1>1, <1>10, ReturnsType DEF FetchFails, Collected, Cancelled
<1>11. ASSUME NEW w \in Workers, ProcessEnds(w) PROVE OwnTypeOK' /\ Placed'
  BY <1>1, <1>11, LosesMemoryType DEF ProcessEnds
<1>12. ASSUME NEW w \in Workers, NEW g \in Goroutines, SendPanics(w, g) PROVE OwnTypeOK' /\ Placed'
  BY <1>1, <1>12, LosesMemoryType DEF SendPanics
<1>13. ASSUME NEW w \in Workers, CoordinatorOnly(w) \/ LoopClaims(w) \/ MainReleases(w)
       PROVE  OwnTypeOK' /\ Placed'
  <2>1. UNCHANGED collectorVars  BY <1>13 DEF CoordinatorOnly, LoopClaims, MainReleases
  <2> QED  BY <1>3, <2>1
<1>14. ASSUME UNCHANGED allVars PROVE OwnTypeOK' /\ Placed'
  <2>1. UNCHANGED collectorVars  BY <1>14 DEF allVars
  <2> QED  BY <1>3, <2>1
<1>15. OwnTypeOK' /\ Placed'
  <2>1. ASSUME NEW w \in Workers, NEW g \in Goroutines,
               \/ Fetch(w, g) \/ FetchFails(w, g) \/ SendReviews(w, g) \/ SendPanics(w, g)
               \/ Collected(w, g) \/ Cancelled(w, g)
        PROVE  OwnTypeOK' /\ Placed'
    BY <1>9, <1>10, <1>12, <2>1
  <2>2. CASE CollectorNext
    BY <1>4, <1>5, <1>6, <1>7, <1>8, <1>11, <1>13, <2>1, <2>2 DEF CollectorNext
  <2> QED  BY <1>14, <2>2
<1> QED  BY <1>2, <1>15 DEF CollectorTypeOK, OwnTypeOK

(* Every variable of coordinators and collectors keeps its type in every behaviour. *)
THEOREM CollectorTypeCorrect == CollectorSpec => []CollectorTypeOK
<1>1. TInv => CollectorTypeOK  BY DEF TInv
<1> QED  BY <1>1, TInvInit, TInvNext, PTL DEF CollectorSpec
-----------------------------------------------------------------------------
(***************************************************************************)
(* The goroutines nobody waits for.  By itself inductive on top of TInv: a *)
(* goroutine is spawned only for a product without an entry, so its others *)
(* are untracked already; and one that returns clears the entry of another *)
(* only if it was untracked itself.                                        *)
(***************************************************************************)

\* Every step of CollectorNext that leaves goroutines and map alone.
LEMMA UntrackedQuiet ==
    ASSUME UntrackedWereDetached, UNCHANGED <<at, work, tracked, detached>>
    PROVE  UntrackedWereDetached'
BY DEF UntrackedWereDetached

LEMMA UntrackedReturns ==
    ASSUME TInv, UntrackedWereDetached, NEW w \in Workers, NEW g \in Goroutines,
           at[w][g] # "off", Returns(w, g)
    PROVE  UntrackedWereDetached'
<1>1. OwnTypeOK /\ Placed  BY DEF TInv, CollectorTypeOK, OwnTypeOK
<1>2. SUFFICES ASSUME NEW v \in Workers, NEW h \in Goroutines,
                      at'[v][h] # "off", tracked'[v][work'[v][h]] # h
               PROVE  work'[v][h] \in detached'[v]
  BY DEF UntrackedWereDetached
<1>3. ~(v = w /\ h = g)  BY <1>1, <1>2 DEF Returns, OwnTypeOK
<1>4. at'[v][h] = at[v][h] /\ work'[v][h] = work[v][h] /\ detached' = detached
  BY <1>1, <1>3 DEF Returns, OwnTypeOK
<1>5. CASE tracked[v][work[v][h]] # h  BY <1>2, <1>4, <1>5 DEF UntrackedWereDetached
<1>6. CASE tracked[v][work[v][h]] = h
  <2>1. v = w /\ work[v][h] = work[w][g]
    BY <1>1, <1>2, <1>4, <1>6 DEF Returns, OwnTypeOK, Placed
  <2>2. tracked[w][work[w][g]] # g  BY <1>3, <1>6, <2>1
  <2> QED  BY <1>4, <2>1, <2>2 DEF UntrackedWereDetached
<1> QED  BY <1>5, <1>6

LEMMA UntrackedGoes ==
    ASSUME TInv, UntrackedWereDetached, NEW w \in Workers, NEW g \in Goroutines,
           NEW from \in {"fetch", "send"}, NEW to \in {"send", "mark"}, Goes(w, g, from, to)
    PROVE  UntrackedWereDetached'
BY DEF Goes, TInv, CollectorTypeOK, UntrackedWereDetached

LEMMA UntrackedLosesMemory ==
    ASSUME TInv, UntrackedWereDetached, NEW w \in Workers, LosesMemory(w)
    PROVE  UntrackedWereDetached'
<1>1. OwnTypeOK  BY DEF TInv, CollectorTypeOK, OwnTypeOK
<1>2. \A v \in Workers : v # w =>
        at'[v] = at[v] /\ work'[v] = work[v] /\ tracked'[v] = tracked[v] /\ detached'[v] = detached[v]
  BY <1>1 DEF LosesMemory, OwnTypeOK
<1>3. at'[w] = AllOff  BY <1>1 DEF LosesMemory, OwnTypeOK
<1> QED  BY <1>2, <1>3 DEF UntrackedWereDetached, AllOff

LEMMA UntrackedNext == TInv /\ UntrackedWereDetached /\ [CollectorNext]_allVars => UntrackedWereDetached'
<1> SUFFICES ASSUME TInv, UntrackedWereDetached, [CollectorNext]_allVars
             PROVE  UntrackedWereDetached'
  OBVIOUS
<1>1. TypeOK /\ OwnTypeOK /\ Placed  BY DEF TInv, CollectorTypeOK, OwnTypeOK
<1>2. ASSUME NEW w \in Workers, LoopRecords(w) \/ LoopStops(w) \/ CloseReviews(w)
      PROVE  UntrackedWereDetached'
  BY <1>2, UntrackedQuiet DEF LoopRecords, LoopStops, CloseReviews
<1>3. ASSUME NEW w \in Workers, CoordinatorOnly(w) \/ LoopClaims(w) \/ MainReleases(w)
      PROVE  UntrackedWereDetached'
  <2>1. UNCHANGED collectorVars  BY <1>3 DEF CoordinatorOnly, LoopClaims, MainReleases
  <2> QED  BY <2>1, UntrackedQuiet DEF collectorVars
<1>4. ASSUME UNCHANGED allVars PROVE UntrackedWereDetached'
  BY <1>4, UntrackedQuiet DEF allVars, collectorVars
<1>5. ASSUME NEW w \in Workers, LoopLoses(w) PROVE UntrackedWereDetached'
  <2> DEFINE p == Head(lost[w])
  <2>1. p \in Products  BY <1>1, <1>5 DEF LoopLoses, TakeLost, TypeOK
  <2>2. SUFFICES ASSUME NEW v \in Workers, NEW h \in Goroutines,
                        at[v][h] # "off", tracked'[v][work[v][h]] # h
                 PROVE  work[v][h] \in detached'[v]
    BY <1>5 DEF LoopLoses, UntrackedWereDetached
  <2>3. detached[v] \subseteq detached'[v]  BY <1>1, <1>5 DEF LoopLoses, OwnTypeOK
  <2>4. CASE v = w /\ work[v][h] = p
    <3>1. Working(w, p) # {}  BY <2>2, <2>4 DEF Working
    <3> QED  BY <1>1, <1>5, <2>4, <3>1 DEF LoopLoses, OwnTypeOK
  <2>5. CASE ~(v = w /\ work[v][h] = p)
    <3>1. work[v][h] \in Products  BY <1>1, <2>2 DEF Placed
    <3>2. tracked'[v][work[v][h]] = tracked[v][work[v][h]]
      BY <1>1, <1>5, <2>1, <2>5, <3>1 DEF LoopLoses, OwnTypeOK
    <3> QED  BY <2>2, <2>3, <3>2 DEF UntrackedWereDetached
  <2> QED  BY <2>4, <2>5
<1>6. ASSUME NEW w \in Workers, NEW p \in Products, Spawn(w, p) PROVE UntrackedWereDetached'
  <2>1. CASE UNCHANGED <<at, work, tracked>>  BY <1>6, <2>1, UntrackedQuiet DEF Spawn
  <2>2. CASE ~UNCHANGED <<at, work, tracked>>
    <3>1. PICK g \in Goroutines :
            /\ tracked[w][p] = NoGoroutine
            /\ at' = [at EXCEPT ![w][g] = "fetch"]
            /\ work' = [work EXCEPT ![w][g] = p]
            /\ tracked' = [tracked EXCEPT ![w][p] = g]
      BY <1>6, <2>2 DEF Spawn
    <3>2. detached' = detached  BY <1>6 DEF Spawn
    <3>3. SUFFICES ASSUME NEW v \in Workers, NEW h \in Goroutines,
                          at'[v][h] # "off", tracked'[v][work'[v][h]] # h
                   PROVE  work'[v][h] \in detached[v]
      BY <3>2 DEF UntrackedWereDetached
    <3>4. ~(v = w /\ h = g)  BY <1>1, <3>1, <3>3 DEF OwnTypeOK
    <3>5. at'[v][h] = at[v][h] /\ work'[v][h] = work[v][h]  BY <1>1, <3>1, <3>4 DEF OwnTypeOK
    <3>6. tracked[v][work[v][h]] # h
      <4>1. CASE v = w /\ work[v][h] = p
        <5>1. NoGoroutine \notin Goroutines  BY DEF NoGoroutine, Goroutines
        <5> QED  BY <3>1, <4>1, <5>1
      <4>2. CASE ~(v = w /\ work[v][h] = p)
        BY <1>1, <3>1, <3>3, <3>5, <4>2 DEF OwnTypeOK, Placed
      <4> QED  BY <4>1, <4>2
    <3> QED  BY <3>3, <3>5, <3>6 DEF UntrackedWereDetached
  <2> QED  BY <2>1, <2>2
<1>7. ASSUME NEW w \in Workers, NEW g \in Goroutines, Fetch(w, g) \/ SendReviews(w, g)
      PROVE  UntrackedWereDetached'
  BY <1>7, UntrackedGoes DEF Fetch, SendReviews
<1>8. ASSUME NEW w \in Workers, NEW g \in Goroutines, FetchFails(w, g) \/ Collected(w, g) \/ Cancelled(w, g)
      PROVE  UntrackedWereDetached'
  BY <1>8, UntrackedReturns DEF FetchFails, Collected, Cancelled
<1>9. ASSUME NEW w \in Workers, ProcessEnds(w) PROVE UntrackedWereDetached'
  BY <1>9, UntrackedLosesMemory DEF ProcessEnds
<1>10. ASSUME NEW w \in Workers, NEW g \in Goroutines, SendPanics(w, g) PROVE UntrackedWereDetached'
  BY <1>10, UntrackedLosesMemory DEF SendPanics
<1>11. CASE CollectorNext
  BY <1>2, <1>3, <1>5, <1>6, <1>7, <1>8, <1>9, <1>10, <1>11 DEF CollectorNext
<1> QED  BY <1>4, <1>11

(* A goroutine that stopAllWorkers cannot see has had its product's loss handled under it, *)
(* whatever leases are lost and whatever products are claimed again meanwhile.             *)
THEOREM UntrackedDetached == CollectorSpec => []UntrackedWereDetached
<1>1. CollectorInit => UntrackedWereDetached  BY DEF CollectorInit, UntrackedWereDetached, AllOff
<1> QED  BY <1>1, TInvInit, TInvNext, UntrackedNext, PTL DEF CollectorSpec
-----------------------------------------------------------------------------
(***************************************************************************)
(* What the closed channel can catch.  Once the loop has left its select,  *)
(* nothing is claimed and nothing spawned (Shut), so the goroutines that   *)
(* run are those of the moment of Stop: the tracked ones, which the        *)
(* closing waits for, and the untracked ones of the theorem above.         *)
(***************************************************************************)
Shut == \A w \in Workers :
    run[w] # "loop" => claimed[w] = {} /\ todo[w] = {} /\ won[w] = NoProduct

Covered == \A w \in Workers, g \in Goroutines : at[w][g] # "off" =>
    /\ run[w] = "waiting" => g \in waiting[w] \/ work[w][g] \in detached[w]
    /\ run[w] = "ended" => work[w][g] \in detached[w]

SInv == TInv /\ UntrackedWereDetached /\ Shut /\ Covered

LEMMA SInvInit == CollectorInit => SInv
<1> SUFFICES ASSUME CollectorInit PROVE SInv  OBVIOUS
<1>1. UntrackedWereDetached /\ Shut /\ Covered
  BY DEF CollectorInit, UntrackedWereDetached, Shut, Covered, AllOff
<1> QED  BY <1>1, TInvInit DEF SInv

\* A claim's transactions belong to a claim that has begun.
LEMMA ShutQuiet ==
    ASSUME TInv, Shut, NEW w \in Workers, CoordinatorOnly(w)
    PROVE  Shut'
<1>1. TypeOK /\ UNCHANGED <<run, claimed>>
  BY DEF TInv, CollectorTypeOK, CoordinatorOnly, collectorVars
<1>2. ASSUME NEW p \in Products, ClaimWon(w, p) \/ ClaimRaceLost(w, p) \/ ClaimFailed(w, p)
      PROVE  Shut'
  <2>1. todo[w] # {}  BY <1>2 DEF ClaimWon, ClaimRaceLost, ClaimFailed, Tries
  <2>2. run[w] = "loop"  BY <2>1 DEF Shut
  <2>3. \A v \in Workers : v # w => todo'[v] = todo[v] /\ won'[v] = won[v]
    BY <1>1, <1>2 DEF ClaimWon, ClaimRaceLost, ClaimFailed, Tries, TypeOK
  <2> QED  BY <1>1, <2>2, <2>3 DEF Shut
<1>3. ASSUME UNCHANGED <<todo, won>> PROVE Shut'  BY <1>1, <1>3 DEF Shut
<1>4. ASSUME Start(w) \/ WatchForget(w) \/ WatchSend(w) \/ WatchEnd(w) \/ NotifyLostAll(w)
             \/ LeaseExpire(w) \/ ReleaseDone(w)
      PROVE  UNCHANGED <<todo, won>>
  BY <1>4 DEF Start, WatchForget, WatchSend, WatchEnd, NotifyLostAll, LeaseExpire, ReleaseDone, claimVars
<1>5. ASSUME Verify(w) PROVE UNCHANGED <<todo, won>>
  BY <1>5 DEF Verify, VerifyStart, VerifyMark, VerifyMissing, VerifyOurs, Looks, claimVars
<1>6. ASSUME NEW p \in Products, WatchOurs(w, p) \/ WatchFreed(w, p) \/ ReleaseDelete(w, p) \/ ReleaseFailed(w, p)
      PROVE  UNCHANGED <<todo, won>>
  BY <1>6 DEF WatchOurs, WatchFreed, ReleaseDelete, ReleaseFailed, Releases, claimVars
<1> QED  BY <1>2, <1>3, <1>4, <1>5, <1>6 DEF CoordinatorOnly

LEMMA ShutEnds ==
    ASSUME TInv, Shut, NEW w \in Workers, LosesMemory(w)
    PROVE  \A end \in Life : Vanish(w, end) => Shut'
BY DEF TInv, CollectorTypeOK, TypeOK, Shut, LosesMemory, Vanish

LEMMA ShutNext == TInv /\ Shut /\ [CollectorNext]_allVars => Shut'
<1> SUFFICES ASSUME TInv, Shut, [CollectorNext]_allVars PROVE Shut'  OBVIOUS
<1>1. TypeOK /\ OwnTypeOK  BY DEF TInv, CollectorTypeOK, OwnTypeOK
<1>2. ASSUME UNCHANGED allVars PROVE Shut'
  BY <1>2 DEF allVars, vars, claimVars, collectorVars, Shut
<1>3. ASSUME NEW w \in Workers, LoopClaims(w) PROVE Shut'
  <2>1. run[w] = "loop" /\ UNCHANGED <<run, claimed, won>>
    BY <1>3 DEF LoopClaims, AtSelect, collectorVars, ClaimStart, ClaimFreed
  <2>2. \A v \in Workers : v # w => todo'[v] = todo[v]
    BY <1>1, <1>3 DEF LoopClaims, ClaimStart, ClaimFreed, TypeOK
  <2> QED  BY <2>1, <2>2 DEF Shut
<1>4. ASSUME NEW w \in Workers, LoopRecords(w) PROVE Shut'
  <2>1. won[w] # NoProduct /\ UNCHANGED <<run, todo>>  BY <1>4 DEF LoopRecords, ClaimRecord
  <2>2. run[w] = "loop"  BY <2>1 DEF Shut
  <2>3. \A v \in Workers : v # w => won'[v] = won[v] /\ claimed'[v] = claimed[v]
    BY <1>1, <1>4 DEF LoopRecords, ClaimRecord, TypeOK, OwnTypeOK
  <2> QED  BY <2>1, <2>2, <2>3 DEF Shut
<1>5. ASSUME NEW w \in Workers, LoopLoses(w) \/ MainReleases(w) PROVE Shut'
  BY <1>5 DEF LoopLoses, TakeLost, MainReleases, ReleaseStart, claimVars, collectorVars, Shut
<1>6. ASSUME NEW w \in Workers, LoopStops(w) \/ CloseReviews(w) PROVE Shut'
  <2>1. UNCHANGED <<todo, won, claimed>>
    BY <1>6 DEF LoopStops, CloseReviews, vars, claimVars
  <2>2. ASSUME NEW v \in Workers, run'[v] # "loop"
        PROVE  claimed[v] = {} /\ todo[v] = {} /\ won[v] = NoProduct
    <3>1. CASE run[v] # "loop"  BY <3>1 DEF Shut
    <3>2. CASE run[v] = "loop"
      <4>1. v = w /\ LoopStops(w)
        BY <1>1, <1>6, <2>2, <3>2 DEF LoopStops, CloseReviews, OwnTypeOK
      <4> QED  BY <4>1 DEF LoopStops, AtSelect, ClaimIdle
    <3> QED  BY <3>1, <3>2
  <2> QED  BY <2>1, <2>2 DEF Shut
<1>7. ASSUME NEW w \in Workers, NEW p \in Products, Spawn(w, p) PROVE Shut'
  <2>1. UNCHANGED <<run, todo, won>>  BY <1>7 DEF Spawn, vars, claimVars
  <2>2. \A v \in Workers : claimed'[v] \subseteq claimed[v]  BY <1>1, <1>7 DEF Spawn, OwnTypeOK
  <2>3. \A v \in Workers : claimed[v] = {} => claimed'[v] = {}  BY <2>2
  <2> QED  BY <2>1, <2>3 DEF Shut
<1>8. ASSUME NEW w \in Workers, NEW g \in Goroutines,
             \/ Fetch(w, g) \/ FetchFails(w, g) \/ SendReviews(w, g)
             \/ Collected(w, g) \/ Cancelled(w, g)
      PROVE  Shut'
  <2>1. UNCHANGED <<run, claimed, todo, won>>
    BY <1>8 DEF Fetch, FetchFails, SendReviews, Collected, Cancelled, Goes, Returns,
                MarkProductCollected, vars, claimVars
  <2> QED  BY <2>1 DEF Shut
<1>9. ASSUME NEW w \in Workers, NEW g \in Goroutines, SendPanics(w, g) PROVE Shut'
  BY <1>9, ShutEnds DEF SendPanics, Life
<1>10. ASSUME NEW w \in Workers, ProcessEnds(w) PROVE Shut'
  BY <1>10, ShutEnds DEF ProcessEnds, Crash, Close, WatchPanic, Life
<1>11. CASE CollectorNext
  <2>1. ASSUME NEW w \in Workers, NEW g \in Goroutines,
               \/ Fetch(w, g) \/ FetchFails(w, g) \/ SendReviews(w, g) \/ SendPanics(w, g)
               \/ Collected(w, g) \/ Cancelled(w, g)
        PROVE  Shut'
    BY <1>8, <1>9, <2>1
  <2> QED
    BY <1>3, <1>4, <1>5, <1>6, <1>7, <1>10, <1>11, <2>1, ShutQuiet DEF CollectorNext
<1> QED  BY <1>2, <1>11

LEMMA CoveredNext == SInv /\ [CollectorNext]_allVars => Covered'
<1> SUFFICES ASSUME SInv, [CollectorNext]_allVars PROVE Covered'  OBVIOUS
<1>1. OwnTypeOK /\ Placed /\ UntrackedWereDetached /\ Shut /\ Covered
  BY DEF SInv, TInv, CollectorTypeOK, OwnTypeOK
<1>2. ASSUME UNCHANGED <<run, at, work, waiting, detached>> PROVE Covered'
  BY <1>1, <1>2 DEF Covered
<1>3. ASSUME NEW w \in Workers, LoopRecords(w) PROVE Covered'  BY <1>2, <1>3 DEF LoopRecords
<1>4. ASSUME NEW w \in Workers, CoordinatorOnly(w) \/ LoopClaims(w) \/ MainReleases(w) PROVE Covered'
  <2>1. UNCHANGED collectorVars  BY <1>4 DEF CoordinatorOnly, LoopClaims, MainReleases
  <2> QED  BY <1>2, <2>1 DEF collectorVars
<1>5. ASSUME UNCHANGED allVars PROVE Covered'  BY <1>2, <1>5 DEF allVars, collectorVars
<1>6. ASSUME NEW w \in Workers, LoopLoses(w) PROVE Covered'
  <2>1. UNCHANGED <<run, at, work, waiting>>  BY <1>6 DEF LoopLoses
  <2>2. \A v \in Workers : detached[v] \subseteq detached'[v]  BY <1>1, <1>6 DEF LoopLoses, OwnTypeOK
  <2> QED  BY <1>1, <2>1, <2>2 DEF Covered
<1>7. ASSUME NEW w \in Workers, LoopStops(w) PROVE Covered'
  <2>1. UNCHANGED <<at, work, detached>>  BY <1>7 DEF LoopStops
  <2>2. \A v \in Workers : v # w => run'[v] = run[v] /\ waiting'[v] = waiting[v]
    BY <1>1, <1>7 DEF LoopStops, OwnTypeOK
  <2>3. run'[w] = "waiting" /\ waiting'[w] = {tracked[w][p] : p \in Products} \ {NoGoroutine}
    BY <1>1, <1>7 DEF LoopStops, OwnTypeOK
  <2>4. ASSUME NEW g \in Goroutines, at[w][g] # "off", work[w][g] \notin detached[w]
        PROVE  g \in waiting'[w]
    <3>1. tracked[w][work[w][g]] = g  BY <1>1, <2>4 DEF UntrackedWereDetached
    <3>2. work[w][g] \in Products  BY <1>1, <2>4 DEF Placed
    <3>3. g # NoGoroutine  BY DEF Goroutines, NoGoroutine
    <3> QED  BY <2>3, <3>1, <3>2, <3>3
  <2> QED  BY <1>1, <2>1, <2>2, <2>3, <2>4 DEF Covered
<1>8. ASSUME NEW w \in Workers, CloseReviews(w) PROVE Covered'
  <2>1. UNCHANGED <<at, work, waiting, detached>>  BY <1>8 DEF CloseReviews
  <2>2. \A v \in Workers : v # w => run'[v] = run[v]  BY <1>1, <1>8 DEF CloseReviews, OwnTypeOK
  <2>3. run[w] = "waiting" /\ run'[w] = "ended" /\ \A g \in waiting[w] : at[w][g] = "off"
    BY <1>1, <1>8 DEF CloseReviews, OwnTypeOK
  <2> QED  BY <1>1, <2>1, <2>2, <2>3 DEF Covered
<1>9. ASSUME NEW w \in Workers, NEW p \in Products, Spawn(w, p) PROVE Covered'
  <2>1. run[w] = "loop"  BY <1>1, <1>9 DEF Spawn, Shut
  <2>2. UNCHANGED <<run, waiting, detached>>  BY <1>9 DEF Spawn
  <2>3. \A v \in Workers : v # w => at'[v] = at[v] /\ work'[v] = work[v]
    BY <1>1, <1>9 DEF Spawn, OwnTypeOK
  <2> QED  BY <1>1, <2>1, <2>2, <2>3 DEF Covered
<1>10. ASSUME NEW w \in Workers, NEW g \in Goroutines,
              NEW from \in {"fetch", "send"}, NEW to \in {"send", "mark"}, Goes(w, g, from, to)
       PROVE  Covered'
  BY <1>1, <1>10 DEF Goes, OwnTypeOK, Covered
<1>11. ASSUME NEW w \in Workers, NEW g \in Goroutines, Returns(w, g) PROVE Covered'
  <2>1. \A v \in Workers, h \in Goroutines : at'[v][h] # "off" =>
          at'[v][h] = at[v][h] /\ work'[v][h] = work[v][h]
    BY <1>1, <1>11 DEF Returns, OwnTypeOK
  <2>2. UNCHANGED <<run, waiting, detached>>  BY <1>11 DEF Returns
  <2> QED  BY <1>1, <2>1, <2>2 DEF Covered
<1>12. ASSUME NEW w \in Workers, LosesMemory(w) PROVE Covered'
  <2>1. \A v \in Workers : v # w =>
          /\ at'[v] = at[v] /\ work'[v] = work[v] /\ run'[v] = run[v]
          /\ waiting'[v] = waiting[v] /\ detached'[v] = detached[v]
    BY <1>1, <1>12 DEF LosesMemory, OwnTypeOK
  <2>2. at'[w] = AllOff  BY <1>1, <1>12 DEF LosesMemory, OwnTypeOK
  <2> QED  BY <1>1, <2>1, <2>2 DEF Covered, AllOff
<1>13. CASE CollectorNext
  <2>1. ASSUME NEW w \in Workers, NEW g \in Goroutines, Fetch(w, g) \/ SendReviews(w, g) PROVE Covered'
    BY <1>10, <2>1 DEF Fetch, SendReviews
  <2>2. ASSUME NEW w \in Workers, NEW g \in Goroutines,
               FetchFails(w, g) \/ Collected(w, g) \/ Cancelled(w, g)
        PROVE  Covered'
    BY <1>11, <2>2 DEF FetchFails, Collected, Cancelled
  <2>3. ASSUME NEW w \in Workers, NEW g \in Goroutines, SendPanics(w, g) PROVE Covered'
    BY <1>12, <2>3 DEF SendPanics
  <2>4. ASSUME NEW w \in Workers, ProcessEnds(w) PROVE Covered'  BY <1>12, <2>4 DEF ProcessEnds
  <2> QED
    BY <1>3, <1>4, <1>6, <1>7, <1>8, <1>9, <1>13, <2>1, <2>2, <2>3, <2>4 DEF CollectorNext
<1> QED  BY <1>5, <1>13

LEMMA SInvNext == SInv /\ [CollectorNext]_allVars => SInv'
BY TInvNext, UntrackedNext, ShutNext, CoveredNext DEF SInv

(* A goroutine that is going to send on the closed reviews channel collects a product whose *)
(* loss was handled while a goroutine collected it: stopAllWorkers waits for all the others. *)
THEOREM ClosedDetached == CollectorSpec => []ClosedOnDetached
<1>1. SInv /\ [CollectorNext]_allVars => SInv'  BY SInvNext
<1>2. SInv => ClosedOnDetached  BY DEF SInv, Covered, ClosedOnDetached
<1> QED  BY <1>1, <1>2, SInvInit, PTL DEF CollectorSpec
-----------------------------------------------------------------------------
(***************************************************************************)
(* What holds while no lease is lost.  Everything a running process goes   *)
(* by -- its entries, what it has claimed, what its checker looks up, the  *)
(* products of its goroutines -- is part of the keys it holds in etcd, so  *)
(* no check finds a product missing and no notice of a loss is ever sent.  *)
(***************************************************************************)
OwnsAll(w) ==
    proc[w] \in {"new", "running"} =>
        /\ Entries(w) \cup claimed[w] \cup toVerify[w] \cup ({won[w]} \ {NoProduct}) \subseteq KeysOf(w)
        /\ lost[w] = <<>> /\ missing[w] = NoProduct

Kept(w) ==
    /\ OwnsAll(w)
    /\ proc[w] = "releasing" => toRelease[w] \subseteq KeysOf(w)
    /\ proc[w] = "new" => w \notin lease
    /\ \A g \in Goroutines : at[w][g] # "off" => proc[w] = "running" /\ holder[work[w][g]] = w
    /\ detached[w] = {}

LInv == SInv /\ (mode = "leased" => \A w \in Workers : Kept(w))

\* What the collector w does.
CollectorStep(w) ==
    \/ CoordinatorOnly(w) \/ ProcessEnds(w)
    \/ LoopClaims(w) \/ LoopRecords(w) \/ LoopLoses(w) \/ LoopStops(w)
    \/ CloseReviews(w) \/ MainReleases(w)
    \/ \E p \in Products : Spawn(w, p)
    \/ \E g \in Goroutines :
        \/ Fetch(w, g) \/ FetchFails(w, g) \/ SendReviews(w, g) \/ SendPanics(w, g)
        \/ Collected(w, g) \/ Cancelled(w, g)

\* The part of its memory that the invariant is about.
Same(v) ==
    /\ proc'[v] = proc[v] /\ owned'[v] = owned[v] /\ won'[v] = won[v] /\ lost'[v] = lost[v]
    /\ toVerify'[v] = toVerify[v] /\ missing'[v] = missing[v] /\ toRelease'[v] = toRelease[v]
    /\ claimed'[v] = claimed[v] /\ at'[v] = at[v] /\ work'[v] = work[v] /\ detached'[v] = detached[v]

(* A step of the coordinator alone writes the memory of its process only. *)
LEMMA AlonePart ==
    ASSUME TypeOK, NEW w \in Workers, CoordinatorOnly(w)
    PROVE  \A v \in Workers : v # w => Same(v)
<1>1. UNCHANGED <<claimed, at, work, detached>>  BY DEF CoordinatorOnly, collectorVars
<1>2. ASSUME Start(w) \/ WatchForget(w) \/ WatchSend(w) \/ WatchEnd(w) \/ LeaseExpire(w) \/ ReleaseDone(w)
      PROVE  \A v \in Workers : v # w => Same(v)
  BY <1>1, <1>2 DEF Start, WatchForget, WatchSend, WatchEnd, LeaseExpire, ReleaseDone, TypeOK, Same,
       mapVars, chanVars, claimVars, checkVars
<1>3. ASSUME NotifyLostAll(w) PROVE \A v \in Workers : v # w => Same(v)
  BY <1>1, <1>3 DEF NotifyLostAll, SendLost, TypeOK, Same, claimVars, checkVars
<1>4. ASSUME VerifyStart(w) PROVE \A v \in Workers : v # w => Same(v)
  BY <1>1, <1>4 DEF VerifyStart, TypeOK, Same, mapVars, chanVars, claimVars
<1>5. ASSUME VerifyMark(w) PROVE \A v \in Workers : v # w => Same(v)
  BY <1>1, <1>5 DEF VerifyMark, SendLost, TypeOK, Same, claimVars
<1>6. ASSUME NEW p \in Products, VerifyMissing(w, p) \/ VerifyOurs(w, p)
      PROVE  \A v \in Workers : v # w => Same(v)
  BY <1>1, <1>6 DEF VerifyMissing, VerifyOurs, Looks, TypeOK, Same, mapVars, chanVars, claimVars
<1>7. ASSUME NEW p \in Products, ClaimWon(w, p) \/ ClaimRaceLost(w, p) \/ ClaimFailed(w, p)
      PROVE  \A v \in Workers : v # w => Same(v)
  BY <1>1, <1>7 DEF ClaimWon, ClaimRaceLost, ClaimFailed, Tries, TypeOK, Same, mapVars, chanVars, checkVars
<1>8. ASSUME NEW p \in Products, WatchOurs(w, p) \/ WatchFreed(w, p)
      PROVE  \A v \in Workers : v # w => Same(v)
  BY <1>1, <1>8 DEF WatchOurs, WatchFreed, TypeOK, Same, mapVars, chanVars, claimVars, checkVars
<1>9. ASSUME NEW p \in Products, ReleaseDelete(w, p) \/ ReleaseFailed(w, p)
      PROVE  \A v \in Workers : v # w => Same(v)
  BY <1>1, <1>9 DEF ReleaseDelete, ReleaseFailed, Releases, TypeOK, Same, mapVars, chanVars, claimVars, checkVars
<1> QED  BY <1>2, <1>3, <1>4, <1>5, <1>6, <1>7, <1>8, <1>9 DEF CoordinatorOnly, Verify

(* A collector writes its own memory only. *)
LEMMA OthersSame ==
    ASSUME TInv, NEW w \in Workers, CollectorStep(w)
    PROVE  \A v \in Workers : v # w => Same(v)
<1>1. TypeOK /\ OwnTypeOK  BY DEF TInv, CollectorTypeOK, OwnTypeOK
<1>2. ASSUME LosesMemory(w), NEW end \in Life, Vanish(w, end) PROVE \A v \in Workers : v # w => Same(v)
  BY <1>1, <1>2 DEF LosesMemory, Vanish, TypeOK, OwnTypeOK, Same
<1>3. ASSUME ProcessEnds(w) PROVE \A v \in Workers : v # w => Same(v)
  BY <1>2, <1>3 DEF ProcessEnds, Crash, Close, WatchPanic, Life
<1>4. ASSUME NEW g \in Goroutines, SendPanics(w, g) PROVE \A v \in Workers : v # w => Same(v)
  BY <1>2, <1>4 DEF SendPanics, Life
<1>5. ASSUME LoopClaims(w) PROVE \A v \in Workers : v # w => Same(v)
  BY <1>1, <1>5 DEF LoopClaims, ClaimStart, ClaimFreed, TypeOK, Same, mapVars, chanVars, checkVars, collectorVars
<1>6. ASSUME LoopRecords(w) PROVE \A v \in Workers : v # w => Same(v)
  BY <1>1, <1>6 DEF LoopRecords, ClaimRecord, TypeOK, OwnTypeOK, Same, chanVars, checkVars
<1>7. ASSUME LoopLoses(w) PROVE \A v \in Workers : v # w => Same(v)
  BY <1>1, <1>7 DEF LoopLoses, TakeLost, TypeOK, OwnTypeOK, Same, mapVars, claimVars, checkVars
<1>8. ASSUME LoopStops(w) \/ CloseReviews(w) PROVE \A v \in Workers : v # w => Same(v)
  BY <1>8 DEF LoopStops, CloseReviews, Same, vars, mapVars, chanVars, claimVars, checkVars
<1>9. ASSUME MainReleases(w) PROVE \A v \in Workers : v # w => Same(v)
  BY <1>1, <1>9 DEF MainReleases, ReleaseStart, TypeOK, Same, mapVars, chanVars, claimVars, checkVars, collectorVars
<1>10. ASSUME NEW p \in Products, Spawn(w, p) PROVE \A v \in Workers : v # w => Same(v)
  BY <1>1, <1>10 DEF Spawn, OwnTypeOK, Same, vars, mapVars, chanVars, claimVars, checkVars
<1>11. ASSUME NEW g \in Goroutines, Fetch(w, g) \/ SendReviews(w, g) PROVE \A v \in Workers : v # w => Same(v)
  BY <1>1, <1>11 DEF Fetch, SendReviews, Goes, OwnTypeOK, Same, vars, mapVars, chanVars, claimVars, checkVars
<1>12. ASSUME NEW g \in Goroutines, FetchFails(w, g) \/ Collected(w, g) \/ Cancelled(w, g)
       PROVE  \A v \in Workers : v # w => Same(v)
  <2>1. \A v \in Workers : v # w =>
            claimed'[v] = claimed[v] /\ at'[v] = at[v] /\ work'[v] = work[v] /\ detached'[v] = detached[v]
    BY <1>1, <1>12 DEF FetchFails, Collected, Cancelled, Returns, OwnTypeOK
  <2>2. UNCHANGED vars \/ MarkProductCollected(w, work[w][g])
    BY <1>12 DEF FetchFails, Collected, Cancelled
  <2> QED
    BY <1>1, <2>1, <2>2 DEF MarkProductCollected, TypeOK, Same, vars, mapVars, chanVars, claimVars, checkVars
<1> QED  BY <1>1, <1>3, <1>4, <1>5, <1>6, <1>7, <1>8, <1>9, <1>10, <1>11, <1>12, AlonePart DEF CollectorStep

(* How a step changes the keys: it creates one, deletes one it is to release, or ends its own lease. *)
Creates(w) == \E p \in Products : holder[p] = NoWorker /\ holder' = [holder EXCEPT ![p] = w]

Deletes(w) ==
    /\ proc[w] = "releasing"
    /\ \E p \in toRelease[w] :
        /\ holder' = [q \in Products |-> IF q \in {p} THEN NoWorker ELSE holder[q]]
        /\ toRelease'[w] = toRelease[w] \ {p}

Drops(w) == holder' = [p \in Products |-> IF p \in KeysOf(w) THEN NoWorker ELSE holder[p]]

LEMMA KeyChanges ==
    ASSUME TypeOK, NEW w \in Workers, CollectorStep(w), ~CutOff(w)
    PROVE  \/ UNCHANGED <<holder, lease>>
           \/ UNCHANGED holder /\ lease' = lease \cup {w} /\ proc'[w] = "running"
           \/ proc[w] = "running" /\ Creates(w) /\ UNCHANGED lease
           \/ Deletes(w) /\ UNCHANGED lease
           \/ /\ Drops(w) /\ lease' = lease \ {w} /\ w \in lease
              /\ proc'[w] \notin {"running", "releasing"} /\ (proc'[w] = proc[w] \/ proc'[w] # "new")
<1> DEFINE Changes ==
           \/ UNCHANGED <<holder, lease>>
           \/ UNCHANGED holder /\ lease' = lease \cup {w} /\ proc'[w] = "running"
           \/ proc[w] = "running" /\ Creates(w) /\ UNCHANGED lease
           \/ Deletes(w) /\ UNCHANGED lease
           \/ /\ Drops(w) /\ lease' = lease \ {w} /\ w \in lease
              /\ proc'[w] \notin {"running", "releasing"} /\ (proc'[w] = proc[w] \/ proc'[w] # "new")
<1>1. ASSUME Start(w) PROVE Changes  BY <1>1 DEF Start, TypeOK
<1>2. ASSUME NEW p \in Products, ClaimWon(w, p) \/ ClaimRaceLost(w, p) \/ ClaimFailed(w, p) PROVE Changes
  BY <1>2 DEF ClaimWon, ClaimRaceLost, ClaimFailed, Tries, CanCreate, CreateKey, Creates
<1>3. ASSUME NEW p \in Products, ReleaseDelete(w, p) \/ ReleaseFailed(w, p) PROVE Changes
  <2>1. /\ proc[w] = "releasing" /\ p \in toRelease[w] /\ toRelease'[w] = toRelease[w] \ {p}
        /\ UNCHANGED lease /\ (DeleteKeys({p}, watching) \/ UNCHANGED holder)
    BY <1>3 DEF ReleaseDelete, ReleaseFailed, Releases, TypeOK
  <2>2. CASE UNCHANGED holder  BY <2>1, <2>2
  <2>3. CASE DeleteKeys({p}, watching)
    <3>1. holder' = [q \in Products |-> IF q \in {p} THEN NoWorker ELSE holder[q]]  BY <2>3 DEF DeleteKeys
    <3>2. Deletes(w)  BY <2>1, <3>1 DEF Deletes
    <3> QED  BY <2>1, <3>2
  <2> QED  BY <2>1, <2>2, <2>3
<1>4. ASSUME LeaseExpire(w) PROVE Changes
  <2>1. Drops(w) /\ lease' = lease \ {w} /\ w \in lease /\ proc' = proc
    BY <1>4 DEF LeaseExpire, EndLease, DeleteKeys, Drops
  <2>2. proc[w] \notin {"running", "releasing"}  BY <2>1 DEF CutOff
  <2> QED  BY <2>1, <2>2
<1>5. ASSUME ProcessEnds(w) PROVE Changes
  <2>1. CASE Close(w)
    <3>1. proc'[w] = "gone"  BY <2>1 DEF Close, Vanish, TypeOK
    <3>2. \/ UNCHANGED <<holder, lease>>
          \/ Drops(w) /\ lease' = lease \ {w} /\ w \in lease
      BY <2>1 DEF Close, DeleteKeys, Drops
    <3> QED  BY <3>1, <3>2
  <2>2. CASE ~Close(w)  BY <1>5, <2>2 DEF ProcessEnds, Crash, WatchPanic
  <2> QED  BY <2>1, <2>2
<1>6. ASSUME \/ WatchForget(w) \/ WatchSend(w) \/ WatchEnd(w) \/ NotifyLostAll(w) \/ ReleaseDone(w)
             \/ \E p \in Products : WatchOurs(w, p) \/ WatchFreed(w, p)
      PROVE  UNCHANGED <<holder, lease>>
  BY <1>6 DEF WatchForget, WatchSend, WatchEnd, NotifyLostAll, ReleaseDone, WatchOurs, WatchFreed, etcdVars
<1>7. ASSUME Verify(w) PROVE UNCHANGED <<holder, lease>>
  BY <1>7 DEF Verify, VerifyStart, VerifyMark, VerifyMissing, VerifyOurs, Looks, etcdVars
<1>8. ASSUME \/ LoopClaims(w) \/ LoopRecords(w) \/ LoopLoses(w) \/ LoopStops(w) \/ CloseReviews(w)
             \/ MainReleases(w) \/ \E p \in Products : Spawn(w, p)
      PROVE  UNCHANGED <<holder, lease>>
  BY <1>8 DEF LoopClaims, ClaimStart, ClaimFreed, LoopRecords, ClaimRecord, LoopLoses, TakeLost, LoopStops,
       CloseReviews, MainReleases, ReleaseStart, Spawn, vars, etcdVars
<1>9. ASSUME NEW g \in Goroutines,
             \/ Fetch(w, g) \/ FetchFails(w, g) \/ SendReviews(w, g) \/ SendPanics(w, g)
             \/ Collected(w, g) \/ Cancelled(w, g)
      PROVE  UNCHANGED <<holder, lease>>
  BY <1>9 DEF Fetch, FetchFails, SendReviews, SendPanics, Collected, Cancelled, Goes, MarkProductCollected,
       vars, etcdVars
<1> QED  BY <1>1, <1>2, <1>3, <1>4, <1>5, <1>6, <1>7, <1>8, <1>9 DEF CollectorStep, CoordinatorOnly

(* The collectors that do not move keep their keys, and what they rest on them. *)
LEMMA OthersKept ==
    ASSUME TInv, \A v \in Workers : Kept(v), NEW w \in Workers, CollectorStep(w), ~CutOff(w)
    PROVE  \A v \in Workers : v # w => Kept(v)'
<1>1. TypeOK /\ Placed  BY DEF TInv, CollectorTypeOK
<1>2. SUFFICES ASSUME NEW v \in Workers, v # w PROVE Kept(v)'  OBVIOUS
<1>3. \A p \in Products : holder[p] = v => holder'[p] = v
  <2>1. holder \in [Products -> Workers \cup {NoWorker}] /\ NoWorker \notin Workers
    BY <1>1, NoWorkerAssumption DEF TypeOK, EtcdTypeOK
  <2>2. CASE Creates(w)  BY <1>2, <2>1, <2>2 DEF Creates
  <2>3. CASE Deletes(w)
    <3>1. toRelease[w] \subseteq KeysOf(w)  BY <2>3 DEF Kept, Deletes
    <3> QED  BY <1>2, <2>1, <2>3, <3>1 DEF Deletes, KeysOf
  <2>4. CASE Drops(w)  BY <1>2, <2>1, <2>4 DEF Drops, KeysOf
  <2> QED  BY <1>1, <2>2, <2>3, <2>4, KeyChanges
<1>4. KeysOf(v) \subseteq KeysOf(v)'  BY <1>3 DEF KeysOf
<1>5. v \in lease' => v \in lease  BY <1>1, <1>2, KeyChanges
<1>6. Same(v)  BY <1>2, OthersSame
<1>7. Kept(v)  OBVIOUS
<1>8. OwnsAll(v)'
  <2>1. Entries(v)' = Entries(v)  BY <1>6 DEF Entries, Same
  <2> QED  BY <1>4, <1>6, <1>7, <2>1 DEF Kept, OwnsAll, Same
<1>9. \A g \in Goroutines : at'[v][g] # "off" => proc'[v] = "running" /\ holder'[work'[v][g]] = v
  BY <1>1, <1>3, <1>6, <1>7 DEF Kept, Same, Placed
<1> QED  BY <1>4, <1>5, <1>6, <1>7, <1>8, <1>9 DEF Kept, Same

(* The process goes on as it was and has no more than before of what the invariant is about. *)
LEMMA KeptShrinks ==
    ASSUME TInv, NEW w \in Workers, Kept(w),
           proc'[w] = proc[w],
           Entries(w)' \subseteq Entries(w), claimed'[w] \subseteq claimed[w],
           toVerify'[w] \subseteq toVerify[w], toRelease'[w] \subseteq toRelease[w],
           won'[w] \in {won[w], NoProduct}, lost'[w] = lost[w], missing'[w] = missing[w],
           \A g \in Goroutines : at'[w][g] # "off" => at[w][g] # "off" /\ work'[w][g] = work[w][g],
           detached'[w] = detached[w], UNCHANGED <<holder, lease>>
    PROVE  Kept(w)'
<1>1. KeysOf(w)' = KeysOf(w)  BY DEF KeysOf
<1>2. OwnsAll(w)'  BY <1>1 DEF Kept, OwnsAll
<1> QED  BY <1>1, <1>2 DEF Kept

(* A process that does not run has no goroutine, so little is asked of it. *)
LEMMA KeptStopped ==
    ASSUME NEW w \in Workers, Kept(w), proc[w] # "running",
           proc'[w] \notin {"new", "running", "releasing"},
           at'[w] = at[w], detached'[w] = detached[w]
    PROVE  Kept(w)'
BY DEF Kept, OwnsAll

LEMMA KeptEnded ==
    ASSUME TInv, NEW w \in Workers, LosesMemory(w),
           NEW end \in {"gone", "crashed", "panicked"}, Vanish(w, end)
    PROVE  Kept(w)'
<1>1. TypeOK /\ OwnTypeOK  BY DEF TInv, CollectorTypeOK, OwnTypeOK
<1>2. proc'[w] = end  BY <1>1 DEF Vanish, TypeOK
<1>3. at'[w] = AllOff /\ detached'[w] = {}  BY <1>1 DEF LosesMemory, OwnTypeOK
<1> QED  BY <1>2, <1>3 DEF Kept, OwnsAll, AllOff

(* The steps of the coordinator alone keep what their own process has. *)
LEMMA KeptAlone ==
    ASSUME SInv, NEW w \in Workers, Kept(w), CoordinatorOnly(w), ~CutOff(w)
    PROVE  Kept(w)'
<1>1. TInv /\ TypeOK /\ OwnTypeOK /\ Placed  BY DEF SInv, TInv, CollectorTypeOK, OwnTypeOK
<1>2. UNCHANGED <<claimed, at, work, detached>>  BY DEF CoordinatorOnly, collectorVars
<1>3. ASSUME Start(w) PROVE Kept(w)'
  <2>1. proc[w] = "new" /\ proc'[w] = "running" /\ UNCHANGED <<holder, owned, toVerify, won, lost, missing>>
    BY <1>1, <1>3 DEF Start, TypeOK, mapVars, chanVars, claimVars, checkVars
  <2>2. OwnsAll(w)'  BY <1>2, <2>1 DEF Kept, OwnsAll, Entries, KeysOf
  <2>3. \A g \in Goroutines : at'[w][g] = "off"  BY <1>2, <2>1 DEF Kept
  <2> QED  BY <1>2, <2>1, <2>2, <2>3 DEF Kept
<1>4. ASSUME WatchForget(w) PROVE Kept(w)'
  <2>1. Entries(w)' \subseteq Entries(w)  BY <1>1, <1>4 DEF WatchForget, TypeOK, Entries
  <2> QED
    BY <1>1, <1>2, <1>4, <2>1, KeptShrinks DEF WatchForget, etcdVars, chanVars, claimVars, checkVars
<1>5. ASSUME WatchSend(w) \/ WatchEnd(w) \/ \E p \in Products : WatchOurs(w, p) \/ WatchFreed(w, p)
      PROVE  Kept(w)'
  <2>1. UNCHANGED <<holder, lease, proc, owned, lost, won, toVerify, missing, toRelease>>
    BY <1>5 DEF WatchSend, WatchEnd, WatchOurs, WatchFreed, etcdVars, mapVars, chanVars, claimVars, checkVars
  <2>2. Entries(w)' = Entries(w)  BY <2>1 DEF Entries
  <2> QED  BY <1>1, <1>2, <2>1, <2>2, KeptShrinks
<1>6. ASSUME VerifyStart(w) PROVE Kept(w)'
  <2>1. /\ proc[w] = "running" /\ toVerify'[w] = Entries(w)
        /\ UNCHANGED <<holder, lease, proc, owned, lost, won, missing, toRelease>>
    BY <1>1, <1>6 DEF VerifyStart, TypeOK, etcdVars, mapVars, chanVars, claimVars
  <2>2. OwnsAll(w)'  BY <1>2, <2>1 DEF Kept, OwnsAll, Entries, KeysOf
  <2> QED  BY <1>2, <2>1, <2>2 DEF Kept, KeysOf
<1>7. ASSUME NEW p \in Products, VerifyMissing(w, p) PROVE Kept(w)'
  <2>1. /\ proc[w] \in {"running", "releasing", "leaving"} /\ p \in toVerify[w] /\ holder[p] # w
        /\ UNCHANGED <<holder, lease, proc, toRelease>>
    BY <1>7 DEF VerifyMissing, Looks, Alive, etcdVars
  <2>2. proc[w] # "running"  BY <2>1 DEF Kept, OwnsAll, KeysOf
  <2>3. OwnsAll(w)'  BY <2>1, <2>2 DEF OwnsAll
  <2> QED  BY <1>2, <2>1, <2>3 DEF Kept, KeysOf
<1>8. ASSUME NEW p \in Products, VerifyOurs(w, p) PROVE Kept(w)'
  <2>1. /\ toVerify'[w] \subseteq toVerify[w]
        /\ UNCHANGED <<holder, lease, proc, owned, lost, won, missing, toRelease>>
    BY <1>1, <1>8 DEF VerifyOurs, Looks, TypeOK, etcdVars, mapVars, chanVars, claimVars
  <2>2. Entries(w)' = Entries(w)  BY <2>1 DEF Entries
  <2> QED  BY <1>1, <1>2, <2>1, <2>2, KeptShrinks
<1>9. ASSUME VerifyMark(w) \/ NotifyLostAll(w) PROVE Kept(w)'
  <2>1. proc[w] \in {"running", "leaving"} /\ proc' = proc  BY <1>9 DEF VerifyMark, NotifyLostAll, MuFree
  <2>2. proc[w] # "running"
    <3>1. CASE VerifyMark(w)  BY <3>1 DEF VerifyMark, Kept, OwnsAll
    <3>2. CASE NotifyLostAll(w)  BY <2>1, <3>2 DEF NotifyLostAll, CutOff
    <3> QED  BY <1>9, <3>1, <3>2
  <2> QED  BY <1>2, <2>1, <2>2, KeptStopped
<1>10. ASSUME LeaseExpire(w) PROVE Kept(w)'
  <2>1. proc' = proc /\ w \in lease /\ w \notin lease'  BY <1>10 DEF LeaseExpire, EndLease
  <2>2. proc[w] \notin {"new", "running", "releasing"}  BY <2>1 DEF CutOff, Kept
  <2> QED  BY <1>2, <2>1, <2>2, KeptStopped
<1>11. ASSUME ReleaseDone(w) PROVE Kept(w)'
  <2>1. proc[w] = "releasing" /\ proc'[w] = "leaving"  BY <1>1, <1>11 DEF ReleaseDone, TypeOK
  <2> QED  BY <1>2, <2>1, KeptStopped
<1>12. ASSUME NEW p \in Products, ClaimRaceLost(w, p) \/ (ClaimFailed(w, p) /\ UNCHANGED holder) PROVE Kept(w)'
  <2>1. UNCHANGED <<holder, lease, proc, owned, lost, won, toVerify, missing, toRelease>>
    BY <1>12 DEF ClaimRaceLost, ClaimFailed, Tries, mapVars, chanVars, checkVars
  <2>2. Entries(w)' = Entries(w)  BY <2>1 DEF Entries
  <2> QED  BY <1>1, <1>2, <2>1, <2>2, KeptShrinks
<1>13. ASSUME NEW p \in Products,
              ClaimWon(w, p) \/ (ClaimFailed(w, p) /\ CanCreate(w, p) /\ CreateKey(w, p))
       PROVE  Kept(w)'
  <2>1. /\ proc[w] = "running" /\ won'[w] \in {won[w], p} /\ holder' = [holder EXCEPT ![p] = w]
        /\ UNCHANGED <<lease, proc, owned, lost, toVerify, missing, toRelease>>
    BY <1>1, <1>13 DEF ClaimWon, ClaimFailed, Tries, CreateKey, TypeOK, mapVars, chanVars, checkVars
  <2>2. KeysOf(w)' = KeysOf(w) \cup {p}  BY <1>1, <2>1 DEF KeysOf, TypeOK, EtcdTypeOK
  <2>3. OwnsAll(w)'
    <3>1. Entries(w)' = Entries(w)  BY <2>1 DEF Entries
    <3> QED  BY <1>2, <2>1, <2>2, <3>1 DEF Kept, OwnsAll
  <2>4. \A g \in Goroutines : at'[w][g] # "off" => holder'[work'[w][g]] = w
    BY <1>1, <1>2, <2>1 DEF Kept, Placed, TypeOK, EtcdTypeOK
  <2> QED  BY <1>2, <2>1, <2>3, <2>4 DEF Kept
<1>14. ASSUME NEW p \in Products, ReleaseDelete(w, p) \/ ReleaseFailed(w, p) PROVE Kept(w)'
  <2>1. /\ proc[w] = "releasing" /\ proc' = proc /\ toRelease'[w] = toRelease[w] \ {p} /\ UNCHANGED lease
        /\ (DeleteKeys({p}, watching) \/ UNCHANGED holder)
    BY <1>1, <1>14 DEF ReleaseDelete, ReleaseFailed, Releases, TypeOK
  <2>2. KeysOf(w) \ {p} \subseteq KeysOf(w)'  BY <2>1 DEF DeleteKeys, KeysOf
  <2>3. \A g \in Goroutines : at'[w][g] = "off"  BY <1>2, <2>1 DEF Kept
  <2> QED  BY <1>2, <2>1, <2>2, <2>3 DEF Kept, OwnsAll
<1> QED
  <2>1. ASSUME NEW p \in Products, ClaimFailed(w, p) PROVE Kept(w)'
    BY <1>12, <1>13, <2>1 DEF ClaimFailed
  <2> QED
    BY <1>3, <1>4, <1>5, <1>6, <1>7, <1>8, <1>9, <1>10, <1>11, <1>12, <1>13, <1>14, <2>1
       DEF CoordinatorOnly, Verify

(* So do the steps in which the collector has a part. *)
LEMMA ActorKept ==
    ASSUME SInv, NEW w \in Workers, Kept(w), CollectorStep(w), ~CutOff(w)
    PROVE  Kept(w)'
<1>1. TInv /\ TypeOK /\ OwnTypeOK /\ Placed /\ UntrackedWereDetached /\ Covered
  BY DEF SInv, TInv, CollectorTypeOK, OwnTypeOK
<1>2. ASSUME CoordinatorOnly(w) PROVE Kept(w)'  BY <1>2, KeptAlone
<1>3. ASSUME ProcessEnds(w) PROVE Kept(w)'
  <2>1. \E end \in {"gone", "crashed", "panicked"} : Vanish(w, end)
    BY <1>3 DEF ProcessEnds, Crash, Close, WatchPanic
  <2> QED  BY <1>1, <1>3, <2>1, KeptEnded DEF ProcessEnds
<1>4. ASSUME NEW g \in Goroutines, SendPanics(w, g) PROVE Kept(w)'
  BY <1>1, <1>4, KeptEnded DEF SendPanics
<1>5. ASSUME LoopClaims(w) PROVE Kept(w)'
  <2>1. UNCHANGED <<holder, lease, proc, owned, lost, won, toVerify, missing, toRelease, claimed, at, work, detached>>
    BY <1>5 DEF LoopClaims, ClaimStart, ClaimFreed, etcdVars, mapVars, chanVars, checkVars, collectorVars
  <2>2. Entries(w)' = Entries(w)  BY <2>1 DEF Entries
  <2> QED  BY <1>1, <2>1, <2>2, KeptShrinks
<1>6. ASSUME LoopRecords(w) PROVE Kept(w)'
  <2>1. /\ proc[w] = "running" /\ won[w] \in Products /\ won[w] # NoProduct /\ won'[w] = NoProduct
        /\ claimed'[w] = claimed[w] \cup {won[w]} /\ owned' = [owned EXCEPT ![w][won[w]] = "claiming"]
        /\ UNCHANGED <<holder, lease, proc, lost, toVerify, missing, toRelease, at, work, detached>>
    BY <1>1, <1>6 DEF LoopRecords, ClaimRecord, TypeOK, OwnTypeOK, etcdVars, chanVars, checkVars
  <2>2. Entries(w)' \subseteq Entries(w) \cup {won[w]}  BY <1>1, <2>1 DEF Entries, TypeOK
  <2>3. won[w] \in KeysOf(w)  BY <2>1 DEF Kept, OwnsAll
  <2>4. OwnsAll(w)'  BY <2>1, <2>2, <2>3 DEF Kept, OwnsAll, KeysOf
  <2> QED  BY <2>1, <2>4 DEF Kept, KeysOf
<1>7. ASSUME LoopLoses(w) PROVE Kept(w)'
  BY <1>7 DEF LoopLoses, TakeLost, ClaimIdle, Kept, OwnsAll
<1>8. ASSUME LoopStops(w) \/ CloseReviews(w) PROVE Kept(w)'
  <2>1. UNCHANGED <<holder, lease, proc, owned, lost, won, toVerify, missing, toRelease, claimed, at, work, detached>>
    BY <1>8 DEF LoopStops, CloseReviews, vars, etcdVars, mapVars, chanVars, claimVars, checkVars
  <2>2. Entries(w)' = Entries(w)  BY <2>1 DEF Entries
  <2> QED  BY <1>1, <2>1, <2>2, KeptShrinks
<1>9. ASSUME MainReleases(w) PROVE Kept(w)'
  <2>1. /\ proc[w] = "running" /\ proc'[w] = "releasing" /\ run[w] = "ended" /\ toRelease'[w] = Entries(w)
        /\ UNCHANGED <<holder, lease, at, detached>>
    BY <1>1, <1>9 DEF MainReleases, ReleaseStart, ClaimIdle, TypeOK, etcdVars, collectorVars
  <2>2. \A g \in Goroutines : at'[w][g] = "off"  BY <1>1, <2>1 DEF Covered, Kept
  <2>3. toRelease'[w] \subseteq KeysOf(w)'  BY <2>1 DEF Kept, OwnsAll, KeysOf
  <2> QED  BY <2>1, <2>2, <2>3 DEF Kept, OwnsAll
<1>10. ASSUME NEW p \in Products, Spawn(w, p) PROVE Kept(w)'
  <2>1. /\ proc[w] = "running" /\ p \in claimed[w] /\ claimed'[w] \subseteq claimed[w]
        /\ UNCHANGED <<holder, lease, proc, owned, lost, won, toVerify, missing, toRelease, detached>>
    BY <1>1, <1>10 DEF Spawn, ClaimIdle, OwnTypeOK, vars, etcdVars, mapVars, chanVars, claimVars, checkVars
  <2>2. holder[p] = w  BY <2>1 DEF Kept, OwnsAll, KeysOf
  <2>3. OwnsAll(w)'  BY <2>1 DEF Kept, OwnsAll, Entries, KeysOf
  <2>4. \A g \in Goroutines : at'[w][g] # "off" => holder[work'[w][g]] = w
    <3>1. CASE UNCHANGED <<at, work, tracked>>  BY <3>1 DEF Kept
    <3>2. ASSUME NEW h \in Goroutines,
                 at' = [at EXCEPT ![w][h] = "fetch"], work' = [work EXCEPT ![w][h] = p]
          PROVE  \A g \in Goroutines : at'[w][g] # "off" => holder[work'[w][g]] = w
      BY <1>1, <2>2, <3>2 DEF Kept, OwnTypeOK
    <3> QED  BY <1>10, <3>1, <3>2 DEF Spawn
  <2> QED  BY <2>1, <2>3, <2>4 DEF Kept, KeysOf
<1>11. ASSUME NEW g \in Goroutines, Fetch(w, g) \/ SendReviews(w, g) PROVE Kept(w)'
  <2>1. UNCHANGED <<holder, lease, proc, owned, lost, won, toVerify, missing, toRelease, claimed, work, detached>>
    BY <1>11 DEF Fetch, SendReviews, Goes, vars, etcdVars, mapVars, chanVars, claimVars, checkVars
  <2>2. Entries(w)' = Entries(w)  BY <2>1 DEF Entries
  <2>3. \A h \in Goroutines : at'[w][h] # "off" => at[w][h] # "off"
    BY <1>1, <1>11 DEF Fetch, SendReviews, Goes, OwnTypeOK
  <2> QED  BY <1>1, <2>1, <2>2, <2>3, KeptShrinks
<1>12. ASSUME NEW g \in Goroutines, FetchFails(w, g) \/ Collected(w, g) \/ Cancelled(w, g) PROVE Kept(w)'
  <2>1. UNCHANGED vars \/ MarkProductCollected(w, work[w][g])
    BY <1>12 DEF FetchFails, Collected, Cancelled
  <2>2. UNCHANGED <<holder, lease, proc, lost, won, toVerify, missing, toRelease>>
    BY <2>1 DEF MarkProductCollected, vars, etcdVars, mapVars, chanVars, claimVars, checkVars
  <2>3. Entries(w)' = Entries(w)
    BY <1>1, <2>1 DEF MarkProductCollected, Entries, Status, TypeOK, vars, mapVars
  <2>4. \A h \in Goroutines : at'[w][h] # "off" => at[w][h] # "off" /\ work'[w][h] = work[w][h]
    BY <1>1, <1>12 DEF FetchFails, Collected, Cancelled, Returns, OwnTypeOK
  <2>5. UNCHANGED <<claimed, detached>>
    BY <1>12 DEF FetchFails, Collected, Cancelled, Returns
  <2> QED  BY <1>1, <2>2, <2>3, <2>4, <2>5, KeptShrinks
<1> QED
  BY <1>2, <1>3, <1>4, <1>5, <1>6, <1>7, <1>8, <1>9, <1>10, <1>11, <1>12 DEF CollectorStep

LEMMA LInvInit == MCInit => LInv
<1> SUFFICES ASSUME MCInit PROVE LInv  OBVIOUS
<1>1. SInv  BY SInvInit DEF MCInit
<1>2. ASSUME NEW w \in Workers PROVE Kept(w)
  BY DEF MCInit, CollectorInit, Init, EtcdInit, Kept, OwnsAll, Entries, NoEntries, AllOff
<1> QED  BY <1>1, <1>2 DEF LInv

LEMMA LInvNext == LInv /\ [MCNext]_<<allVars, mode>> => LInv'
<1> SUFFICES ASSUME LInv, [MCNext]_<<allVars, mode>> PROVE LInv'  OBVIOUS
<1>1. mode' = mode /\ [CollectorNext]_allVars  BY DEF MCNext
<1>2. SInv'  BY <1>1, SInvNext DEF LInv
<1>3. ASSUME UNCHANGED allVars, NEW w \in Workers, Kept(w) PROVE Kept(w)'
  BY <1>3 DEF allVars, vars, etcdVars, mapVars, chanVars, claimVars, checkVars, collectorVars,
       Kept, OwnsAll, Entries, KeysOf
<1>4. ASSUME mode = "leased", MCNext, NEW v \in Workers PROVE Kept(v)'
  <2>1. PICK w \in Workers : CollectorStep(w)  BY <1>4 DEF MCNext, CollectorNext, CollectorStep
  <2>2. ~CutOff(w)  BY <1>4 DEF MCNext
  <2>3. SInv /\ TInv /\ \A u \in Workers : Kept(u)  BY <1>4 DEF LInv, SInv
  <2> QED  BY <2>1, <2>2, <2>3, OthersKept, ActorKept
<1> QED  BY <1>1, <1>2, <1>3, <1>4 DEF LInv

(* While no lease is lost a product has one collecting goroutine in all processes together: it is *)
(* of the process that holds the key, and that process has it in its map workers (spawnWorker).   *)
THEOREM LeasedCollectAlone == MCSpec => []SingleWhileLeased
<1>1. LInv => SingleWhileLeased
  <2> SUFFICES ASSUME SInv, \A w \in Workers : Kept(w) PROVE SingleCollector
    BY DEF LInv, SingleWhileLeased
  <2>1. SUFFICES ASSUME NEW p \in Products, NEW v \in Workers, NEW w \in Workers,
                        NEW g \in Working(v, p), NEW h \in Working(w, p)
                 PROVE  v = w /\ g = h
    BY DEF SingleCollector
  <2>2. holder[p] = v /\ holder[p] = w  BY DEF Working, Kept
  <2>3. tracked[v][p] = g /\ tracked[w][p] = h  BY DEF SInv, UntrackedWereDetached, Working, Kept
  <2> QED  BY <2>2, <2>3
<1> QED  BY <1>1, LInvInit, LInvNext, PTL DEF MCSpec

(* While no lease is lost no goroutine is caught by the closed reviews channel: stopAllWorkers has *)
(* waited for every one there was. *)
THEOREM LeasedSendOpen == MCSpec => []NoSendWhileLeased
<1>1. LInv => NoSendWhileLeased
  BY DEF LInv, SInv, Covered, Kept, NoSendWhileLeased, NoSendOnClosed
<1> QED  BY <1>1, LInvInit, LInvNext, PTL DEF MCSpec

(***************************************************************************)
(* ReleaseAll deletes the key of every product in ownedProducts without    *)
(* asking who holds it.  While no lease is lost that is the process's own  *)
(* keys, so a running process keeps what it holds, whatever the others do. *)
(***************************************************************************)
KeysStay ==
    mode = "leased" => \A v \in Workers, p \in Products :
        holder[p] = v /\ proc[v] = "running" /\ proc'[v] = "running" => holder'[p] = v

(* While no lease is lost no claim, release or end of a process takes a key from a process that runs. *)
THEOREM LeasedKeysStay == MCSpec => [][KeysStay]_<<allVars, mode>>
<1>1. ASSUME LInv, MCNext, mode = "leased", NEW v \in Workers, NEW p \in Products,
             holder[p] = v, proc[v] = "running", proc'[v] = "running"
      PROVE  holder'[p] = v
  <2>1. PICK w \in Workers : CollectorStep(w)  BY <1>1 DEF MCNext, CollectorNext, CollectorStep
  <2>2. ~CutOff(w) /\ Kept(w)  BY <1>1 DEF MCNext, LInv
  <2>3. /\ TypeOK /\ NoWorker \notin Workers
        /\ holder \in [Products -> Workers \cup {NoWorker}]
    BY <1>1, NoWorkerAssumption DEF LInv, SInv, TInv, CollectorTypeOK, TypeOK, EtcdTypeOK
  <2>4. CASE Creates(w)  BY <1>1, <2>3, <2>4 DEF Creates
  <2>5. CASE Deletes(w)
    <3>1. v # w /\ toRelease[w] \subseteq KeysOf(w)  BY <1>1, <2>2, <2>5 DEF Kept, Deletes
    <3> QED  BY <1>1, <2>3, <2>5, <3>1 DEF Deletes, KeysOf
  <2>6. CASE Drops(w) /\ proc'[w] # "running"  BY <1>1, <2>3, <2>6 DEF Drops, KeysOf
  <2> QED  BY <1>1, <2>1, <2>2, <2>3, <2>4, <2>5, <2>6, KeyChanges
<1>2. LInv /\ [MCNext]_<<allVars, mode>> => [KeysStay]_<<allVars, mode>>
  BY <1>1 DEF KeysStay
<1> QED  BY <1>2, LInvInit, LInvNext, PTL DEF MCSpec
=============================================================================
