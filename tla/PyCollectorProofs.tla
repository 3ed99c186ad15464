------------------------- MODULE PyCollectorProofs -------------------------
(***************************************************************************)
(* What holds of PyCollector for every number of workers, products and     *)
(* reviews, whatever fails.                                                *)
(***************************************************************************)
EXTENDS PyCollector, TLAPS

-----------------------------------------------------------------------------
(* Type correctness *)

(* There is a review underway while the collect task publishes, and otherwise none is counted. *)
Underway ==
    \A w \in Workers :
        IF collect[w] = "publish" THEN left[w] >= 1 ELSE fetched[w] = 0 /\ left[w] = 0

(* Until the first claim is over there is no collect task and nothing was counted. *)
Unstarted ==
    \A w \in Workers :
        main[w] \in {"new", "claiming"} =>
            collect[w] = "off" /\ recorded[w] = 0 /\ published[w] = 0 /\ failed[w] = 0

TInv == TypeOK /\ Underway

LEMMA TypeInit == Init => TInv
<1> SUFFICES ASSUME Init PROVE TInv  OBVIOUS
<1>1. 0 \in 0 .. MaxReviews /\ 0 \in Nat  BY PyCollectorAssumption
<1>2. EtcdTypeOK  BY DEF Init, EtcdInit, EtcdTypeOK, NoEvents
<1>3. TypeOK  BY <1>1, <1>2 DEF Init, TypeOK, Life, NoEntries
<1>4. Underway  BY DEF Init, Underway
<1> QED  BY <1>3, <1>4 DEF TInv

LEMMA DeleteKeysType ==
    ASSUME NEW P, NEW V, EtcdTypeOK, DeleteKeys(P, V)
    PROVE  /\ holder' \in [Products -> Workers \cup {NoWorker}]
           /\ deletes' \in [Workers -> [Products -> Nat]]
BY DEF EtcdTypeOK, DeleteKeys

LEMMA EndLeaseType ==
    ASSUME NEW w \in Workers, EtcdTypeOK, EndLease(w), UNCHANGED watching
    PROVE  EtcdTypeOK'
<1>1. /\ holder' \in [Products -> Workers \cup {NoWorker}]
      /\ deletes' \in [Workers -> [Products -> Nat]]
  BY DeleteKeysType DEF EndLease
<1> QED  BY <1>1 DEF EtcdTypeOK, EndLease

LEMMA CreateKeyType ==
    ASSUME NEW w \in Workers, NEW p \in Products, EtcdTypeOK, CreateKey(w, p),
           UNCHANGED <<lease, watching, deletes>>
    PROVE  EtcdTypeOK'
BY DEF EtcdTypeOK, CreateKey

(* The claim task goes away. *)
LEMMA DropClaimType ==
    ASSUME NEW w \in Workers, TypeOK, DropClaim(w)
    PROVE  /\ claim' \in [Workers -> {"off", "rest", "trying"}]
           /\ todo' \in [Workers -> SUBSET Products]
           /\ won' \in [Workers -> Products \cup {NoProduct}]
           /\ astray' \in [Workers -> SUBSET Products]
           /\ unheard' \in [Workers -> SUBSET Products]
<1>1. astray' \in [Workers -> SUBSET Products]
  <2>1. CASE Asking(w)
    <3>1. PICK p \in todo[w] : astray' = [astray EXCEPT ![w] = @ \cup {p}]
      BY <2>1 DEF DropClaim
    <3>2. astray[w] \cup {p} \in SUBSET Products  BY <3>1 DEF TypeOK
    <3> QED  BY <3>1, <3>2 DEF TypeOK
  <2>2. CASE ~Asking(w)  BY <2>2 DEF DropClaim, TypeOK
  <2> QED  BY <2>1, <2>2
<1>2. unheard' \in [Workers -> SUBSET Products]
  <2>1. unheard[w] \cup ({won[w]} \ {NoProduct}) \in SUBSET Products  BY DEF TypeOK
  <2> QED  BY <2>1 DEF DropClaim, TypeOK
<1>3. todo' \in [Workers -> SUBSET Products]  BY DEF DropClaim, TypeOK
<1> QED  BY <1>1, <1>2, <1>3 DEF DropClaim, TypeOK

LEMMA DropCollectType ==
    ASSUME NEW w \in Workers, TInv, DropCollect(w)
    PROVE  /\ collect' \in [Workers -> {"off", "rest", "round", "fetch", "publish"}]
           /\ batch' \in [Workers -> SUBSET Products]
           /\ current' \in [Workers -> Products \cup {NoProduct}]
           /\ fetched' \in [Workers -> 0 .. MaxReviews] /\ left' \in [Workers -> 0 .. MaxReviews]
           /\ Underway'
<1>1. 0 \in 0 .. MaxReviews  BY PyCollectorAssumption
<1>2. batch' \in [Workers -> SUBSET Products]  BY DEF DropCollect, TypeOK, TInv
<1>3. fetched' \in [Workers -> 0 .. MaxReviews] /\ left' \in [Workers -> 0 .. MaxReviews]
  BY <1>1 DEF DropCollect, TypeOK, TInv
<1>4. Underway'  BY DEF DropCollect, TypeOK, TInv, Underway
<1> QED  BY <1>2, <1>3, <1>4 DEF DropCollect, TypeOK, TInv

LEMMA VanishType ==
    ASSUME NEW w \in Workers, NEW end \in Life, TInv, Vanish(w, end), EtcdTypeOK'
    PROVE  TInv'
<1>1. owned' \in [Workers -> [Products -> {"none", "claiming", "completed"}]]
  <2>1. NoEntries \in [Products -> {"none", "claiming", "completed"}]  BY DEF NoEntries
  <2> QED  BY <2>1 DEF Vanish, TypeOK, TInv
<1>2. toRelease' \in [Workers -> SUBSET Products]  BY DEF Vanish, TypeOK, TInv
<1>3. /\ main' \in [Workers -> Life]
      /\ published' \in [Workers -> Nat] /\ failed' \in [Workers -> Nat]
      /\ recorded' \in [Workers -> Nat] /\ robbed' \in [Workers -> SUBSET Products]
  BY DEF Vanish, TypeOK, TInv
<1>4. DropClaim(w) /\ DropCollect(w)  BY DEF Vanish
<1> QED  BY <1>1, <1>2, <1>3, <1>4, DropClaimType, DropCollectType DEF TypeOK, TInv

(* A product ends: what was fetched is recorded. *)
LEMMA ProductEndsType ==
    ASSUME NEW w \in Workers, NEW size \in 0 .. MaxReviews, TInv, ProductEnds(w, size)
    PROVE  /\ recorded' \in [Workers -> Nat]
           /\ owned' \in [Workers -> [Products -> {"none", "claiming", "completed"}]]
           /\ collect' \in [Workers -> {"off", "rest", "round", "fetch", "publish"}]
           /\ current' \in [Workers -> Products \cup {NoProduct}]
           /\ fetched' \in [Workers -> 0 .. MaxReviews] /\ left' \in [Workers -> 0 .. MaxReviews]
           /\ Underway'
<1>1. 0 \in 0 .. MaxReviews /\ recorded[w] + size \in Nat  BY PyCollectorAssumption DEF TypeOK, TInv
<1>2. owned' \in [Workers -> [Products -> {"none", "claiming", "completed"}]]
  BY DEF ProductEnds, TypeOK, TInv
<1>3. fetched' \in [Workers -> 0 .. MaxReviews] /\ left' \in [Workers -> 0 .. MaxReviews]
  BY <1>1 DEF ProductEnds, TypeOK, TInv
<1>4. Underway'  BY DEF ProductEnds, TypeOK, TInv, Underway
<1> QED  BY <1>1, <1>2, <1>3, <1>4 DEF ProductEnds, TypeOK, TInv

LEMMA NextReviewType ==
    ASSUME NEW w \in Workers, TInv, collect[w] = "publish", NextReview(w)
    PROVE  /\ recorded' \in [Workers -> Nat]
           /\ owned' \in [Workers -> [Products -> {"none", "claiming", "completed"}]]
           /\ collect' \in [Workers -> {"off", "rest", "round", "fetch", "publish"}]
           /\ current' \in [Workers -> Products \cup {NoProduct}]
           /\ fetched' \in [Workers -> 0 .. MaxReviews] /\ left' \in [Workers -> 0 .. MaxReviews]
           /\ Underway'
<1>1. fetched[w] \in 0 .. MaxReviews /\ left[w] \in 1 .. MaxReviews
  BY PyCollectorAssumption DEF TypeOK, TInv, Underway
<1>2. CASE left[w] = 1 \/ Shutdown(w)
  <2>1. ProductEnds(w, fetched[w])  BY <1>2 DEF NextReview
  <2> QED  BY <2>1, <1>1, ProductEndsType
<1>3. CASE ~(left[w] = 1 \/ Shutdown(w))
  <2>1. /\ left' = [left EXCEPT ![w] = @ - 1]
        /\ UNCHANGED <<recorded, owned, collect, current, fetched>>
    BY <1>3 DEF NextReview
  <2>2. left[w] - 1 \in 1 .. MaxReviews /\ left[w] - 1 \in 0 .. MaxReviews
    BY <1>1, <1>3, PyCollectorAssumption
  <2>3. left' \in [Workers -> 0 .. MaxReviews]  BY <2>1, <2>2 DEF TypeOK, TInv
  <2>4. Underway'  BY <2>1, <2>2 DEF TypeOK, TInv, Underway
  <2> QED  BY <2>1, <2>3, <2>4 DEF TypeOK, TInv
<1> QED  BY <1>2, <1>3

LEMMA TInvNext == TInv /\ Unstarted /\ [Next]_vars => TInv'
<1> SUFFICES ASSUME TInv, Unstarted, [Next]_vars PROVE TInv'  OBVIOUS
<1> USE DEF etcdVars, claimVars, collectVars, countVars, pastVars
<1>0. TypeOK /\ Underway /\ EtcdTypeOK  BY DEF TInv, TypeOK
<1>1. ASSUME NEW w \in Workers, Start(w) \/ StartFails(w) PROVE TInv'
  BY <1>1, <1>0 DEF Start, StartFails, TInv, TypeOK, EtcdTypeOK, Life, Underway
<1>2. ASSUME NEW w \in Workers, ListShards(w) PROVE TInv'
  BY <1>2, <1>0 DEF ListShards, TInv, TypeOK, EtcdTypeOK, Underway
<1>3. ASSUME NEW w \in Workers, NEW p \in Products, TxnWon(w, p) PROVE TInv'
  <2>1. EtcdTypeOK'  BY <1>3, <1>0, CreateKeyType DEF TxnWon
  <2> QED  BY <1>3, <1>0, <2>1 DEF TxnWon, TInv, TypeOK, Underway
<1>4. ASSUME NEW w \in Workers, NEW p \in Products, TxnRefused(w, p) PROVE TInv'
  BY <1>4, <1>0 DEF TxnRefused, TInv, TypeOK, EtcdTypeOK, Underway
<1>5. ASSUME NEW w \in Workers, NEW p \in Products, TxnUnheard(w, p) PROVE TInv'
  <2>1. EtcdTypeOK'  BY <1>5, <1>0, CreateKeyType DEF TxnUnheard
  <2>2. unheard[w] \cup {p} \in SUBSET Products  BY <1>0 DEF TypeOK
  <2>3. unheard' \in [Workers -> SUBSET Products]  BY <1>5, <1>0, <2>2 DEF TxnUnheard, TypeOK
  <2> QED  BY <1>5, <1>0, <2>1, <2>3 DEF TxnUnheard, TInv, TypeOK, Underway
<1>6. ASSUME NEW w \in Workers, PassRaises(w), UNCHANGED etcdVars PROVE TInv'
  <2>0. EtcdTypeOK'  BY <1>6, <1>0 DEF EtcdTypeOK
  <2>1. CASE main[w] = "claiming"  BY <1>6, <2>0, <2>1, VanishType DEF PassRaises, Life
  <2>2. CASE main[w] # "claiming"
    BY <1>6, <1>0, <2>0, <2>2 DEF PassRaises, TInv, TypeOK, Underway
  <2> QED  BY <2>1, <2>2
<1>7. ASSUME NEW w \in Workers, ListFails(w) \/ \E p \in Products : TxnFails(w, p) PROVE TInv'
  BY <1>6, <1>7 DEF TxnFails, ListFails
<1>8. ASSUME NEW w \in Workers, ClaimRecord(w) PROVE TInv'
  BY <1>8, <1>0 DEF ClaimRecord, TInv, TypeOK, EtcdTypeOK, Underway
<1>9. ASSUME NEW w \in Workers, PassEnds(w) PROVE TInv'
  <2>1. main' \in [Workers -> Life]
    <3>1. main' = main \/ main' = [main EXCEPT ![w] = "ready"]  BY <1>9 DEF PassEnds
    <3> QED  BY <1>0, <3>1 DEF TypeOK, Life
  <2>2. /\ collect' \in [Workers -> {"off", "rest", "round", "fetch", "publish"}]
        /\ claim' \in [Workers -> {"off", "rest", "trying"}]
    BY <1>9, <1>0 DEF PassEnds, TypeOK
  <2>3. Underway'  BY <1>9, <1>0 DEF PassEnds, Unstarted, TypeOK, Underway
  <2> QED  BY <1>9, <1>0, <2>1, <2>2, <2>3 DEF PassEnds, TInv, TypeOK, EtcdTypeOK
<1>10. ASSUME NEW w \in Workers, NEW p \in Products, AstrayArrives(w, p) PROVE TInv'
  <2>1. EtcdTypeOK'  BY <1>10, <1>0, CreateKeyType DEF AstrayArrives, EtcdTypeOK
  <2>2. unheard[w] \cup {p} \in SUBSET Products  BY <1>0 DEF TypeOK
  <2>3. unheard' \in [Workers -> SUBSET Products]  BY <1>10, <1>0, <2>2 DEF AstrayArrives, TypeOK
  <2>4. astray' \in [Workers -> SUBSET Products]  BY <1>10, <1>0 DEF AstrayArrives, TypeOK
  <2> QED  BY <1>10, <1>0, <2>1, <2>3, <2>4 DEF AstrayArrives, TInv, TypeOK, Underway
<1>11. ASSUME NEW w \in Workers, RoundStart(w) PROVE TInv'
  BY <1>11, <1>0 DEF RoundStart, TInv, TypeOK, EtcdTypeOK, Underway
<1>12. ASSUME NEW w \in Workers, NEW p \in Products, FetchStart(w, p) PROVE TInv'
  BY <1>12, <1>0 DEF FetchStart, TInv, TypeOK, EtcdTypeOK, Underway
<1>13. ASSUME NEW w \in Workers, FetchEnds(w) PROVE TInv'
  <2>1. PICK size \in 1 .. MaxReviews :
            IF Shutdown(w)
            THEN ProductEnds(w, size)
            ELSE /\ collect' = [collect EXCEPT ![w] = "publish"]
                 /\ fetched' = [fetched EXCEPT ![w] = size]
                 /\ left' = [left EXCEPT ![w] = size]
                 /\ UNCHANGED <<recorded, owned, current>>
    BY <1>13 DEF FetchEnds
  <2>2. size \in 0 .. MaxReviews /\ size >= 1  BY PyCollectorAssumption
  <2>3. UNCHANGED <<etcdVars, main, claimVars, batch, published, failed, toRelease, pastVars>>
    BY <1>13 DEF FetchEnds
  <2>4. CASE Shutdown(w)
    BY <1>0, <2>1, <2>2, <2>3, <2>4, ProductEndsType DEF TInv, TypeOK, EtcdTypeOK
  <2>5. CASE ~Shutdown(w)
    <3>1. /\ collect' = [collect EXCEPT ![w] = "publish"]
          /\ fetched' = [fetched EXCEPT ![w] = size]
          /\ left' = [left EXCEPT ![w] = size]
          /\ UNCHANGED <<recorded, owned, current>>
      BY <2>1, <2>5
    <3>2. fetched' \in [Workers -> 0 .. MaxReviews] /\ left' \in [Workers -> 0 .. MaxReviews]
      BY <1>0, <2>2, <3>1 DEF TypeOK
    <3>3. Underway'  BY <1>0, <2>2, <3>1 DEF TypeOK, Underway
    <3> QED  BY <1>0, <2>3, <3>1, <3>2, <3>3 DEF TInv, TypeOK, EtcdTypeOK
  <2> QED  BY <2>4, <2>5
<1>14. ASSUME NEW w \in Workers, PublishOk(w) \/ PublishFails(w) PROVE TInv'
  <2>1. collect[w] = "publish" /\ NextReview(w)  BY <1>14 DEF PublishOk, PublishFails
  <2>2. published[w] + 1 \in Nat /\ failed[w] + 1 \in Nat  BY <1>0 DEF TypeOK
  <2>3. published' \in [Workers -> Nat] /\ failed' \in [Workers -> Nat]
    <3>1. CASE PublishOk(w)  BY <1>0, <2>2, <3>1 DEF PublishOk, TypeOK
    <3>2. CASE PublishFails(w)  BY <1>0, <2>2, <3>2 DEF PublishFails, TypeOK
    <3> QED  BY <1>14, <3>1, <3>2
  <2>4. UNCHANGED <<etcdVars, main, claimVars, batch, toRelease, pastVars>>
    BY <1>14 DEF PublishOk, PublishFails
  <2> QED  BY <1>0, <2>1, <2>3, <2>4, NextReviewType DEF TInv, TypeOK, EtcdTypeOK
<1>15. ASSUME NEW w \in Workers, RoundEnds(w) PROVE TInv'
  BY <1>15, <1>0 DEF RoundEnds, TInv, TypeOK, EtcdTypeOK, Underway
<1>16. ASSUME NEW w \in Workers, Stop(w) PROVE TInv'
  <2>1. DropClaim(w)  BY <1>16 DEF Stop
  <2> QED  BY <1>16, <1>0, <2>1, DropClaimType DEF Stop, TInv, TypeOK, EtcdTypeOK, Underway, Life
<1>17. ASSUME NEW w \in Workers, CancelCollect(w) PROVE TInv'
  <2>1. DropCollect(w)  BY <1>17 DEF CancelCollect
  <2>2. toRelease' \in [Workers -> SUBSET Products]  BY <1>17, <1>0 DEF CancelCollect, Entries, TypeOK
  <2> QED  BY <1>17, <1>0, <2>1, <2>2, DropCollectType DEF CancelCollect, TInv, TypeOK, EtcdTypeOK, Life
<1>18. ASSUME NEW w \in Workers, NEW p \in Products, ReleaseDelete(w, p) PROVE TInv'
  <2>1. EtcdTypeOK'  BY <1>18, <1>0, DeleteKeysType DEF ReleaseDelete, EtcdTypeOK
  <2>2. robbed' \in [Workers -> SUBSET Products]  BY <1>18, <1>0 DEF ReleaseDelete, TypeOK
  <2>3. unheard[w] \cup {p} \in SUBSET Products  BY <1>0 DEF TypeOK
  <2>4. unheard' \in [Workers -> SUBSET Products]  BY <1>18, <1>0, <2>3 DEF ReleaseDelete, TypeOK
  <2>5. toRelease' \in [Workers -> SUBSET Products]
    <3>1. toRelease' = toRelease \/ toRelease' = [toRelease EXCEPT ![w] = @ \ {p}]
      BY <1>18 DEF ReleaseDelete
    <3>2. toRelease \in [Workers -> SUBSET Products]  BY <1>0 DEF TypeOK
    <3>3. toRelease[w] \ {p} \in SUBSET Products  BY <3>2
    <3> QED  BY <3>1, <3>2, <3>3
  <2> QED  BY <1>18, <1>0, <2>1, <2>2, <2>4, <2>5 DEF ReleaseDelete, TInv, TypeOK, Underway
<1>19. ASSUME NEW w \in Workers, NEW p \in Products, ReleaseFailed(w, p) PROVE TInv'
  BY <1>19, <1>0 DEF ReleaseFailed, TInv, TypeOK, EtcdTypeOK, Underway
<1>20. ASSUME NEW w \in Workers, Close(w) PROVE TInv'
  <2>1. EtcdTypeOK'
    <3>1. CASE EndLease(w) /\ UNCHANGED watching  BY <1>0, <3>1, EndLeaseType
    <3>2. CASE UNCHANGED etcdVars  BY <1>0, <3>2 DEF EtcdTypeOK
    <3> QED  BY <1>20, <3>1, <3>2 DEF Close
  <2> QED  BY <1>20, <2>1, VanishType DEF Close, Life
<1>21. ASSUME NEW w \in Workers, Crash(w) PROVE TInv'
  <2>1. EtcdTypeOK'  BY <1>21, <1>0 DEF Crash, EtcdTypeOK
  <2> QED  BY <1>21, <2>1, VanishType DEF Crash, Life
<1>22. ASSUME NEW w \in Workers, LeaseExpire(w) PROVE TInv'
  <2>1. EtcdTypeOK'  BY <1>22, <1>0, EndLeaseType DEF LeaseExpire
  <2> QED  BY <1>22, <1>0, <2>1 DEF LeaseExpire, TInv, TypeOK, Underway
<1>23. CASE UNCHANGED vars  BY <1>23, <1>0 DEF vars, TInv, TypeOK, EtcdTypeOK, Underway
<1>24. ASSUME NEW w \in Workers, Claims(w) PROVE TInv'
  BY <1>4, <1>5, <1>7, <1>8, <1>9, <1>24 DEF Claims
<1>25. ASSUME NEW w \in Workers, Collects(w) PROVE TInv'
  BY <1>11, <1>12, <1>13, <1>14, <1>15, <1>25 DEF Collects
<1>26. ASSUME NEW w \in Workers, Stops(w) PROVE TInv'
  BY <1>17, <1>18, <1>19, <1>20, <1>26 DEF Stops
<1> QED
  BY <1>1, <1>2, <1>3, <1>10, <1>16, <1>21, <1>22, <1>23, <1>24, <1>25, <1>26, <1>7 DEF Next

(* Nothing is counted, and nothing collected, before the first claim is over. *)
LEMMA UnstartedNext == TInv /\ Unstarted /\ [Next]_vars => Unstarted'
<1> SUFFICES ASSUME TypeOK, Underway, Unstarted, [Next]_vars, NEW u \in Workers,
                    main'[u] \in {"new", "claiming"}
    PROVE  collect'[u] = "off" /\ recorded'[u] = 0 /\ published'[u] = 0 /\ failed'[u] = 0
  BY DEF Unstarted, TInv
<1> DEFINE Q == collect'[u] = "off" /\ recorded'[u] = 0 /\ published'[u] = 0 /\ failed'[u] = 0
<1> USE DEF etcdVars, claimVars, collectVars, countVars, pastVars
<1>1. ASSUME UNCHANGED <<collect, recorded, published, failed, main>> PROVE Q
  BY <1>1 DEF Unstarted
<1>2. ASSUME NEW w \in Workers, NEW end \in Life \ {"new", "claiming"}, Vanish(w, end) PROVE Q
  <2>1. w # u  BY <1>2 DEF Vanish, TypeOK
  <2> QED  BY <1>2, <2>1 DEF Vanish, DropCollect, TypeOK, Unstarted
<1>3. ASSUME NEW w \in Workers, Start(w) \/ StartFails(w) PROVE Q
  BY <1>3 DEF Start, StartFails, Unstarted, TypeOK
<1>4. ASSUME NEW w \in Workers, PassRaises(w) PROVE Q
  BY <1>1, <1>2, <1>4 DEF PassRaises, Life
<1>5. ASSUME NEW w \in Workers, Claims(w) PROVE Q
  <2>1. ASSUME PassEnds(w) PROVE Q  BY <2>1 DEF PassEnds, Unstarted, TypeOK
  <2>2. ASSUME ClaimRecord(w) PROVE Q  BY <1>1, <2>2 DEF ClaimRecord
  <2>3. ASSUME NEW p \in Products, TxnRefused(w, p) \/ TxnUnheard(w, p) PROVE Q
    BY <1>1, <2>3 DEF TxnRefused, TxnUnheard
  <2>4. ASSUME NEW p \in Products, TxnFails(w, p) PROVE Q  BY <1>4, <2>4 DEF TxnFails
  <2> QED  BY <1>5, <2>1, <2>2, <2>3, <2>4 DEF Claims
<1>6. ASSUME NEW w \in Workers, Collects(w) PROVE Q
  <2>1. collect[w] # "off" /\ UNCHANGED main
    BY <1>6 DEF Collects, RoundStart, FetchStart, FetchEnds, PublishOk, PublishFails, RoundEnds
  <2>2. w # u  BY <2>1 DEF Unstarted
  <2>3. ASSUME NEW size, ProductEnds(w, size) PROVE collect'[u] = collect[u] /\ recorded'[u] = recorded[u]
    BY <2>2, <2>3 DEF ProductEnds, TypeOK
  <2>4. ASSUME NextReview(w) PROVE collect'[u] = collect[u] /\ recorded'[u] = recorded[u]
    BY <2>3, <2>4 DEF NextReview
  <2>5. ASSUME RoundStart(w) \/ RoundEnds(w) PROVE Q
    BY <2>1, <2>2, <2>5 DEF RoundStart, RoundEnds, Unstarted, TypeOK
  <2>6. ASSUME NEW p \in Products, FetchStart(w, p) PROVE Q
    BY <2>1, <2>2, <2>6 DEF FetchStart, Unstarted, TypeOK
  <2>7. ASSUME FetchEnds(w) PROVE Q
    <3>1. collect'[u] = collect[u] /\ recorded'[u] = recorded[u]
      BY <2>2, <2>3, <2>7 DEF FetchEnds, TypeOK
    <3> QED  BY <2>1, <2>7, <3>1 DEF FetchEnds, Unstarted
  <2>8. ASSUME PublishOk(w) \/ PublishFails(w) PROVE Q
    <3>1. collect'[u] = collect[u] /\ recorded'[u] = recorded[u]
      BY <2>4, <2>8 DEF PublishOk, PublishFails
    <3>2. published'[u] = published[u] /\ failed'[u] = failed[u]
      BY <2>2, <2>8 DEF PublishOk, PublishFails, TypeOK
    <3> QED  BY <2>1, <3>1, <3>2 DEF Unstarted
  <2> QED  BY <1>6, <2>5, <2>6, <2>7, <2>8 DEF Collects
<1>7. ASSUME NEW w \in Workers, Stop(w) \/ CancelCollect(w) PROVE Q
  BY <1>7 DEF Stop, CancelCollect, DropCollect, Unstarted, TypeOK
<1>8. ASSUME NEW w \in Workers, NEW p \in Products, ReleaseDelete(w, p) \/ ReleaseFailed(w, p) PROVE Q
  BY <1>1, <1>8 DEF ReleaseDelete, ReleaseFailed
<1>9. ASSUME NEW w \in Workers, Close(w) \/ Crash(w) PROVE Q
  BY <1>2, <1>9 DEF Close, Crash, Life
<1>10. ASSUME NEW w \in Workers, ListFails(w) PROVE Q  BY <1>4, <1>10 DEF ListFails
<1>11. ASSUME NEW w \in Workers, NEW p \in Products, TxnWon(w, p) \/ AstrayArrives(w, p) PROVE Q
  BY <1>1, <1>11 DEF TxnWon, AstrayArrives
<1>12. ASSUME NEW w \in Workers, ListShards(w) \/ LeaseExpire(w) PROVE Q
  BY <1>1, <1>12 DEF ListShards, LeaseExpire
<1>13. CASE UNCHANGED vars  BY <1>1, <1>13 DEF vars
<1> QED
  BY <1>3, <1>5, <1>6, <1>7, <1>8, <1>9, <1>10, <1>11, <1>12, <1>13 DEF Next, Stops

LEMMA TInvInvariant == Spec => [](TInv /\ Unstarted)
<1>1. Init => Unstarted  BY DEF Init, Unstarted
<1> QED  BY <1>1, TypeInit, TInvNext, UnstartedNext, PTL DEF Spec

(* Every variable keeps its type. *)
THEOREM TypeCorrect == Spec => []TypeOK
<1>1. TInv => TypeOK  BY DEF TInv
<1> QED  BY TInvInvariant, <1>1, PTL

-----------------------------------------------------------------------------
(* What a worker believes and what etcd holds for it *)

(***************************************************************************)
(* Inductive strengthening of the properties about beliefs.  Fresh: etcd   *)
(* has nothing of a worker that has not started.  TasksRun: the claim task *)
(* exists only while the worker runs, the collect task from the first      *)
(* claim until stop cancels it; it works on products that are owned; only  *)
(* stop has something to release.                                          *)
(***************************************************************************)
Fresh ==
    \A w \in Workers, p \in Products :
        main[w] = "new" => w \notin lease /\ holder[p] # w /\ owned[w][p] = "none"

TasksRun ==
    \A w \in Workers :
        /\ claim[w] # "off" => main[w] \in {"claiming", "ready"}
        /\ won[w] # NoProduct => claim[w] # "off"
        /\ collect[w] # "off" => main[w] \in {"ready", "cancelling"}
        /\ batch[w] \subseteq Entries(w)
        /\ collect[w] \in {"fetch", "publish"} => current[w] \in Entries(w)
        /\ toRelease[w] # {} => main[w] = "releasing"

(* What one step may do to what worker u knows of product p, and to p's key. *)
Effect(u, p) ==
    /\ u \in lease' => u \in lease \/ (main[u] = "new" /\ main'[u] # "new")
    /\ robbed[u] \subseteq robbed'[u] /\ unheard[u] \subseteq unheard'[u]
    /\ holder[p] = u /\ u \in lease' =>
            \/ holder'[p] = u \/ p \in robbed'[u]
            \/ main[u] = "releasing" /\ (p \in toRelease'[u] => p \in unheard'[u])
    /\ holder'[p] = u /\ holder[p] # u => u \in lease /\ (won'[u] = p \/ p \in unheard'[u])
    /\ owned'[u][p] # "none" => owned[u][p] # "none" \/ won[u] = p
    /\ owned[u][p] # "none" /\ main'[u] \in {"claiming", "ready"} => owned'[u][p] # "none"
    /\ won'[u] = p => won[u] = p \/ holder'[p] = u
    /\ won[u] = p /\ main'[u] \in {"claiming", "ready"} => won'[u] = p \/ owned'[u][p] # "none"
    /\ main'[u] = "new" => main[u] = "new"
    /\ main'[u] \in {"claiming", "ready"} => main[u] \in {"new", "claiming", "ready"}
    /\ main'[u] = "cancelling" => main[u] \in {"ready", "cancelling"}
    /\ p \in toRelease'[u] =>
            \/ p \in toRelease[u]
            \/ owned[u][p] # "none" /\ main[u] = "cancelling" /\ UNCHANGED <<holder, robbed>>

LEMMA EffectOfVanish ==
    ASSUME TypeOK, NEW w \in Workers, NEW end \in {"ended", "failed", "crashed"}, Vanish(w, end),
           NEW u \in Workers, NEW p \in Products,
           (EndLease(w) /\ main[w] = "releasing") \/ UNCHANGED <<holder, lease>>
    PROVE  Effect(u, p)
<1>1. /\ robbed' = robbed /\ unheard[u] \subseteq unheard'[u]
  BY DEF Vanish, DropClaim, TypeOK
<1>2. u # w => UNCHANGED <<main[u], owned[u], won[u], toRelease[u]>>
  BY DEF Vanish, DropClaim, TypeOK
<1>3. u = w => main'[u] = end /\ owned'[u] = NoEntries /\ won'[u] = NoProduct /\ toRelease'[u] = {}
  BY DEF Vanish, DropClaim, TypeOK
<1>4. /\ u \in lease' => u \in lease
      /\ holder'[p] = u => holder[p] = u
      /\ holder[p] = u /\ u \in lease' => holder'[p] = u
  BY NoWorkerAssumption DEF EndLease, DeleteKeys, KeysOf, TypeOK, EtcdTypeOK
<1> QED
  BY <1>1, <1>2, <1>3, <1>4, PyCollectorAssumption DEF Effect, NoEntries

LEMMA EffectOfStep ==
    ASSUME TypeOK, TasksRun, [Next]_vars, NEW u \in Workers, NEW p \in Products
    PROVE  Effect(u, p)
<1> USE DEF etcdVars, claimVars, collectVars, countVars, pastVars
<1>1. ASSUME UNCHANGED <<main, holder, lease, won, owned, toRelease, robbed, unheard>>
      PROVE  Effect(u, p)
  BY <1>1 DEF Effect
<1>2. ASSUME NEW w \in Workers, Start(w) \/ StartFails(w) PROVE Effect(u, p)
  BY <1>2 DEF Start, StartFails, Effect, TypeOK
<1>3. ASSUME NEW w \in Workers, NEW q \in Products, TxnWon(w, q) PROVE Effect(u, p)
  <2>1. UNCHANGED <<main, lease, owned, toRelease, robbed, unheard>>  BY <1>3 DEF TxnWon
  <2>2. holder'[p] = IF p = q THEN w ELSE holder[p]
    BY <1>3 DEF TxnWon, CreateKey, TypeOK, EtcdTypeOK
  <2>3. won'[u] = IF u = w THEN q ELSE won[u]  BY <1>3 DEF TxnWon, TypeOK
  <2>4. holder[q] = NoWorker /\ w \in lease /\ won[w] = NoProduct  BY <1>3 DEF TxnWon, Tries, CanCreate
  <2> QED
    BY <2>1, <2>2, <2>3, <2>4, NoWorkerAssumption, PyCollectorAssumption DEF Effect
<1>4. ASSUME NEW w \in Workers, NEW q \in Products, TxnUnheard(w, q) PROVE Effect(u, p)
  BY <1>4, NoWorkerAssumption DEF TxnUnheard, CanCreate, CreateKey, Effect, TypeOK, EtcdTypeOK
<1>5. ASSUME NEW w \in Workers, PassRaises(w), UNCHANGED etcdVars PROVE Effect(u, p)
  <2>1. CASE main[w] = "claiming"  BY <1>5, <2>1, EffectOfVanish DEF PassRaises
  <2>2. CASE main[w] # "claiming"  BY <1>1, <1>5, <2>2 DEF PassRaises
  <2> QED  BY <2>1, <2>2
<1>6. ASSUME NEW w \in Workers, ListFails(w) \/ \E q \in Products : TxnFails(w, q)
      PROVE  Effect(u, p)
  BY <1>5, <1>6 DEF TxnFails, ListFails
<1>7. ASSUME NEW w \in Workers, ClaimRecord(w) PROVE Effect(u, p)
  <2>1. UNCHANGED <<main, holder, lease, toRelease, robbed, unheard>>  BY <1>7 DEF ClaimRecord
  <2>2. won'[u] = IF u = w THEN NoProduct ELSE won[u]  BY <1>7 DEF ClaimRecord, TypeOK
  <2>3. owned'[u][p] = IF u = w /\ p = won[w] THEN "claiming" ELSE owned[u][p]
    BY <1>7 DEF ClaimRecord, TypeOK
  <2> QED  BY <2>1, <2>2, <2>3, PyCollectorAssumption DEF Effect
<1>8. ASSUME NEW w \in Workers, PassEnds(w) PROVE Effect(u, p)
  BY <1>8 DEF PassEnds, Effect, TypeOK
<1>9. ASSUME NEW w \in Workers, NEW q \in Products, AstrayArrives(w, q) PROVE Effect(u, p)
  <2>1. UNCHANGED <<main, lease, won, owned, toRelease, robbed>>  BY <1>9 DEF AstrayArrives
  <2>2. CASE UNCHANGED <<holder, unheard>>  BY <1>1, <2>1, <2>2
  <2>3. CASE ~UNCHANGED <<holder, unheard>>
    <3>1. /\ CanCreate(w, q) /\ CreateKey(w, q)
          /\ unheard' = [unheard EXCEPT ![w] = @ \cup {q}]
      BY <1>9, <2>3 DEF AstrayArrives
    <3>2. holder'[p] = IF p = q THEN w ELSE holder[p]  BY <3>1 DEF CreateKey, TypeOK, EtcdTypeOK
    <3>3. unheard'[u] = IF u = w THEN unheard[u] \cup {q} ELSE unheard[u]  BY <3>1 DEF TypeOK
    <3> QED  BY <2>1, <3>1, <3>2, <3>3, NoWorkerAssumption DEF Effect, CanCreate
  <2> QED  BY <2>2, <2>3
<1>10. ASSUME NEW w \in Workers, ListShards(w) \/ \E q \in Products : TxnRefused(w, q)
       PROVE  Effect(u, p)
  BY <1>1, <1>10 DEF ListShards, TxnRefused
<1>11. ASSUME NEW w \in Workers, Collects(w) PROVE Effect(u, p)
  <2>1. UNCHANGED <<main, holder, lease, won, toRelease, robbed, unheard>>
    BY <1>11 DEF Collects, RoundStart, FetchStart, FetchEnds, PublishOk, PublishFails, RoundEnds
  <2>2. ASSUME NEW size, collect[w] \in {"fetch", "publish"}, ProductEnds(w, size)
        PROVE  owned'[u][p] # "none" <=> owned[u][p] # "none"
    <3>1. current[w] \in Entries(w)  BY <2>2 DEF TasksRun
    <3> QED  BY <2>2, <3>1 DEF ProductEnds, Entries, TypeOK
  <2>3. owned'[u][p] # "none" <=> owned[u][p] # "none"
    BY <1>11, <2>2 DEF Collects, RoundStart, FetchStart, FetchEnds, PublishOk, PublishFails,
                       NextReview, RoundEnds
  <2> QED  BY <2>1, <2>3 DEF Effect
<1>12. ASSUME NEW w \in Workers, Stop(w) PROVE Effect(u, p)
  BY <1>12, PyCollectorAssumption DEF Stop, DropClaim, Effect, TypeOK
<1>13. ASSUME NEW w \in Workers, CancelCollect(w) PROVE Effect(u, p)
  BY <1>13 DEF CancelCollect, Entries, Effect, TypeOK
<1>14. ASSUME NEW w \in Workers, NEW q \in Products, ReleaseDelete(w, q) PROVE Effect(u, p)
  <2>1. UNCHANGED <<main, lease, won, owned>>  BY <1>14 DEF ReleaseDelete
  <2>2. /\ robbed[u] \subseteq robbed'[u] /\ unheard[u] \subseteq unheard'[u]
        /\ toRelease'[u] \subseteq toRelease[u]
    <3>1. robbed[u] \subseteq robbed'[u]  BY <1>14 DEF ReleaseDelete, TypeOK
    <3>2. unheard[u] \subseteq unheard'[u]
      <4>1. unheard' = unheard \/ unheard' = [unheard EXCEPT ![w] = @ \cup {q}]
        BY <1>14 DEF ReleaseDelete
      <4>2. unheard \in [Workers -> SUBSET Products]  BY DEF TypeOK
      <4> QED  BY <4>1, <4>2
    <3>3. toRelease'[u] \subseteq toRelease[u]
      <4>1. toRelease' = toRelease \/ toRelease' = [toRelease EXCEPT ![w] = @ \ {q}]
        BY <1>14 DEF ReleaseDelete
      <4>2. toRelease \in [Workers -> SUBSET Products]  BY DEF TypeOK
      <4> QED  BY <4>1, <4>2
    <3> QED  BY <3>1, <3>2, <3>3
  <2>3. holder'[p] = IF p = q THEN NoWorker ELSE holder[p]
    BY <1>14 DEF ReleaseDelete, DeleteKeys
  <2>4. holder[p] = u /\ p = q /\ u # w => p \in robbed'[u]
    BY <1>14 DEF ReleaseDelete, TypeOK
  <2>5. u = w /\ p = q => main[u] = "releasing" /\ (p \in toRelease'[u] => p \in unheard'[u])
    BY <1>14 DEF ReleaseDelete, TypeOK
  <2> QED  BY <2>1, <2>2, <2>3, <2>4, <2>5, NoWorkerAssumption DEF Effect
<1>15. ASSUME NEW w \in Workers, NEW q \in Products, ReleaseFailed(w, q) PROVE Effect(u, p)
  BY <1>15 DEF ReleaseFailed, Effect, TypeOK
<1>16. ASSUME NEW w \in Workers, Close(w) PROVE Effect(u, p)
  BY <1>16, EffectOfVanish DEF Close
<1>17. ASSUME NEW w \in Workers, Crash(w) PROVE Effect(u, p)
  BY <1>17, EffectOfVanish DEF Crash
<1>18. ASSUME NEW w \in Workers, LeaseExpire(w) PROVE Effect(u, p)
  BY <1>18, NoWorkerAssumption DEF LeaseExpire, EndLease, DeleteKeys, KeysOf, Effect, TypeOK, EtcdTypeOK
<1>19. CASE UNCHANGED vars  BY <1>1, <1>19 DEF vars
<1>20. ASSUME NEW w \in Workers, Claims(w) PROVE Effect(u, p)
  BY <1>4, <1>6, <1>7, <1>8, <1>10, <1>20 DEF Claims
<1>21. ASSUME NEW w \in Workers, Stops(w) PROVE Effect(u, p)
  BY <1>13, <1>14, <1>15, <1>16, <1>21 DEF Stops
<1> QED
  BY <1>2, <1>3, <1>6, <1>9, <1>10, <1>11, <1>12, <1>17, <1>18, <1>19, <1>20, <1>21 DEF Next

LEMMA TasksRunNext == TypeOK /\ TasksRun /\ [Next]_vars => TasksRun'
<1> DEFINE Q(u) ==
        /\ claim[u] # "off" => main[u] \in {"claiming", "ready"}
        /\ won[u] # NoProduct => claim[u] # "off"
        /\ collect[u] # "off" => main[u] \in {"ready", "cancelling"}
        /\ batch[u] \subseteq Entries(u)
        /\ collect[u] \in {"fetch", "publish"} => current[u] \in Entries(u)
        /\ toRelease[u] # {} => main[u] = "releasing"
<1> SUFFICES ASSUME TypeOK, TasksRun, [Next]_vars, NEW u \in Workers PROVE Q(u)'
  BY DEF TasksRun
<1> USE DEF etcdVars, claimVars, collectVars, countVars, pastVars, Entries
<1>0. Q(u)  BY DEF TasksRun
<1>1. ASSUME UNCHANGED <<main[u], claim[u], won[u], collect[u], batch[u], current[u], toRelease[u], owned[u]>>
      PROVE  Q(u)'
  BY <1>0, <1>1
<1>2. ASSUME NEW w \in Workers, NEW end, Vanish(w, end) PROVE Q(u)'
  <2>1. CASE u = w  BY <1>2, <2>1 DEF Vanish, DropClaim, DropCollect, TypeOK
  <2>2. CASE u # w  BY <1>1, <1>2, <2>2 DEF Vanish, DropClaim, DropCollect, TypeOK
  <2> QED  BY <2>1, <2>2
<1>3. ASSUME NEW w \in Workers, Start(w) \/ StartFails(w) PROVE Q(u)'
  BY <1>0, <1>3 DEF Start, StartFails, TypeOK
<1>4. ASSUME NEW w \in Workers, NEW q \in Products, TxnWon(w, q) PROVE Q(u)'
  BY <1>0, <1>4 DEF TxnWon, Tries, TypeOK
<1>5. ASSUME NEW w \in Workers, PassRaises(w), claim[w] # "off" PROVE Q(u)'
  <2>1. CASE main[w] = "claiming"  BY <1>2, <1>5, <2>1 DEF PassRaises
  <2>2. CASE main[w] # "claiming"  BY <1>0, <1>5, <2>2 DEF PassRaises, TasksRun, TypeOK
  <2> QED  BY <2>1, <2>2
<1>6. ASSUME NEW w \in Workers, ListFails(w) \/ \E q \in Products : TxnFails(w, q) PROVE Q(u)'
  BY <1>5, <1>6 DEF TxnFails, ListFails, Tries
<1>7. ASSUME NEW w \in Workers, ClaimRecord(w) PROVE Q(u)'
  <2>1. won'[u] = IF u = w THEN NoProduct ELSE won[u]  BY <1>7 DEF ClaimRecord, TypeOK
  <2>2. \A q \in Products : owned[u][q] # "none" => owned'[u][q] # "none"
    BY <1>7 DEF ClaimRecord, TypeOK
  <2> QED  BY <1>0, <1>7, <2>1, <2>2 DEF ClaimRecord
<1>8. ASSUME NEW w \in Workers, PassEnds(w) PROVE Q(u)'
  <2>1. CASE main[w] = "claiming"  BY <1>0, <1>8, <2>1 DEF PassEnds, TasksRun, TypeOK
  <2>2. CASE main[w] # "claiming"  BY <1>0, <1>8, <2>2 DEF PassEnds, TasksRun, TypeOK
  <2> QED  BY <2>1, <2>2
<1>9. ASSUME NEW w \in Workers, NEW q \in Products,
             AstrayArrives(w, q) \/ TxnUnheard(w, q) \/ TxnRefused(w, q) \/ LeaseExpire(w)
      PROVE  Q(u)'
  BY <1>1, <1>9 DEF AstrayArrives, TxnUnheard, TxnRefused, LeaseExpire
<1>10. ASSUME NEW w \in Workers, ListShards(w) PROVE Q(u)'
  BY <1>0, <1>10 DEF ListShards, TypeOK
<1>11. ASSUME NEW w \in Workers, RoundStart(w) \/ RoundEnds(w) PROVE Q(u)'
  BY <1>0, <1>11 DEF RoundStart, RoundEnds, TypeOK
<1>12. ASSUME NEW w \in Workers, NEW q \in Products, FetchStart(w, q) PROVE Q(u)'
  BY <1>0, <1>12 DEF FetchStart, TypeOK
<1>13. ASSUME NEW w \in Workers, NEW size, collect[w] \in {"fetch", "publish"}, ProductEnds(w, size),
              UNCHANGED <<main, claimVars, batch, toRelease>>
       PROVE  Q(u)'
  <2>1. \A q \in Products : owned[u][q] # "none" => owned'[u][q] # "none"
    BY <1>13 DEF ProductEnds, TypeOK
  <2>2. collect'[u] = IF u = w THEN "round" ELSE collect[u]  BY <1>13 DEF ProductEnds, TypeOK
  <2>3. u # w => current'[u] = current[u]  BY <1>13 DEF ProductEnds, TypeOK
  <2> QED  BY <1>0, <1>13, <2>1, <2>2, <2>3
<1>14. ASSUME NEW w \in Workers, FetchEnds(w) PROVE Q(u)'
  <2>1. CASE Shutdown(w)  BY <1>13, <1>14, <2>1 DEF FetchEnds
  <2>2. CASE ~Shutdown(w)  BY <1>0, <1>14, <2>2 DEF FetchEnds, TypeOK
  <2> QED  BY <2>1, <2>2
<1>15. ASSUME NEW w \in Workers, PublishOk(w) \/ PublishFails(w) PROVE Q(u)'
  <2>1. collect[w] = "publish" /\ NextReview(w) /\ UNCHANGED <<main, claimVars, batch, toRelease>>
    BY <1>15 DEF PublishOk, PublishFails
  <2>2. CASE left[w] = 1 \/ Shutdown(w)  BY <1>13, <2>1, <2>2 DEF NextReview
  <2>3. CASE ~(left[w] = 1 \/ Shutdown(w))  BY <1>1, <2>1, <2>3 DEF NextReview
  <2> QED  BY <2>2, <2>3
<1>16. ASSUME NEW w \in Workers, Stop(w) PROVE Q(u)'
  <2>1. CASE u = w  BY <1>0, <1>16, <2>1 DEF Stop, DropClaim, TypeOK
  <2>2. CASE u # w  BY <1>1, <1>16, <2>2 DEF Stop, DropClaim, TypeOK
  <2> QED  BY <2>1, <2>2
<1>17. ASSUME NEW w \in Workers, CancelCollect(w) PROVE Q(u)'
  <2>1. CASE u = w  BY <1>0, <1>17, <2>1 DEF CancelCollect, DropCollect, TypeOK
  <2>2. CASE u # w  BY <1>1, <1>17, <2>2 DEF CancelCollect, DropCollect, TypeOK
  <2> QED  BY <2>1, <2>2
<1>18. ASSUME NEW w \in Workers, NEW q \in Products, ReleaseDelete(w, q) \/ ReleaseFailed(w, q)
       PROVE  Q(u)'
  <2>1. UNCHANGED <<main, claimVars, owned, collectVars>>  BY <1>18 DEF ReleaseDelete, ReleaseFailed
  <2>2. toRelease' = toRelease \/ toRelease' = [toRelease EXCEPT ![w] = @ \ {q}]
    BY <1>18 DEF ReleaseDelete, ReleaseFailed
  <2>3. toRelease'[u] \subseteq toRelease[u]
    <3>1. toRelease \in [Workers -> SUBSET Products]  BY DEF TypeOK
    <3> QED  BY <2>2, <3>1
  <2> QED  BY <1>0, <2>1, <2>3
<1>19. ASSUME NEW w \in Workers, Close(w) \/ Crash(w) PROVE Q(u)'
  BY <1>2, <1>19 DEF Close, Crash
<1>20. CASE UNCHANGED vars  BY <1>1, <1>20 DEF vars
<1>21. ASSUME NEW w \in Workers, Claims(w) PROVE Q(u)'
  BY <1>6, <1>7, <1>8, <1>9, <1>21 DEF Claims
<1>22. ASSUME NEW w \in Workers, Collects(w) PROVE Q(u)'
  BY <1>11, <1>12, <1>14, <1>15, <1>22 DEF Collects
<1>23. ASSUME NEW w \in Workers, Stops(w) PROVE Q(u)'
  BY <1>17, <1>18, <1>19, <1>23 DEF Stops
<1>24. ASSUME NEW w \in Workers, LeaseExpire(w) PROVE Q(u)'
  BY <1>1, <1>24 DEF LeaseExpire
<1> QED
  BY <1>3, <1>4, <1>6, <1>9, <1>10, <1>16, <1>19, <1>20, <1>21, <1>22, <1>23, <1>24 DEF Next

(* A claim whose reply has not been handled holds its key, or was robbed of it. *)
WonHeld ==
    \A w \in lease, p \in Products : won[w] = p => holder[p] = w \/ p \in robbed[w]

(* Stop releases what the worker holds, or was robbed of, or has deleted without learning of it. *)
ReleasedHeld ==
    \A w \in lease, p \in Products :
        p \in toRelease[w] => holder[p] = w \/ p \in robbed[w] \cup unheard[w]

BInv == Fresh /\ TasksRun /\ HeldIsKnown /\ LeasedBeliefHeld /\ WonHeld /\ ReleasedHeld

LEMMA BInvNext == TypeOK /\ TypeOK' /\ BInv /\ [Next]_vars => BInv'
<1> SUFFICES ASSUME TypeOK, TypeOK', BInv, [Next]_vars PROVE BInv'  OBVIOUS
<1>1. Fresh /\ TasksRun /\ HeldIsKnown /\ LeasedBeliefHeld /\ WonHeld /\ ReleasedHeld  BY DEF BInv
<1>2. TasksRun'  BY <1>1, TasksRunNext
<1>3. \A u \in Workers, p \in Products : Effect(u, p)  BY <1>1, EffectOfStep
<1>4. ASSUME NEW u \in Workers, main[u] = "new"
      PROVE  won[u] = NoProduct /\ toRelease[u] = {}
  BY <1>1, <1>4 DEF TasksRun
<1>5. Fresh'
  <2> SUFFICES ASSUME NEW u \in Workers, NEW p \in Products, main'[u] = "new"
      PROVE  u \notin lease' /\ holder'[p] # u /\ owned'[u][p] = "none"
    BY DEF Fresh
  <2>1. Effect(u, p)  BY <1>3
  <2>2. main[u] = "new"  BY <2>1 DEF Effect
  <2>3. u \notin lease /\ holder[p] # u /\ owned[u][p] = "none"  BY <1>1, <2>2 DEF Fresh
  <2> QED  BY <1>4, <2>1, <2>2, <2>3, PyCollectorAssumption DEF Effect
<1>6. HeldIsKnown'
  <2> SUFFICES ASSUME NEW u \in Workers, NEW p \in Products,
                      main'[u] \in {"claiming", "ready"}, holder'[p] = u
      PROVE  owned'[u][p] # "none" \/ won'[u] = p \/ p \in unheard'[u]
    BY DEF HeldIsKnown, Entries
  <2>1. Effect(u, p)  BY <1>3
  <2>2. CASE holder[p] = u
    <3>1. main[u] \in {"claiming", "ready"}  BY <1>1, <2>1, <2>2 DEF Effect, Fresh
    <3>2. owned[u][p] # "none" \/ won[u] = p \/ p \in unheard[u]
      BY <1>1, <2>2, <3>1 DEF HeldIsKnown, Entries
    <3> QED  BY <2>1, <3>2 DEF Effect
  <2>3. CASE holder[p] # u  BY <2>1, <2>3 DEF Effect
  <2> QED  BY <2>2, <2>3
<1>7. lease' \subseteq Workers  BY DEF TypeOK, EtcdTypeOK
\* A key that was held or robbed stays so while its holder does not release.
<1>8. ASSUME NEW u \in lease', NEW p \in Products,
             holder[p] = u \/ p \in robbed[u], main[u] # "releasing"
      PROVE  holder'[p] = u \/ p \in robbed'[u]
  <2>1. Effect(u, p)  BY <1>3, <1>7
  <2> QED  BY <1>8, <2>1 DEF Effect
<1>9. LeasedBeliefHeld'
  <2> SUFFICES ASSUME NEW u \in lease', NEW p \in Products, owned'[u][p] # "none",
                      main'[u] \in {"claiming", "ready", "cancelling"}
      PROVE  holder'[p] = u \/ p \in robbed'[u]
    BY DEF LeasedBeliefHeld, Entries
  <2>1. u \in Workers /\ Effect(u, p)  BY <1>3, <1>7
  <2>2. main[u] \in {"new", "claiming", "ready", "cancelling"}  BY <2>1 DEF Effect
  <2>3. owned[u][p] # "none" \/ won[u] = p  BY <2>1 DEF Effect
  <2>4. main[u] # "new"
    BY <1>1, <1>4, <2>1, <2>3, PyCollectorAssumption DEF Fresh
  <2>5. u \in lease  BY <2>1, <2>4 DEF Effect
  <2>6. holder[p] = u \/ p \in robbed[u]
    BY <1>1, <2>2, <2>3, <2>4, <2>5 DEF LeasedBeliefHeld, WonHeld, Entries
  <2> QED  BY <1>8, <2>2, <2>6
<1>10. WonHeld'
  <2> SUFFICES ASSUME NEW u \in lease', NEW p \in Products, won'[u] = p
      PROVE  holder'[p] = u \/ p \in robbed'[u]
    BY DEF WonHeld
  <2>1. u \in Workers /\ Effect(u, p)  BY <1>3, <1>7
  <2>2. CASE won[u] = p
    <3>1. main[u] \in {"claiming", "ready"}
      BY <1>1, <2>1, <2>2, PyCollectorAssumption DEF TasksRun
    <3>2. u \in lease  BY <2>1, <3>1 DEF Effect
    <3>3. holder[p] = u \/ p \in robbed[u]  BY <1>1, <2>2, <3>2 DEF WonHeld
    <3> QED  BY <1>8, <3>1, <3>3
  <2>3. CASE won[u] # p  BY <2>1, <2>3 DEF Effect
  <2> QED  BY <2>2, <2>3
<1>11. ReleasedHeld'
  <2> SUFFICES ASSUME NEW u \in lease', NEW p \in Products, p \in toRelease'[u]
      PROVE  holder'[p] = u \/ p \in robbed'[u] \cup unheard'[u]
    BY DEF ReleasedHeld
  <2>1. u \in Workers /\ Effect(u, p)  BY <1>3, <1>7
  <2>2. main[u] # "new"  BY <1>4, <2>1 DEF Effect
  <2>3. u \in lease  BY <2>1, <2>2 DEF Effect
  <2>4. CASE p \in toRelease[u]
    <3>1. holder[p] = u \/ p \in robbed[u] \cup unheard[u]  BY <1>1, <2>3, <2>4 DEF ReleasedHeld
    <3> QED  BY <2>1, <3>1 DEF Effect
  <2>5. CASE p \notin toRelease[u]
    <3>1. owned[u][p] # "none" /\ main[u] = "cancelling" /\ UNCHANGED <<holder, robbed>>
      BY <2>1, <2>5 DEF Effect
    <3> QED  BY <1>1, <2>1, <2>3, <3>1 DEF LeasedBeliefHeld, Entries
  <2> QED  BY <2>4, <2>5
<1> QED  BY <1>2, <1>5, <1>6, <1>9, <1>10, <1>11 DEF BInv

LEMMA BInvInvariant == Spec => [](TypeOK /\ BInv)
<1>1. Init => BInv
  <2> SUFFICES ASSUME Init PROVE BInv  OBVIOUS
  <2>1. Fresh  BY NoWorkerAssumption DEF Init, EtcdInit, NoEntries, Fresh
  <2>2. TasksRun  BY DEF Init, TasksRun
  <2>3. HeldIsKnown  BY DEF Init, HeldIsKnown
  <2>4. LeasedBeliefHeld /\ WonHeld /\ ReleasedHeld
    BY DEF Init, EtcdInit, LeasedBeliefHeld, WonHeld, ReleasedHeld
  <2> QED  BY <2>1, <2>2, <2>3, <2>4 DEF BInv
<1> QED  BY <1>1, TypeCorrect, BInvNext, PTL DEF Spec

(* Until it stops, a worker knows every key it holds, unless a reply was lost. *)
THEOREM HeldKeysKnown == Spec => []HeldIsKnown
<1>1. BInv => HeldIsKnown  BY DEF BInv
<1> QED  BY BInvInvariant, <1>1, PTL

(***************************************************************************)
(* A worker whose lease lasts holds what it believes to own unless a key   *)
(* of its own was deleted by another: without watching, only stop of a     *)
(* worker that has lost its lease can make the belief false.               *)
(***************************************************************************)
THEOREM BeliefsHeld == Spec => []LeasedBeliefHeld
<1>1. BInv => LeasedBeliefHeld  BY DEF BInv
<1> QED  BY BInvInvariant, <1>1, PTL

(* Who deletes another's key has lost its lease, was robbed itself, or repeats a lost request. *)
THEOREM LosersRob == Spec => OnlyLosersRob
<1>1. ASSUME TypeOK, BInv, [Next]_vars, NEW v \in Workers, NEW w \in Workers, NEW p \in Products,
             p \in robbed'[v] \ robbed[v], p \in toRelease[w] \ toRelease'[w]
      PROVE  w \notin lease \/ p \in robbed[w] \/ p \in unheard[w]
  <2> USE DEF etcdVars, claimVars, collectVars, countVars, pastVars
  <2>1. \E u \in Workers, q \in Products : ReleaseDelete(u, q)
    <3>1. robbed' # robbed  BY <1>1
    <3>2. ASSUME NEW u \in Workers, PassRaises(u) PROVE robbed' = robbed
      BY <3>2 DEF PassRaises, Vanish
    <3>3. ASSUME NEW u \in Workers, Claims(u) \/ Collects(u) PROVE robbed' = robbed
      BY <3>2, <3>3 DEF Claims, PassEnds, ClaimRecord, TxnRefused, TxnUnheard, TxnFails, Collects,
           RoundStart, FetchEnds, PublishOk, PublishFails, RoundEnds, FetchStart
    <3>4. ASSUME NEW u \in Workers, NEW q \in Products, TxnWon(u, q) \/ AstrayArrives(u, q)
          PROVE  robbed' = robbed
      BY <3>4 DEF TxnWon, AstrayArrives
    <3>5. ASSUME NEW u \in Workers,
                 \/ Start(u) \/ StartFails(u) \/ ListShards(u) \/ ListFails(u) \/ Stop(u)
                 \/ CancelCollect(u) \/ Close(u) \/ Crash(u) \/ LeaseExpire(u)
          PROVE  robbed' = robbed
      BY <3>2, <3>5 DEF Start, StartFails, ListShards, ListFails, Stop, CancelCollect, Close,
           Crash, Vanish, LeaseExpire
    <3>6. ASSUME NEW u \in Workers, NEW q \in Products, ReleaseFailed(u, q) PROVE robbed' = robbed
      BY <3>6 DEF ReleaseFailed
    <3>7. UNCHANGED vars => robbed' = robbed  BY DEF vars
    <3> QED  BY <1>1, <3>1, <3>3, <3>4, <3>5, <3>6, <3>7 DEF Next, Stops
  <2>2. PICK u \in Workers, q \in Products : ReleaseDelete(u, q)  BY <2>1
  <2>3. p = q /\ holder[p] = v /\ v # u  BY <1>1, <2>2 DEF ReleaseDelete, TypeOK
  <2>4. w = u
    <3>1. toRelease' = toRelease \/ toRelease' = [toRelease EXCEPT ![u] = @ \ {q}]
      BY <2>2 DEF ReleaseDelete
    <3> QED  BY <1>1, <3>1 DEF TypeOK
  <2> QED  BY <1>1, <2>3, <2>4 DEF BInv, ReleasedHeld
<1>2. TypeOK /\ BInv /\ [Next]_vars =>
        \A v, w \in Workers, p \in Products :
            p \in robbed'[v] \ robbed[v] /\ p \in toRelease[w] \ toRelease'[w] =>
                w \notin lease \/ p \in robbed[w] \/ p \in unheard[w]
  BY <1>1
<1> QED  BY <1>2, BInvInvariant, PTL DEF Spec, OnlyLosersRob

-----------------------------------------------------------------------------
(* The counters *)

(***************************************************************************)
(* Inductive strengthening of RecordedArePublished: while a product is     *)
(* published, what will be recorded for it covers what was counted so far. *)
(***************************************************************************)
Ahead ==
    \A w \in Workers :
        collect[w] = "publish" =>
            recorded[w] + fetched[w] - left[w] >= published[w] + failed[w]

CInv == RecordedArePublished /\ Ahead

\* CInv of one worker.
Counted(w) ==
    /\ recorded[w] + fetched[w] - left[w] <= published[w] + failed[w] \/ Shutdown(w)
    /\ collect[w] \in {"rest", "round", "fetch"} => recorded[w] >= published[w] + failed[w]
    /\ collect[w] = "publish" => recorded[w] + fetched[w] - left[w] >= published[w] + failed[w]

LEMMA CountedIsCInv == CInv <=> \A w \in Workers : Counted(w)
BY DEF CInv, Ahead, RecordedArePublished, Counted

LEMMA CInvNext == TInv /\ Unstarted /\ CInv /\ [Next]_vars => CInv'
<1> SUFFICES ASSUME TypeOK, Underway, Unstarted, \A w \in Workers : Counted(w), [Next]_vars,
                    NEW u \in Workers
    PROVE  Counted(u)'
  BY CountedIsCInv DEF TInv, CInv, Ahead, RecordedArePublished, Counted
<1> USE DEF etcdVars, claimVars, collectVars, countVars, pastVars
<1>0. /\ recorded[u] \in Nat /\ published[u] \in Nat /\ failed[u] \in Nat
      /\ fetched[u] \in Nat /\ left[u] \in Nat
  BY PyCollectorAssumption DEF TypeOK
<1>1. ASSUME UNCHANGED <<collect[u], recorded[u], published[u], failed[u], fetched[u], left[u]>>,
             Shutdown(u) => Shutdown(u)'
      PROVE  Counted(u)'
  BY <1>1 DEF Counted
<1>2. ASSUME NEW w \in Workers, NEW end, Vanish(w, end) PROVE Counted(u)'
  <2>1. CASE u = w  BY <1>2, <2>1 DEF Vanish, DropCollect, TypeOK, Counted
  <2>2. CASE u # w  BY <1>1, <1>2, <2>2 DEF Vanish, DropCollect, TypeOK, Shutdown
  <2> QED  BY <2>1, <2>2
<1>3. ASSUME NEW w \in Workers, Start(w) \/ StartFails(w) PROVE Counted(u)'
  BY <1>1, <1>3 DEF Start, StartFails, Shutdown, TypeOK
<1>4. ASSUME NEW w \in Workers, PassRaises(w) PROVE Counted(u)'
  BY <1>1, <1>2, <1>4 DEF PassRaises, Shutdown
<1>5. ASSUME NEW w \in Workers, ListFails(w) \/ \E q \in Products : TxnFails(w, q) PROVE Counted(u)'
  BY <1>4, <1>5 DEF TxnFails, ListFails
<1>6. ASSUME NEW w \in Workers, PassEnds(w) PROVE Counted(u)'
  <2>1. CASE u = w /\ main[w] = "claiming"
    <3>1. recorded[u] = 0 /\ published[u] = 0 /\ failed[u] = 0 /\ collect[u] = "off"
      BY <2>1 DEF Unstarted
    <3>2. fetched[u] = 0 /\ left[u] = 0  BY <3>1 DEF Underway
    <3> QED  BY <1>6, <2>1, <3>1, <3>2 DEF PassEnds, Counted, TypeOK
  <2>2. CASE ~(u = w /\ main[w] = "claiming")
    BY <1>1, <1>6, <2>2 DEF PassEnds, Shutdown, TypeOK
  <2> QED  BY <2>1, <2>2
<1>7. ASSUME NEW w \in Workers,
             ClaimRecord(w) \/ ListShards(w) \/ LeaseExpire(w)
             \/ \E q \in Products : \/ AstrayArrives(w, q) \/ TxnUnheard(w, q) \/ TxnRefused(w, q)
                                    \/ TxnWon(w, q) \/ ReleaseDelete(w, q) \/ ReleaseFailed(w, q)
      PROVE  Counted(u)'
  BY <1>1, <1>7 DEF ClaimRecord, ListShards, LeaseExpire, AstrayArrives, TxnUnheard, TxnRefused,
       TxnWon, ReleaseDelete, ReleaseFailed, Shutdown
<1>8. ASSUME NEW w \in Workers,
             RoundStart(w) \/ RoundEnds(w) \/ \E q \in Products : FetchStart(w, q)
      PROVE  Counted(u)'
  BY <1>8 DEF RoundStart, RoundEnds, FetchStart, Counted, Shutdown, TypeOK
<1>9. ASSUME NEW w \in Workers, FetchEnds(w) PROVE Counted(u)'
  <2>1. PICK size \in 1 .. MaxReviews :
            IF Shutdown(w)
            THEN ProductEnds(w, size)
            ELSE /\ collect' = [collect EXCEPT ![w] = "publish"]
                 /\ fetched' = [fetched EXCEPT ![w] = size]
                 /\ left' = [left EXCEPT ![w] = size]
                 /\ UNCHANGED <<recorded, owned, current>>
    BY <1>9 DEF FetchEnds
  <2>2. collect[w] = "fetch" /\ UNCHANGED <<main, published, failed>>  BY <1>9 DEF FetchEnds
  <2>3. size \in Nat  BY PyCollectorAssumption
  <2>4. fetched[w] = 0 /\ left[w] = 0 /\ recorded[w] >= published[w] + failed[w]
    BY <2>2 DEF Underway, Counted
  <2>5. CASE u = w
    <3>1. CASE Shutdown(w)
      BY <1>0, <2>1, <2>2, <2>3, <2>4, <2>5, <3>1 DEF ProductEnds, Counted, Shutdown, TypeOK
    <3>2. CASE ~Shutdown(w)
      BY <1>0, <2>1, <2>2, <2>3, <2>4, <2>5, <3>2 DEF Counted, Shutdown, TypeOK
    <3> QED  BY <3>1, <3>2
  <2>6. CASE u # w
    BY <1>1, <2>1, <2>2, <2>6 DEF ProductEnds, Shutdown, TypeOK
  <2> QED  BY <2>5, <2>6
<1>10. ASSUME NEW w \in Workers, PublishOk(w) \/ PublishFails(w) PROVE Counted(u)'
  <2>1. collect[w] = "publish" /\ NextReview(w) /\ UNCHANGED main
    BY <1>10 DEF PublishOk, PublishFails
  <2>2. published'[u] + failed'[u] = published[u] + failed[u] + (IF u = w THEN 1 ELSE 0)
    <3>1. CASE PublishOk(w)
      <4>1. published'[u] = (IF u = w THEN published[u] + 1 ELSE published[u]) /\ failed'[u] = failed[u]
        BY <3>1 DEF PublishOk, TypeOK
      <4> QED  BY <1>0, <4>1
    <3>2. CASE PublishFails(w)
      <4>1. failed'[u] = (IF u = w THEN failed[u] + 1 ELSE failed[u]) /\ published'[u] = published[u]
        BY <3>2 DEF PublishFails, TypeOK
      <4> QED  BY <1>0, <4>1
    <3> QED  BY <1>10, <3>1, <3>2
  <2>3. left[w] >= 1  BY <2>1 DEF Underway
  <2>4. published'[u] \in Nat /\ failed'[u] \in Nat
    <3>1. CASE PublishOk(w)  BY <1>0, <3>1 DEF PublishOk, TypeOK
    <3>2. CASE PublishFails(w)  BY <1>0, <3>2 DEF PublishFails, TypeOK
    <3> QED  BY <1>10, <3>1, <3>2
  <2>5. CASE u = w /\ (left[w] = 1 \/ Shutdown(w))
    <3>1. ProductEnds(w, fetched[w])  BY <2>1, <2>5 DEF NextReview
    <3> QED  BY <1>0, <2>1, <2>2, <2>3, <2>4, <2>5, <3>1 DEF ProductEnds, Counted, Shutdown, TypeOK
  <2>6. CASE u = w /\ ~(left[w] = 1 \/ Shutdown(w))
    BY <1>0, <2>1, <2>2, <2>3, <2>4, <2>6 DEF NextReview, Counted, Shutdown, TypeOK
  <2>7. CASE u # w
    <3>1. UNCHANGED <<collect[u], recorded[u], fetched[u], left[u]>>
      BY <2>1, <2>7 DEF NextReview, ProductEnds, TypeOK
    <3> QED  BY <1>0, <2>1, <2>2, <2>4, <2>7, <3>1 DEF Counted, Shutdown
  <2> QED  BY <2>5, <2>6, <2>7
<1>11. ASSUME NEW w \in Workers, Stop(w) PROVE Counted(u)'
  BY <1>1, <1>11 DEF Stop, Shutdown, TypeOK
<1>12. ASSUME NEW w \in Workers, CancelCollect(w) PROVE Counted(u)'
  <2>1. CASE u = w  BY <1>12, <2>1 DEF CancelCollect, DropCollect, Counted, Shutdown, TypeOK
  <2>2. CASE u # w  BY <1>1, <1>12, <2>2 DEF CancelCollect, DropCollect, Shutdown, TypeOK
  <2> QED  BY <2>1, <2>2
<1>13. ASSUME NEW w \in Workers, Close(w) \/ Crash(w) PROVE Counted(u)'
  BY <1>2, <1>13 DEF Close, Crash
<1>14. CASE UNCHANGED vars  BY <1>1, <1>14 DEF vars, Shutdown
<1>15. ASSUME NEW w \in Workers, Claims(w) PROVE Counted(u)'
  BY <1>5, <1>6, <1>7, <1>15 DEF Claims
<1>16. ASSUME NEW w \in Workers, Collects(w) PROVE Counted(u)'
  BY <1>8, <1>9, <1>10, <1>16 DEF Collects
<1>17. ASSUME NEW w \in Workers, Stops(w) PROVE Counted(u)'
  BY <1>7, <1>12, <1>13, <1>17 DEF Stops
<1> QED
  BY <1>3, <1>5, <1>7, <1>11, <1>13, <1>14, <1>15, <1>16, <1>17 DEF Next

(* The metrics are those of the publisher, unless a shutdown cut a product short. *)
THEOREM MetricsMatch == Spec => []RecordedArePublished
<1>1. Init => CInv  BY DEF Init, CInv, Ahead, RecordedArePublished
<1>2. CInv => RecordedArePublished  BY DEF CInv
<1> QED  BY <1>1, <1>2, CInvNext, TInvInvariant, PTL DEF Spec
=============================================================================
