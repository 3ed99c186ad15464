---------------------------- MODULE PyCollector ----------------------------
(***************************************************************************)
(* clients/collector.py: the collector in Python.  It claims products with *)
(* the same keys in etcd as the Go collector, but it opens no watch, never *)
(* looks whether a key is still its own, and never takes a product out of  *)
(* _owned_products.  A process is one asyncio thread: main (start, stop),  *)
(* the claim task and the collect task take turns at their awaits, and one *)
(* action is what runs between two awaits, or what etcd does meanwhile.    *)
(***************************************************************************)
EXTENDS Etcd, FiniteSets

CONSTANTS
    NoProduct,    \* "none" for the variables that hold a product
    MaxReviews,   \* a fetch returns 1 .. MaxReviews reviews (6 in the code)
    Faults,       \* which requests may fail: subset of {"start", "get", "txn", "delete", "nats"}
    Crashable,    \* workers that may be killed
    Expirable,    \* workers whose keepalives may fail for longer than LEASE_TTL
    Stoppable     \* workers that may get SIGTERM

ASSUME PyCollectorAssumption ==
    /\ NoProduct \notin Products
    /\ IsFiniteSet(Products)
    /\ MaxReviews \in Nat \ {0}
    /\ Crashable \subseteq Workers /\ Expirable \subseteq Workers /\ Stoppable \subseteq Workers

VARIABLES
    main,        \* main[w]: where async_main is
    claim,       \* claim[w]: the claim: "off", "rest" between two passes, "trying"
    todo,        \* todo[w]: free products the pass has yet to try
    won,         \* won[w]: its transaction succeeded, the reply is not handled yet
    astray,      \* astray[w]: claim requests whose task is gone while they are underway
    owned,       \* owned[w][p]: _owned_products, "none" if there is no entry
    collect,     \* collect[w]: the collect task: "off", "rest", "round", "fetch", "publish"
    batch,       \* batch[w]: products the round has yet to collect
    current,     \* current[w]: the product being collected
    fetched,     \* fetched[w]: number of reviews fetched for it
    left,        \* left[w]: of these, not published yet, with the one underway
    published,   \* published[w], failed[w]: the counters of JetStreamPublisher
    failed,
    recorded,    \* recorded[w]: MetricsCollector.total_reviews
    toRelease,   \* toRelease[w]: products stop has yet to delete
    unheard,     \* history: unheard[w]: keys created or deleted for w without its learning of it
    robbed       \* history: robbed[w]: keys of w that another worker deleted

claimVars == <<claim, todo, won, astray>>
collectVars == <<collect, batch, current, fetched, left>>
countVars == <<published, failed, recorded>>
pastVars == <<unheard, robbed>>
vars == <<etcdVars, main, claimVars, owned, collectVars, countVars, toRelease, pastVars>>

Life == {"new", "claiming", "ready", "cancelling", "releasing", "ended", "failed", "crashed"}

TypeOK ==
    /\ EtcdTypeOK
    /\ main \in [Workers -> Life]
    /\ claim \in [Workers -> {"off", "rest", "trying"}]
    /\ todo \in [Workers -> SUBSET Products]
    /\ won \in [Workers -> Products \cup {NoProduct}]
    /\ astray \in [Workers -> SUBSET Products]
    /\ owned \in [Workers -> [Products -> {"none", "claiming", "completed"}]]
    /\ collect \in [Workers -> {"off", "rest", "round", "fetch", "publish"}]
    /\ batch \in [Workers -> SUBSET Products]
    /\ current \in [Workers -> Products \cup {NoProduct}]
    /\ fetched \in [Workers -> 0 .. MaxReviews]
    /\ left \in [Workers -> 0 .. MaxReviews]
    /\ published \in [Workers -> Nat]
    /\ failed \in [Workers -> Nat]
    /\ recorded \in [Workers -> Nat]
    /\ toRelease \in [Workers -> SUBSET Products]
    /\ unheard \in [Workers -> SUBSET Products]
    /\ robbed \in [Workers -> SUBSET Products]

NoEntries == [p \in Products |-> "none"]

Init ==
    /\ EtcdInit
    /\ main = [w \in Workers |-> "new"]
    /\ claim = [w \in Workers |-> "off"]
    /\ todo = [w \in Workers |-> {}]
    /\ won = [w \in Workers |-> NoProduct]
    /\ astray = [w \in Workers |-> {}]
    /\ owned = [w \in Workers |-> NoEntries]
    /\ collect = [w \in Workers |-> "off"]
    /\ batch = [w \in Workers |-> {}]
    /\ current = [w \in Workers |-> NoProduct]
    /\ fetched = [w \in Workers |-> 0]
    /\ left = [w \in Workers |-> 0]
    /\ published = [w \in Workers |-> 0]
    /\ failed = [w \in Workers |-> 0]
    /\ recorded = [w \in Workers |-> 0]
    /\ toRelease = [w \in Workers |-> {}]
    /\ unheard = [w \in Workers |-> {}]
    /\ robbed = [w \in Workers |-> {}]
-----------------------------------------------------------------------------
Entries(w) == {p \in Products : owned[w][p] # "none"}

Alive(w) == main[w] \in {"claiming", "ready", "cancelling", "releasing"}
Shutdown(w) == main[w] \in {"cancelling", "releasing"}

\* A claim request of w is underway: it has been sent and no reply has come.
Asking(w) == claim[w] = "trying" /\ won[w] = NoProduct /\ todo[w] # {}

(***************************************************************************)
(* The claim task goes away in the middle of a pass.  A reply it has not   *)
(* handled is dropped; a request underway is not called back.              *)
(***************************************************************************)
DropClaim(w) ==
    /\ claim' = [claim EXCEPT ![w] = "off"]
    /\ todo' = [todo EXCEPT ![w] = {}]
    /\ won' = [won EXCEPT ![w] = NoProduct]
    /\ IF Asking(w)
       THEN \E p \in todo[w] : astray' = [astray EXCEPT ![w] = @ \cup {p}]
       ELSE UNCHANGED astray
    /\ unheard' = [unheard EXCEPT ![w] = @ \cup ({won[w]} \ {NoProduct})]

DropCollect(w) ==
    /\ collect' = [collect EXCEPT ![w] = "off"]
    /\ batch' = [batch EXCEPT ![w] = {}]
    /\ current' = [current EXCEPT ![w] = NoProduct]
    /\ fetched' = [fetched EXCEPT ![w] = 0]
    /\ left' = [left EXCEPT ![w] = 0]

\* The process and its memory are gone; lease and keys stay in etcd.
Vanish(w, end) ==
    /\ main' = [main EXCEPT ![w] = end]
    /\ DropClaim(w) /\ DropCollect(w)
    /\ owned' = [owned EXCEPT ![w] = NoEntries]
    /\ published' = [published EXCEPT ![w] = 0]
    /\ failed' = [failed EXCEPT ![w] = 0]
    /\ recorded' = [recorded EXCEPT ![w] = 0]
    /\ toRelease' = [toRelease EXCEPT ![w] = {}]
    /\ UNCHANGED robbed
-----------------------------------------------------------------------------
(* start: lease and keepalive, NATS, the product list; the first claim is next. *)
Start(w) ==
    /\ main[w] = "new"
    /\ main' = [main EXCEPT ![w] = "claiming"]
    /\ lease' = lease \cup {w}
    /\ claim' = [claim EXCEPT ![w] = "rest"]
    /\ UNCHANGED <<holder, watching, deletes, todo, won, astray, owned, collectVars, countVars,
                   toRelease, pastVars>>

(* One of these fails and start raises: the process ends, a granted lease stays. *)
StartFails(w) ==
    /\ "start" \in Faults /\ main[w] = "new"
    /\ main' = [main EXCEPT ![w] = "failed"]
    /\ lease' \in {lease, lease \cup {w}}
    /\ UNCHANGED <<holder, watching, deletes, claimVars, owned, collectVars, countVars,
                   toRelease, pastVars>>

\* Mutant of ListShards: the listing of the assignments is taken for the listing of the free products.
ListShardsMutant(w) ==
    /\ claim[w] = "rest"
    /\ claim' = [claim EXCEPT ![w] = "trying"]
    /\ todo' = [todo EXCEPT ![w] = Existing(Products) \ Entries(w)]
    /\ UNCHANGED <<etcdVars, main, won, astray, owned, collectVars, countVars, toRelease, pastVars>>

(* A pass of _claim_products reads products and assignments. *)
ListShards(w) ==
    /\ claim[w] = "rest"
    /\ claim' = [claim EXCEPT ![w] = "trying"]
    /\ todo' = [todo EXCEPT ![w] = Products \ (Existing(Products) \cup Entries(w))]
    /\ UNCHANGED <<etcdVars, main, won, astray, owned, collectVars, countVars, toRelease, pastVars>>

Tries(w, p) == claim[w] = "trying" /\ won[w] = NoProduct /\ p \in todo[w]

\* Mutant of TxnWon: the key is put without comparing its creation revision.
TxnWonMutant(w, p) ==
    /\ Tries(w, p) /\ w \in lease
    /\ CreateKey(w, p)
    /\ won' = [won EXCEPT ![w] = p]
    /\ todo' = [todo EXCEPT ![w] = @ \ {p}]
    /\ UNCHANGED <<lease, watching, deletes, main, claim, astray, owned, collectVars, countVars,
                   toRelease, pastVars>>

\* Mutant of TxnWon: the put is not bound to the lease.
TxnWonUnleasedMutant(w, p) ==
    /\ Tries(w, p) /\ holder[p] = NoWorker
    /\ CreateKey(w, p)
    /\ won' = [won EXCEPT ![w] = p]
    /\ todo' = [todo EXCEPT ![w] = @ \ {p}]
    /\ UNCHANGED <<lease, watching, deletes, main, claim, astray, owned, collectVars, countVars,
                   toRelease, pastVars>>

(* etcd creates the key; the coroutine has yet to resume with the reply. *)
TxnWon(w, p) ==
    /\ Tries(w, p) /\ CanCreate(w, p)
    /\ CreateKey(w, p)
    /\ won' = [won EXCEPT ![w] = p]
    /\ todo' = [todo EXCEPT ![w] = @ \ {p}]
    /\ UNCHANGED <<lease, watching, deletes, main, claim, astray, owned, collectVars, countVars,
                   toRelease, pastVars>>

(* The key exists by now. *)
TxnRefused(w, p) ==
    /\ Tries(w, p) /\ holder[p] # NoWorker
    /\ todo' = [todo EXCEPT ![w] = @ \ {p}]
    /\ UNCHANGED <<etcdVars, main, claim, won, astray, owned, collectVars, countVars,
                   toRelease, pastVars>>

(* etcd creates the key and the reply is lost; if the request is repeated at another endpoint, *)
(* the key exists there. *)
TxnUnheard(w, p) ==
    /\ "txn" \in Faults /\ Tries(w, p) /\ CanCreate(w, p)
    /\ CreateKey(w, p)
    /\ unheard' = [unheard EXCEPT ![w] = @ \cup {p}]
    /\ UNCHANGED <<lease, watching, deletes, main, claim, todo, won, astray, owned, collectVars,
                   countVars, toRelease, robbed>>

\* An exception ends the pass: the claim loop logs it, start lets it end the process.
PassRaises(w) ==
    IF main[w] = "claiming"
    THEN Vanish(w, "failed")
    ELSE /\ claim' = [claim EXCEPT ![w] = "rest"]
         /\ todo' = [todo EXCEPT ![w] = {}]
         /\ UNCHANGED <<main, won, astray, owned, collectVars, countVars, toRelease, pastVars>>

(* No endpoint answers, or the lease is gone and etcd refuses to bind a key to it. *)
TxnFails(w, p) ==
    /\ Tries(w, p)
    /\ "txn" \in Faults \/ (holder[p] = NoWorker /\ w \notin lease)
    /\ PassRaises(w)
    /\ UNCHANGED etcdVars

(* One of the listings fails. *)
ListFails(w) ==
    /\ "get" \in Faults /\ claim[w] = "rest"
    /\ PassRaises(w)
    /\ UNCHANGED etcdVars

\* Mutant of ClaimRecord: the reply to the last request of a pass is not looked at.
ClaimRecordMutant(w) ==
    /\ claim[w] = "trying" /\ won[w] # NoProduct
    /\ owned' = IF todo[w] = {} THEN owned ELSE [owned EXCEPT ![w][won[w]] = "claiming"]
    /\ won' = [won EXCEPT ![w] = NoProduct]
    /\ UNCHANGED <<etcdVars, main, claim, todo, astray, collectVars, countVars, toRelease, pastVars>>

ClaimRecord(w) ==
    /\ claim[w] = "trying" /\ won[w] # NoProduct
    /\ owned' = [owned EXCEPT ![w][won[w]] = "claiming"]
    /\ won' = [won EXCEPT ![w] = NoProduct]
    /\ UNCHANGED <<etcdVars, main, claim, todo, astray, collectVars, countVars, toRelease, pastVars>>

(* The pass is over: the next one starts RECLAIM_INTERVAL later.  After the first one start *)
(* creates the tasks. *)
PassEnds(w) ==
    /\ claim[w] = "trying" /\ todo[w] = {} /\ won[w] = NoProduct
    /\ claim' = [claim EXCEPT ![w] = "rest"]
    /\ IF main[w] = "claiming"
       THEN /\ main' = [main EXCEPT ![w] = "ready"]
            /\ collect' = [collect EXCEPT ![w] = "rest"]
       ELSE UNCHANGED <<main, collect>>
    /\ UNCHANGED <<etcdVars, todo, won, astray, owned, batch, current, fetched, left, countVars,
                   toRelease, pastVars>>

(* A request that was underway when its task went away still reaches etcd, or never does. *)
AstrayArrives(w, p) ==
    /\ p \in astray[w]
    /\ astray' = [astray EXCEPT ![w] = @ \ {p}]
    /\ \/ /\ CanCreate(w, p)
          /\ CreateKey(w, p)
          /\ unheard' = [unheard EXCEPT ![w] = @ \cup {p}]
       \/ UNCHANGED <<holder, unheard>>
    /\ UNCHANGED <<lease, watching, deletes, main, claim, todo, won, owned, collectVars, countVars,
                   toRelease, robbed>>
-----------------------------------------------------------------------------
(* A round of the collect loop takes the products owned now; those completed are skipped. *)
RoundStart(w) ==
    /\ collect[w] = "rest" /\ ~Shutdown(w)
    /\ collect' = [collect EXCEPT ![w] = "round"]
    /\ batch' = [batch EXCEPT ![w] = {p \in Products : owned[w][p] = "claiming"}]
    /\ UNCHANGED <<etcdVars, main, claimVars, owned, current, fetched, left, countVars,
                   toRelease, pastVars>>

FetchStart(w, p) ==
    /\ collect[w] = "round" /\ ~Shutdown(w) /\ p \in batch[w]
    /\ collect' = [collect EXCEPT ![w] = "fetch"]
    /\ batch' = [batch EXCEPT ![w] = @ \ {p}]
    /\ current' = [current EXCEPT ![w] = p]
    /\ UNCHANGED <<etcdVars, main, claimVars, owned, fetched, left, countVars, toRelease, pastVars>>

\* Every review was published, or _shutdown broke the loop: all of them are recorded, the product is completed.
ProductEnds(w, size) ==
    /\ recorded' = [recorded EXCEPT ![w] = @ + size]
    /\ owned' = [owned EXCEPT ![w][current[w]] = "completed"]
    /\ collect' = [collect EXCEPT ![w] = "round"]
    /\ current' = [current EXCEPT ![w] = NoProduct]
    /\ fetched' = [fetched EXCEPT ![w] = 0]
    /\ left' = [left EXCEPT ![w] = 0]

(* The fetch returns, and the first review goes out unless _shutdown is set. *)
FetchEnds(w) ==
    /\ collect[w] = "fetch"
    /\ \E size \in 1 .. MaxReviews :
        IF Shutdown(w)
        THEN ProductEnds(w, size)
        ELSE /\ collect' = [collect EXCEPT ![w] = "publish"]
             /\ fetched' = [fetched EXCEPT ![w] = size]
             /\ left' = [left EXCEPT ![w] = size]
             /\ UNCHANGED <<recorded, owned, current>>
    /\ UNCHANGED <<etcdVars, main, claimVars, batch, published, failed, toRelease, pastVars>>

\* A publication has ended; the next one goes out, or it was the last.
NextReview(w) ==
    IF left[w] = 1 \/ Shutdown(w)
    THEN ProductEnds(w, fetched[w])
    ELSE /\ left' = [left EXCEPT ![w] = @ - 1]
         /\ UNCHANGED <<recorded, owned, collect, current, fetched>>

PublishOk(w) ==
    /\ collect[w] = "publish"
    /\ published' = [published EXCEPT ![w] = @ + 1]
    /\ NextReview(w)
    /\ UNCHANGED <<etcdVars, main, claimVars, batch, failed, toRelease, pastVars>>

\* Mutant of PublishFails: a failed publication ends the product.
PublishFailsMutant(w) ==
    /\ "nats" \in Faults /\ collect[w] = "publish"
    /\ failed' = [failed EXCEPT ![w] = @ + 1]
    /\ ProductEnds(w, fetched[w])
    /\ UNCHANGED <<etcdVars, main, claimVars, batch, published, toRelease, pastVars>>

(* No acknowledgement: the review is skipped. *)
PublishFails(w) ==
    /\ "nats" \in Faults /\ collect[w] = "publish"
    /\ failed' = [failed EXCEPT ![w] = @ + 1]
    /\ NextReview(w)
    /\ UNCHANGED <<etcdVars, main, claimVars, batch, published, toRelease, pastVars>>

(* The round is over, or _shutdown broke it. *)
RoundEnds(w) ==
    /\ collect[w] = "round" /\ (batch[w] = {} \/ Shutdown(w))
    /\ collect' = [collect EXCEPT ![w] = IF Shutdown(w) THEN "off" ELSE "rest"]
    /\ batch' = [batch EXCEPT ![w] = {}]
    /\ UNCHANGED <<etcdVars, main, claimVars, owned, current, fetched, left, countVars,
                   toRelease, pastVars>>
-----------------------------------------------------------------------------
(* stop sets _shutdown and cancels the claim task; while it waits for that the collect task may run. *)
Stop(w) ==
    /\ w \in Stoppable /\ main[w] = "ready"
    /\ main' = [main EXCEPT ![w] = "cancelling"]
    /\ DropClaim(w)
    /\ UNCHANGED <<etcdVars, owned, collectVars, countVars, toRelease, robbed>>

\* Mutant of CancelCollect: every product is released.
CancelCollectMutant(w) ==
    /\ main[w] = "cancelling"
    /\ main' = [main EXCEPT ![w] = "releasing"]
    /\ DropCollect(w)
    /\ toRelease' = [toRelease EXCEPT ![w] = Products]
    /\ UNCHANGED <<etcdVars, claimVars, owned, countVars, pastVars>>

(* The collect task is cancelled too; then the products owned are released. *)
CancelCollect(w) ==
    /\ main[w] = "cancelling"
    /\ main' = [main EXCEPT ![w] = "releasing"]
    /\ DropCollect(w)
    /\ toRelease' = [toRelease EXCEPT ![w] = Entries(w)]
    /\ UNCHANGED <<etcdVars, claimVars, owned, countVars, pastVars>>

(* The key is deleted, whoever holds it; if the reply is lost the request may be repeated. *)
ReleaseDelete(w, p) ==
    /\ main[w] = "releasing" /\ p \in toRelease[w]
    /\ DeleteKeys({p}, {})
    /\ robbed' = [v \in Workers |->
            IF v = holder[p] /\ v # w THEN robbed[v] \cup {p} ELSE robbed[v]]
    /\ \/ toRelease' = [toRelease EXCEPT ![w] = @ \ {p}] /\ UNCHANGED unheard
       \/ /\ "delete" \in Faults /\ p \notin unheard[w]
          /\ unheard' = [unheard EXCEPT ![w] = @ \cup {p}]
          /\ UNCHANGED toRelease
    /\ UNCHANGED <<lease, watching, main, claimVars, owned, collectVars, countVars>>

ReleaseFailed(w, p) ==
    /\ "delete" \in Faults
    /\ main[w] = "releasing" /\ p \in toRelease[w]
    /\ toRelease' = [toRelease EXCEPT ![w] = @ \ {p}]
    /\ UNCHANGED <<etcdVars, main, claimVars, owned, collectVars, countVars, pastVars>>

(* NATS is drained and closed, the lease revoked if that succeeds, its keepalive cancelled. *)
Close(w) ==
    /\ main[w] = "releasing" /\ toRelease[w] = {}
    /\ Vanish(w, "ended")
    /\ \/ EndLease(w) /\ UNCHANGED watching
       \/ (w \notin lease \/ "delete" \in Faults) /\ UNCHANGED etcdVars

(* The process is killed. *)
Crash(w) ==
    /\ w \in Crashable /\ Alive(w)
    /\ Vanish(w, "crashed")
    /\ UNCHANGED etcdVars

(* Nobody renews the lease, or the keepalive loop has only logged failures for LEASE_TTL. *)
LeaseExpire(w) ==
    /\ w \in Expirable \/ ~Alive(w)
    /\ EndLease(w)
    /\ UNCHANGED <<watching, main, claimVars, owned, collectVars, countVars, toRelease, pastVars>>
-----------------------------------------------------------------------------
Claims(w) ==
    \/ PassEnds(w) \/ ClaimRecord(w)
    \/ \E p \in Products : TxnRefused(w, p) \/ TxnUnheard(w, p) \/ TxnFails(w, p)

Collects(w) ==
    \/ RoundStart(w) \/ FetchEnds(w) \/ PublishOk(w) \/ PublishFails(w) \/ RoundEnds(w)
    \/ \E p \in Products : FetchStart(w, p)

Stops(w) ==
    \/ CancelCollect(w) \/ Close(w)
    \/ \E p \in Products : ReleaseDelete(w, p) \/ ReleaseFailed(w, p)

Next ==
    \E w \in Workers :
        \/ Start(w) \/ StartFails(w) \/ ListShards(w) \/ ListFails(w) \/ Claims(w)
        \/ Collects(w) \/ Stop(w) \/ Stops(w) \/ Crash(w) \/ LeaseExpire(w)
        \/ \E p \in Products : TxnWon(w, p) \/ AstrayArrives(w, p)

(***************************************************************************)
(* The event loop runs what is ready.  A request to etcd that is repeated  *)
(* every RECLAIM_INTERVAL does not fail for ever.  The lease of a process  *)
(* that has ended runs out.  Nothing makes a worker start, stop, crash or  *)
(* lose its lease.                                                         *)
(***************************************************************************)
Fairness ==
    \A w \in Workers :
        /\ WF_vars(Claims(w)) /\ WF_vars(Collects(w)) /\ WF_vars(Stops(w))
        /\ SF_vars(ListShards(w))
        /\ \A p \in Products : SF_vars(TxnWon(w, p))
        /\ WF_vars(~Alive(w) /\ LeaseExpire(w))

Spec == Init /\ [][Next]_vars /\ Fairness
-----------------------------------------------------------------------------
(* Until it stops, a worker knows every key it holds, unless a reply to a claim was lost: no *)
(* product is kept from the others without being collected (_claim_products skips what is taken). *)
HeldIsKnown ==
    \A w \in Workers, p \in Products :
        main[w] \in {"claiming", "ready"} /\ holder[p] = w =>
            p \in Entries(w) \/ won[w] = p \/ p \in unheard[w]

(* While its lease lasts a worker holds what it believes to own, though it never looks, unless a *)
(* worker that stopped has deleted the key (stop does not compare the holder). *)
LeasedBeliefHeld ==
    \A w \in lease, p \in Products :
        main[w] \in {"claiming", "ready", "cancelling"} /\ p \in Entries(w) =>
            holder[p] = w \/ p \in robbed[w]

(* Only a worker that has lost its lease, was robbed itself, or repeats a request whose reply was *)
(* lost deletes another's key. *)
OnlyLosersRob ==
    [][\A v, w \in Workers, p \in Products :
        p \in robbed'[v] \ robbed[v] /\ p \in toRelease[w] \ toRelease'[w] =>
            w \notin lease \/ p \in robbed[w] \/ p \in unheard[w]]_vars

(* The metrics count every review once that publish_raw has counted, unless a shutdown cut a *)
(* product short, which is counted in full. *)
RecordedArePublished ==
    \A w \in Workers :
        /\ recorded[w] + fetched[w] - left[w] <= published[w] + failed[w] \/ Shutdown(w)
        /\ collect[w] \in {"rest", "round", "fetch"} =>
                recorded[w] >= published[w] + failed[w]

(* The keys of a worker that stopped, crashed or failed to start are free in the end. *)
EndedReleases ==
    \A w \in Workers :
        main[w] \in {"ended", "failed", "crashed"} ~> ~Alive(w) /\ KeysOf(w) = {}

(* While some worker keeps running and keeps its lease, every product is collected, again if the *)
(* worker that did it has ended, unless its key is held by one that never learnt of it. *)
ProductCollected ==
    \A w \in Workers, p \in Products :
        <>[](main[w] = "ready" /\ w \in lease) =>
            []<>(\E v \in Workers :
                    owned[v][p] = "completed" \/ (holder[p] = v /\ p \in unheard[v]))
=============================================================================
