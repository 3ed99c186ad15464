----------------------------- MODULE Collector -----------------------------
(***************************************************************************)
(* internal/collector/collector.go on top of Coordinator: the loop Run,    *)
(* one goroutine for each product it claims, the map workers that tracks   *)
(* them, and the shutdown that waits for the tracked goroutines, closes    *)
(* the reviews channel and lets main release the products.  The actions of *)
(* Coordinator take part unchanged; the loop's are joined to what the      *)
(* collector does with their result.  A goroutine's batch of reviews is    *)
(* one send: the forwarder keeps draining the channel until it is closed.  *)
(***************************************************************************)
EXTENDS Coordinator

CONSTANT MaxGoroutines   \* bound: collecting goroutines alive at a time in one process

ASSUME CollectorAssumption == MaxGoroutines \in Nat \ {0}

VARIABLES
    run,       \* run[w]: "loop", "waiting" in stopAllWorkers, "ended" with the reviews channel closed
    claimed,   \* claimed[w]: products the running claim has won, not spawned yet
    at,        \* at[w][g]: where goroutine g is: "off", "fetch", "send", "mark"
    work,      \* work[w][g]: the product goroutine g was spawned for
    tracked,   \* tracked[w][p]: the goroutine in the map workers, 0 if there is none
    waiting,   \* waiting[w]: the goroutines stopAllWorkers waits for
    detached   \* history: detached[w]: products whose loss was handled while a goroutine collected them

collectorVars == <<run, claimed, at, work, tracked, waiting, detached>>
allVars == <<vars, collectorVars>>

Goroutines == 1 .. MaxGoroutines
NoGoroutine == 0

CollectorTypeOK ==
    /\ TypeOK
    /\ run \in [Workers -> {"loop", "waiting", "ended"}]
    /\ claimed \in [Workers -> SUBSET Products]
    /\ at \in [Workers -> [Goroutines -> {"off", "fetch", "send", "mark"}]]
    /\ work \in [Workers -> [Goroutines -> Products \cup {NoProduct}]]
    /\ tracked \in [Workers -> [Products -> Goroutines \cup {NoGoroutine}]]
    /\ waiting \in [Workers -> SUBSET Goroutines]
    /\ detached \in [Workers -> SUBSET Products]

AllOff == [g \in Goroutines |-> "off"]
NoWork == [g \in Goroutines |-> NoProduct]
NoneTracked == [p \in Products |-> NoGoroutine]

CollectorInit ==
    /\ Init
    /\ run = [w \in Workers |-> "loop"]
    /\ claimed = [w \in Workers |-> {}]
    /\ at = [w \in Workers |-> AllOff]
    /\ work = [w \in Workers |-> NoWork]
    /\ tracked = [w \in Workers |-> NoneTracked]
    /\ waiting = [w \in Workers |-> {}]
    /\ detached = [w \in Workers |-> {}]
-----------------------------------------------------------------------------
\* Run is at its select.
AtSelect(w) == run[w] = "loop" /\ ClaimIdle(w) /\ claimed[w] = {}

Working(w, p) == {g \in Goroutines : at[w][g] # "off" /\ work[w][g] = p}

(* The reclaim ticker, or a freed product. *)
LoopClaims(w) ==
    /\ AtSelect(w)
    /\ ClaimStart(w) \/ ClaimFreed(w)
    /\ UNCHANGED collectorVars

LoopRecords(w) ==
    /\ ClaimRecord(w)
    /\ claimed' = [claimed EXCEPT ![w] = @ \cup {won[w]}]
    /\ UNCHANGED <<run, at, work, tracked, waiting, detached>>

\* Mutant of Spawn: the entry of an earlier goroutine is overwritten.
SpawnMutant(w, p) ==
    /\ ClaimIdle(w) /\ p \in claimed[w]
    /\ claimed' = [claimed EXCEPT ![w] = @ \ {p}]
    /\ \E g \in Goroutines :
        /\ at[w][g] = "off"
        /\ at' = [at EXCEPT ![w][g] = "fetch"]
        /\ work' = [work EXCEPT ![w][g] = p]
        /\ tracked' = [tracked EXCEPT ![w][p] = g]
    /\ UNCHANGED <<vars, run, waiting, detached>>

(* spawnWorker, after the claim has returned: nothing is done if the map has an entry. *)
Spawn(w, p) ==
    /\ ClaimIdle(w) /\ p \in claimed[w]
    /\ claimed' = [claimed EXCEPT ![w] = @ \ {p}]
    /\ IF tracked[w][p] # NoGoroutine
       THEN UNCHANGED <<at, work, tracked>>
       ELSE \E g \in Goroutines :
                /\ at[w][g] = "off"
                /\ at' = [at EXCEPT ![w][g] = "fetch"]
                /\ work' = [work EXCEPT ![w][g] = p]
                /\ tracked' = [tracked EXCEPT ![w][p] = g]
    /\ UNCHANGED <<vars, run, waiting, detached>>

(* A notice from LostProducts: removeWorker drops the entry, the goroutine is not told. *)
LoopLoses(w) ==
    /\ AtSelect(w)
    /\ TakeLost(w)
    /\ tracked' = [tracked EXCEPT ![w][Head(lost[w])] = NoGoroutine]
    /\ detached' = [detached EXCEPT ![w] =
            IF Working(w, Head(lost[w])) = {} THEN @ ELSE @ \cup {Head(lost[w])}]
    /\ UNCHANGED <<run, claimed, at, work, waiting>>

(* main has called Stop: stopAllWorkers takes the tracked goroutines, ... *)
LoopStops(w) ==
    /\ w \in Stoppable
    /\ AtSelect(w)
    /\ run' = [run EXCEPT ![w] = "waiting"]
    /\ waiting' = [waiting EXCEPT ![w] = {tracked[w][p] : p \in Products} \ {NoGoroutine}]
    /\ UNCHANGED <<vars, claimed, at, work, tracked, detached>>

\* Mutant of CloseReviews: the channel is closed at once.
CloseReviewsMutant(w) ==
    /\ proc[w] = "running" /\ run[w] = "waiting"
    /\ run' = [run EXCEPT ![w] = "ended"]
    /\ UNCHANGED <<vars, claimed, at, work, tracked, waiting, detached>>

(* ... waits until they are done, and closes the reviews channel. *)
CloseReviews(w) ==
    /\ proc[w] = "running" /\ run[w] = "waiting"
    /\ \A g \in waiting[w] : at[w][g] = "off"
    /\ run' = [run EXCEPT ![w] = "ended"]
    /\ UNCHANGED <<vars, claimed, at, work, tracked, waiting, detached>>

\* Mutant of MainReleases: main does not wait for the loop.
MainReleasesMutant(w) ==
    /\ ReleaseStart(w)
    /\ UNCHANGED collectorVars

(* The channel's end lets the aggregator finish, which main waits for before ReleaseAll. *)
MainReleases(w) ==
    /\ run[w] = "ended"
    /\ ReleaseStart(w)
    /\ UNCHANGED collectorVars
-----------------------------------------------------------------------------
\* A goroutine returns: done is closed, and its product's entry is removed, whoever's it is.
Returns(w, g) ==
    /\ at' = [at EXCEPT ![w][g] = "off"]
    /\ work' = [work EXCEPT ![w][g] = NoProduct]
    /\ tracked' = [tracked EXCEPT ![w][work[w][g]] = NoGoroutine]
    /\ UNCHANGED <<run, claimed, waiting, detached>>

Goes(w, g, from, to) ==
    /\ Alive(w) /\ at[w][g] = from
    /\ at' = [at EXCEPT ![w][g] = to]
    /\ UNCHANGED <<vars, run, claimed, work, tracked, waiting, detached>>

Fetch(w, g) == Goes(w, g, "fetch", "send")

FetchFails(w, g) ==
    /\ Alive(w) /\ at[w][g] = "fetch"
    /\ Returns(w, g)
    /\ UNCHANGED vars

SendReviews(w, g) == run[w] # "ended" /\ Goes(w, g, "send", "mark")

\* The process ends, with its loop and its goroutines.
LosesMemory(w) ==
    /\ run' = [run EXCEPT ![w] = "loop"]
    /\ claimed' = [claimed EXCEPT ![w] = {}]
    /\ at' = [at EXCEPT ![w] = AllOff]
    /\ work' = [work EXCEPT ![w] = NoWork]
    /\ tracked' = [tracked EXCEPT ![w] = NoneTracked]
    /\ waiting' = [waiting EXCEPT ![w] = {}]
    /\ detached' = [detached EXCEPT ![w] = {}]

(* A send on the closed channel panics. *)
SendPanics(w, g) ==
    /\ Alive(w) /\ at[w][g] = "send" /\ run[w] = "ended"
    /\ Vanish(w, "panicked") /\ CloseWatch(w)
    /\ UNCHANGED <<holder, lease>>
    /\ LosesMemory(w)

(* The goroutine reports its product collected, which is ignored if the product has no entry. *)
Collected(w, g) ==
    /\ MuFree(w) /\ at[w][g] = "mark"
    /\ \/ MarkProductCollected(w, work[w][g])
       \/ owned[w][work[w][g]] \in {"none", "completed"} /\ UNCHANGED vars
    /\ Returns(w, g)

(* The context is cancelled. *)
Cancelled(w, g) ==
    /\ proc[w] = "leaving" /\ at[w][g] \in {"fetch", "send"}
    /\ Returns(w, g)
    /\ UNCHANGED vars

ProcessEnds(w) ==
    /\ Crash(w) \/ Close(w) \/ \E p \in Products : WatchPanic(w, p)
    /\ LosesMemory(w)
-----------------------------------------------------------------------------
(* The steps of Coordinator in which the collector has no part. *)
CoordinatorOnly(w) ==
    /\ \/ Start(w) \/ WatchForget(w) \/ WatchSend(w) \/ WatchEnd(w) \/ Verify(w)
       \/ NotifyLostAll(w) \/ LeaseExpire(w) \/ ReleaseDone(w)
       \/ \E p \in Products :
            \/ ClaimWon(w, p) \/ ClaimRaceLost(w, p) \/ ClaimFailed(w, p)
            \/ WatchOurs(w, p) \/ WatchFreed(w, p)
            \/ ReleaseDelete(w, p) \/ ReleaseFailed(w, p)
    /\ UNCHANGED collectorVars

CollectorNext ==
    \E w \in Workers :
        \/ CoordinatorOnly(w) \/ ProcessEnds(w)
        \/ LoopClaims(w) \/ LoopRecords(w) \/ LoopLoses(w) \/ LoopStops(w)
        \/ CloseReviews(w) \/ MainReleases(w)
        \/ \E p \in Products : Spawn(w, p)
        \/ \E g \in Goroutines :
            \/ Fetch(w, g) \/ FetchFails(w, g) \/ SendReviews(w, g) \/ SendPanics(w, g)
            \/ Collected(w, g) \/ Cancelled(w, g)

CollectorSpec == CollectorInit /\ [][CollectorNext]_allVars
-----------------------------------------------------------------------------
(* No two goroutines, of one process or of two, collect the same product. *)
SingleCollector ==
    \A p \in Products : \A v, w \in Workers : \A g \in Working(v, p), h \in Working(w, p) :
        v = w /\ g = h

(* The reviews channel is closed only when no goroutine is going to send on it. *)
NoSendOnClosed ==
    \A w \in Workers, g \in Goroutines : run[w] = "ended" => at[w][g] \notin {"fetch", "send"}

(* After a lost lease too, only the goroutine of a product whose loss was handled while one *)
(* collected it can be caught by the closed channel: stopAllWorkers waits for all others. *)
ClosedOnDetached ==
    \A w \in Workers, g \in Goroutines :
        run[w] = "ended" /\ at[w][g] \in {"fetch", "send"} => work[w][g] \in detached[w]

(***************************************************************************)
(* A goroutine is missing from the map, and a process has two of one       *)
(* product, only if the loss of that product was handled while one         *)
(* collected it: a claim of the product before that leaves the old one     *)
(* alone, and no other way leads past the map.                             *)
(***************************************************************************)
UntrackedWereDetached ==
    \A w \in Workers, g \in Goroutines :
        at[w][g] # "off" /\ tracked[w][work[w][g]] # g => work[w][g] \in detached[w]
=============================================================================
