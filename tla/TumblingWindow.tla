--------------------------- MODULE TumblingWindow ---------------------------
(***************************************************************************)
(* internal/aggregator/aggregator.go: reviews are put into windows by      *)
(* event time; a window is flushed when it has closed, stays in memory for *)
(* the watermark, and is recomputed for every late review.                 *)
(*                                                                         *)
(* Run is one goroutine, the only one that touches the store: its locks    *)
(* are never contended and are left out.  What does interleave is the      *)
(* clock, the sender of the input, Stop and the reader of the output, so   *)
(* a handler is cut where it sends to the output (outbox) and between two  *)
(* windows it flushes (flushing); no other handler starts until both are   *)
(* empty.  The counts and sums of an accumulator are the set of reviews    *)
(* they were made from.                                                    *)
(***************************************************************************)
EXTENDS Naturals, Sequences

CONSTANTS
    Reviews,    \* the reviews that may arrive, each once
    Date,       \* Date[r]: event time
    Product,    \* Product[r]
    Window,     \* window length, in ticks of the clock
    Watermark,  \* how long a window is kept
    InCap,      \* capacity of the input channel (5000)
    OutCap,     \* capacity of the output channel (5000)
    MaxTime     \* bound: the clock stops here, the ticker goes on

ASSUME WindowAssumption ==
    /\ Date \in [Reviews -> Nat]
    /\ Window \in Nat \ {0} /\ Watermark \in Nat /\ MaxTime \in Nat
    /\ InCap \in Nat \ {0} /\ OutCap \in Nat \ {0}

VARIABLES
    now,        \* time.Now()
    phase,      \* the reap ticker fires when now % Window = phase
    tick,       \* a tick waits in the ticker's channel, which holds one
    arrived,    \* reviews sent to the input so far
    input,      \* the input channel
    stopping,   \* stopCh is closed
    status,     \* of Run: "running", "closing" in flushAllAndClose, "closed"
    windows,    \* the keys of the store
    bucket,     \* bucket[s]: the reviews in the entry of window s
    flushed,    \* the windows whose entry has flushed = true
    flushing,   \* windows the running handler has still to flush
    outbox,     \* aggregates the running handler has still to send
    output,     \* the output channel
    accepted,   \* history: reviews put into a window
    offered     \* history: aggregates computed for sending

storeVars == <<windows, bucket, flushed>>
clockVars == <<now, phase, tick>>
sendVars == <<arrived, stopping>>
vars == <<clockVars, sendVars, input, status, storeVars, flushing, outbox, output, accepted, offered>>

\* review.Date.Truncate(window)
StartOf(r) == (Date[r] \div Window) * Window
Starts == {StartOf(r) : r \in Reviews}

OfProduct(B, p) == {r \in B : Product[r] = p}

\* emitWindows: one WindowAgg for each product of the window.
Aggregates(s, B, update) ==
    {[product |-> p, start |-> s, reviews |-> OfProduct(B, p), isUpdate |-> update] :
        p \in {Product[r] : r \in B}}

Agg == [product : {Product[r] : r \in Reviews}, start : Starts,
        reviews : SUBSET Reviews, isUpdate : BOOLEAN]

TypeOK ==
    /\ now \in Nat /\ phase \in Nat /\ tick \in BOOLEAN
    /\ arrived \in SUBSET Reviews /\ input \in Seq(Reviews) /\ stopping \in BOOLEAN
    /\ status \in {"running", "closing", "closed"}
    /\ windows \in SUBSET Starts /\ flushed \in SUBSET windows
    /\ bucket \in [Starts -> SUBSET Reviews]
    /\ flushing \in SUBSET windows
    /\ outbox \in SUBSET Agg /\ output \in Seq(Agg)
    /\ accepted \in SUBSET Reviews /\ offered \in SUBSET Agg

Init ==
    /\ now \in 0 .. Window - 1 /\ phase = now /\ tick = FALSE
    /\ arrived = {} /\ input = <<>> /\ stopping = FALSE
    /\ status = "running"
    /\ windows = {} /\ flushed = {} /\ bucket = [s \in Starts |-> {}]
    /\ flushing = {} /\ outbox = {} /\ output = <<>>
    /\ accepted = {} /\ offered = {}
-----------------------------------------------------------------------------
(* Time passes.  At the bound the ticks go on: every window of the instance has closed by then. *)
Clock ==
    /\ status # "closed"
    /\ now' = IF now < MaxTime THEN now + 1 ELSE now
    /\ tick' = (tick \/ now = MaxTime \/ now' % Window = phase)
    /\ UNCHANGED <<phase, sendVars, input, status, storeVars, flushing, outbox, output, accepted, offered>>

(* The forwarder sends a review, waiting while the input is full; after its last one it calls Stop. *)
Send(r) ==
    /\ ~stopping /\ r \notin arrived
    /\ Len(input) < InCap
    /\ arrived' = arrived \cup {r}
    /\ input' = Append(input, r)
    /\ UNCHANGED <<clockVars, stopping, status, storeVars, flushing, outbox, output, accepted, offered>>

Stop ==
    /\ ~stopping
    /\ stopping' = TRUE
    /\ UNCHANGED <<clockVars, arrived, input, status, storeVars, flushing, outbox, output, accepted, offered>>

(* The reader of Output(). *)
Receive ==
    /\ output # <<>>
    /\ output' = Tail(output)
    /\ UNCHANGED <<clockVars, sendVars, input, status, storeVars, flushing, outbox, accepted, offered>>
-----------------------------------------------------------------------------
\* Run is at its select.
AtSelect == status = "running" /\ flushing = {} /\ outbox = {}

\* Run receives the review r.
Receives(r) ==
    /\ AtSelect
    /\ input # <<>> /\ r = Head(input)
    /\ input' = Tail(input)
    /\ UNCHANGED <<clockVars, sendVars, status, flushing, output>>

TooOld(s) == now > s + Watermark + Window

DropOld(r) ==
    /\ Receives(r)
    /\ TooOld(StartOf(r))
    /\ UNCHANGED <<storeVars, outbox, accepted, offered>>

\* The entry of r's window, created if there is none, takes the review.
Accumulate(r) ==
    /\ ~TooOld(StartOf(r))
    /\ windows' = windows \cup {StartOf(r)}
    /\ bucket' = [bucket EXCEPT ![StartOf(r)] = @ \cup {r}]
    /\ accepted' = accepted \cup {r}
    /\ UNCHANGED flushed

AddReview(r) ==
    /\ Receives(r)
    /\ StartOf(r) \notin flushed
    /\ Accumulate(r)
    /\ UNCHANGED <<outbox, offered>>

\* Mutant of AddLate: the buckets are copied before the review is added.
AddLateMutant(r) ==
    /\ Receives(r)
    /\ StartOf(r) \in flushed
    /\ Accumulate(r)
    /\ outbox' = Aggregates(StartOf(r), bucket[StartOf(r)], TRUE)
    /\ offered' = offered \cup outbox'

(* A late review: all aggregates of its window are computed again and sent as updates. *)
AddLate(r) ==
    /\ Receives(r)
    /\ StartOf(r) \in flushed
    /\ Accumulate(r)
    /\ outbox' = Aggregates(StartOf(r), bucket'[StartOf(r)], TRUE)
    /\ offered' = offered \cup outbox'

Closed(s) == s + Window < now
Old(s) == s + Watermark < now

\* Removing windows from the store.
Evict(old) ==
    /\ windows' = windows \ old
    /\ flushed' = flushed \ old
    /\ bucket' = [s \in Starts |-> IF s \in old THEN {} ELSE bucket[s]]

\* Mutant of Reap: old windows go before closed ones are flushed.
ReapMutant ==
    LET old == {s \in windows : Old(s)}
    IN  /\ AtSelect /\ tick
        /\ tick' = FALSE
        /\ flushing' = {s \in windows \ (flushed \cup old) : Closed(s)}
        /\ Evict(old)
        /\ UNCHANGED <<now, phase, sendVars, input, status, outbox, output, accepted, offered>>

(* reapWindows: closed windows that were not flushed are going to be, of the others the old go. *)
Reap ==
    LET due == {s \in windows \ flushed : Closed(s)}
        old == {s \in windows \ due : Old(s)}
    IN  /\ AtSelect /\ tick
        /\ tick' = FALSE
        /\ flushing' = due
        /\ Evict(old)
        /\ UNCHANGED <<now, phase, sendVars, input, status, outbox, output, accepted, offered>>

(* One window is flushed: its aggregates are computed. *)
Flush(s) ==
    /\ s \in flushing /\ outbox = {}
    /\ flushing' = flushing \ {s}
    /\ flushed' = flushed \cup {s}
    /\ outbox' = Aggregates(s, bucket[s], FALSE)
    /\ offered' = offered \cup outbox'
    /\ UNCHANGED <<clockVars, sendVars, input, status, windows, bucket, output, accepted>>

(* One aggregate is sent; it is dropped if the output is full. *)
Emit(a) ==
    /\ a \in outbox
    /\ outbox' = outbox \ {a}
    /\ output' = IF Len(output) < OutCap THEN Append(output, a) ELSE output
    /\ UNCHANGED <<clockVars, sendVars, input, status, storeVars, flushing, accepted, offered>>

\* Mutant of FlushAll: only closed windows are flushed on the way out.
FlushAllMutant ==
    /\ AtSelect /\ stopping
    /\ status' = "closing"
    /\ flushing' = {s \in windows \ flushed : Closed(s)}
    /\ UNCHANGED <<clockVars, sendVars, input, storeVars, outbox, output, accepted, offered>>

(* Run sees that stopCh is closed: flushAllAndClose flushes what is not flushed, ... *)
FlushAll ==
    /\ AtSelect /\ stopping
    /\ status' = "closing"
    /\ flushing' = windows \ flushed
    /\ UNCHANGED <<clockVars, sendVars, input, storeVars, outbox, output, accepted, offered>>

(* ... and closes the output and the channel Flushed(). *)
Finish ==
    /\ status = "closing" /\ flushing = {} /\ outbox = {}
    /\ status' = "closed"
    /\ UNCHANGED <<clockVars, sendVars, input, storeVars, flushing, outbox, output, accepted, offered>>

Next ==
    \/ Clock \/ Stop \/ Receive \/ Reap \/ FlushAll \/ Finish
    \/ \E r \in Reviews : Send(r) \/ DropOld(r) \/ AddReview(r) \/ AddLate(r)
    \/ \E s \in Starts : Flush(s)
    \/ \E a \in outbox : Emit(a)

Spec == Init /\ [][Next]_vars

(***************************************************************************)
(* Time passes and Run is scheduled.  A select chooses at random among its *)
(* ready cases, so a waiting tick is received in the end although reviews  *)
(* keep coming: strong fairness, because receiving a review disables it.   *)
(***************************************************************************)
Fairness ==
    /\ WF_vars(Clock) /\ SF_vars(Reap) /\ WF_vars(Finish) /\ WF_vars(FlushAll)
    /\ WF_vars(\E s \in Starts : Flush(s))
    /\ WF_vars(\E a \in outbox : Emit(a))

FairSpec == Spec /\ Fairness
-----------------------------------------------------------------------------
Reported == UNION {a.reviews : a \in offered}

(* An accepted review is in the entry of a window that is still to be flushed, or in an *)
(* aggregate: eviction never takes a window that was not flushed (reapWindows). *)
NothingForgotten ==
    \A r \in accepted :
        r \in Reported \/ (StartOf(r) \in windows \ flushed /\ r \in bucket[StartOf(r)])

(* While a window is kept after its flush, what it holds is what was last computed from it: *)
(* no late review is added without an update that contains it and all the others. *)
FlushedIsCurrent ==
    \A s \in flushed, r \in Reviews : r \in bucket[s] =>
        \E a \in offered : a.start = s /\ a.product = Product[r]
                           /\ a.reviews = OfProduct(bucket[s], Product[r])

Buffered == UNION {bucket[s] : s \in windows \ flushed}

(* The aggregator keeps the ledger: nothing accepted is forgotten, everything is reported. *)
Ledger == INSTANCE ReviewLedger WITH pending <- Buffered, reported <- Reported
LedgerKept == Ledger!Spec
=============================================================================
