------------------------- MODULE JetStreamPublisher -------------------------
(***************************************************************************)
(* internal/natspub/publisher.go as cmd/arrow-server/main.go uses it: one  *)
(* goroutine publishes the window aggregates in the order the aggregator   *)
(* made them, the ackLoop waits for one acknowledgement after the other, a *)
(* goroutine of its own retries each failed publication, and main cancels  *)
(* the context and then calls Close.                                       *)
(*                                                                         *)
(* External: the JetStream stream, which discards a message whose id it    *)
(* has seen within DedupWindow, and the futures of PublishAsync.  A future *)
(* fails when the connection is lost, whether the message arrived or not,  *)
(* and a message may arrive after its future has failed.                   *)
(***************************************************************************)
EXTENDS Naturals, Sequences, SequencesExt

CONSTANTS
    Key,         \* Key[a]: dedup key (product and window start) of the a-th aggregate published
    AckCap,      \* capacity of pubAckCh (10000)
    MaxRetries   \* 3

ASSUME PublisherAssumption ==
    /\ Key \in Seq({Key[a] : a \in DOMAIN Key})
    /\ AckCap \in Nat \ {0} /\ MaxRetries \in Nat \ {0}

VARIABLES
    main,       \* "running", "cancelled", "closing" in Close, "closed"
    next,       \* the aggregate the output goroutine publishes or is going to
    call,       \* where publishJSON is: "idle", "publishing", "queueing"
    pubAckCh,   \* the channel of futures, by their aggregates
    ackLoop,    \* "select", "waiting" for the future of awaited, "draining", "ended"
    awaited,    \* the aggregate whose future the ackLoop waits for, 0 if none
    retrying,   \* retrying[a]: number of the attempt a retry goroutine is at, 0 if there is none
    pending,    \* the counters pending and published
    published,
    wire,       \* messages on their way to the stream
    future,     \* future[a]: "none", "open", "ok", "err"
    stream,     \* the messages the stream has stored
    seen,       \* the ids it remembers
    accepted,   \* history: publishJSON has returned nil
    acked,      \* history: a publication was acknowledged
    gaveUp      \* history: a retry goroutine has returned without success

callVars == <<next, call>>
ackVars == <<ackLoop, awaited>>
serverVars == <<wire, future, stream, seen>>
histVars == <<accepted, acked, gaveUp>>
vars == <<main, callVars, pubAckCh, ackVars, retrying, pending, published, serverVars, histVars>>

Aggs == DOMAIN Key
Keys == {Key[a] : a \in Aggs}

TypeOK ==
    /\ main \in {"running", "cancelled", "closing", "closed"}
    /\ next \in 1 .. Len(Key) + 1 /\ call \in {"idle", "publishing", "queueing"}
    /\ pubAckCh \in Seq(Aggs)
    /\ ackLoop \in {"select", "waiting", "draining", "ended"} /\ awaited \in Aggs \cup {0}
    /\ retrying \in [Aggs -> 0 .. MaxRetries]
    /\ pending \in Nat /\ published \in Nat
    /\ wire \in SUBSET Aggs /\ future \in [Aggs -> {"none", "open", "ok", "err"}]
    /\ stream \in Seq(Aggs) /\ seen \in SUBSET Keys
    /\ accepted \in SUBSET Aggs /\ acked \in SUBSET Aggs /\ gaveUp \in SUBSET Aggs

Init ==
    /\ main = "running"
    /\ next = 1 /\ call = "idle"
    /\ pubAckCh = <<>> /\ ackLoop = "select" /\ awaited = 0
    /\ retrying = [a \in Aggs |-> 0]
    /\ pending = 0 /\ published = 0
    /\ wire = {} /\ future = [a \in Aggs |-> "none"]
    /\ stream = <<>> /\ seen = {}
    /\ accepted = {} /\ acked = {} /\ gaveUp = {}

Up == main # "closed"
Cancelled == main # "running"
-----------------------------------------------------------------------------
(* The stream stores a message unless it remembers the id. *)
Store(a) ==
    /\ stream' = IF Key[a] \in seen THEN stream ELSE Append(stream, a)
    /\ seen' = seen \cup {Key[a]}

Arrives(a) ==
    /\ a \in wire
    /\ wire' = wire \ {a}
    /\ Store(a)
    /\ UNCHANGED <<main, callVars, pubAckCh, ackVars, retrying, pending, published, future, histVars>>

Acknowledges(a) ==
    /\ future[a] = "open" /\ a \notin wire
    /\ future' = [future EXCEPT ![a] = "ok"]
    /\ UNCHANGED <<main, callVars, pubAckCh, ackVars, retrying, pending, published, wire, stream, seen, histVars>>

ConnectionLost(a) ==
    /\ future[a] = "open"
    /\ future' = [future EXCEPT ![a] = "err"]
    /\ wire' \in {wire, wire \ {a}}
    /\ UNCHANGED <<main, callVars, pubAckCh, ackVars, retrying, pending, published, stream, seen, histVars>>

\* The publisher or the network has still to do with a.
InFlight(a) ==
    \/ a \in wire \/ future[a] = "open" \/ a \in ToSet(pubAckCh) \/ a = awaited
    \/ retrying[a] # 0 \/ (a = next /\ call # "idle")

(* DedupWindow has passed.  It is taken to be longer than any publication with its retries. *)
Forget(k) ==
    /\ k \in seen
    /\ \A a \in Aggs : Key[a] = k => ~InFlight(a)
    /\ seen' = seen \ {k}
    /\ UNCHANGED <<main, callVars, pubAckCh, ackVars, retrying, pending, published, wire, future, stream, histVars>>
-----------------------------------------------------------------------------
(* The output goroutine calls PublishWindowAgg, and so publishJSON, for one aggregate after *)
(* the other and goes on if that fails.  A stopped publisher refuses. *)
PublishBegins ==
    /\ Up /\ call = "idle" /\ next \in Aggs
    /\ main # "closing"
    /\ call' = "publishing"
    /\ pending' = pending + 1
    /\ UNCHANGED <<main, next, pubAckCh, ackVars, retrying, published, serverVars, histVars>>

PublishRefused ==
    /\ call = "idle" /\ next \in Aggs
    /\ main = "closing"
    /\ next' = next + 1
    /\ UNCHANGED <<main, call, pubAckCh, ackVars, retrying, pending, published, serverVars, histVars>>

PublishAsync ==
    /\ Up /\ call = "publishing"
    /\ call' = "queueing"
    /\ wire' = wire \cup {next}
    /\ future' = [future EXCEPT ![next] = "open"]
    /\ UNCHANGED <<main, next, pubAckCh, ackVars, retrying, pending, published, stream, seen, histVars>>

\* Mutant of PublishAsyncFails: the message stays pending.
PublishAsyncFailsMutant ==
    /\ Up /\ call = "publishing"
    /\ call' = "idle" /\ next' = next + 1
    /\ UNCHANGED <<main, pubAckCh, ackVars, retrying, pending, published, serverVars, histVars>>

PublishAsyncFails ==
    /\ Up /\ call = "publishing"
    /\ call' = "idle" /\ next' = next + 1
    /\ pending' = pending - 1
    /\ UNCHANGED <<main, pubAckCh, ackVars, retrying, published, serverVars, histVars>>

(* The future goes to the ackLoop, or the context is cancelled and the call gives it up. *)
PublishQueues ==
    /\ Up /\ call = "queueing"
    /\ Len(pubAckCh) < AckCap
    /\ call' = "idle" /\ next' = next + 1
    /\ pubAckCh' = Append(pubAckCh, next)
    /\ accepted' = accepted \cup {next}
    /\ UNCHANGED <<main, ackVars, retrying, pending, published, serverVars, acked, gaveUp>>

PublishGivesUp ==
    /\ Up /\ call = "queueing"
    /\ Cancelled
    /\ call' = "idle" /\ next' = next + 1
    /\ pending' = pending - 1
    /\ UNCHANGED <<main, pubAckCh, ackVars, retrying, published, serverVars, histVars>>
-----------------------------------------------------------------------------
(* ackLoop: the select takes a future, or ends because the context is cancelled or Close was called. *)
AckTakes ==
    /\ Up /\ ackLoop = "select" /\ pubAckCh # <<>>
    /\ ackLoop' = "waiting" /\ awaited' = Head(pubAckCh)
    /\ pubAckCh' = Tail(pubAckCh)
    /\ UNCHANGED <<main, callVars, retrying, pending, published, serverVars, histVars>>

\* The future of a is resolved.
AckResolved(a, result) ==
    /\ Up /\ ackLoop = "waiting" /\ a = awaited
    /\ future[a] = result
    /\ ackLoop' = "select" /\ awaited' = 0
    /\ pending' = pending - 1
    /\ UNCHANGED <<main, callVars, pubAckCh, serverVars, accepted, gaveUp>>

AckOk(a) ==
    /\ AckResolved(a, "ok")
    /\ published' = published + 1
    /\ acked' = acked \cup {a}
    /\ UNCHANGED retrying

\* Mutant of AckErr: the failed publication is only counted.
AckErrMutant(a) ==
    /\ AckResolved(a, "err")
    /\ UNCHANGED <<retrying, published, acked>>

AckErr(a) ==
    /\ AckResolved(a, "err")
    /\ retrying' = [retrying EXCEPT ![a] = 1]
    /\ UNCHANGED <<published, acked>>

AckCancelled ==
    /\ Up /\ ackLoop = "select"
    /\ Cancelled
    /\ ackLoop' = "ended"
    /\ UNCHANGED <<main, callVars, pubAckCh, awaited, retrying, pending, published, serverVars, histVars>>

AckStopped ==
    /\ ackLoop = "select"
    /\ main = "closing"
    /\ ackLoop' = "draining"
    /\ UNCHANGED <<main, callVars, pubAckCh, awaited, retrying, pending, published, serverVars, histVars>>

\* Mutant of DrainEnds: there is no deadline.
DrainEndsMutant ==
    /\ Up /\ ackLoop = "draining"
    /\ pending = 0
    /\ ackLoop' = "ended"
    /\ UNCHANGED <<main, callVars, pubAckCh, awaited, retrying, pending, published, serverVars, histVars>>

(* drainPending polls until nothing is pending, ten seconds at most.  The deadline may pass at any time. *)
DrainEnds ==
    /\ Up /\ ackLoop = "draining"
    /\ ackLoop' = "ended"
    /\ UNCHANGED <<main, callVars, pubAckCh, awaited, retrying, pending, published, serverVars, histVars>>
-----------------------------------------------------------------------------
\* The goroutine retryPublish is at its next step.
Retries(a) ==
    /\ Up /\ retrying[a] # 0
    /\ UNCHANGED <<main, callVars, pubAckCh, ackVars, pending, accepted, future>>

\* Mutant of RetrySucceeds: the message is published without its id.
RetrySucceedsMutant(a) ==
    /\ Retries(a)
    /\ stream' = Append(stream, a)
    /\ retrying' = [retrying EXCEPT ![a] = 0]
    /\ published' = published + 1
    /\ acked' = acked \cup {a}
    /\ UNCHANGED <<wire, seen, gaveUp>>

(* After the backoff the message is published again, under the same id, and acknowledged. *)
RetrySucceeds(a) ==
    /\ Retries(a)
    /\ Store(a)
    /\ retrying' = [retrying EXCEPT ![a] = 0]
    /\ published' = published + 1
    /\ acked' = acked \cup {a}
    /\ UNCHANGED <<wire, gaveUp>>

\* Mutant of RetryFails: the error is not tested.
RetryUntestedMutant(a) ==
    /\ Retries(a)
    /\ retrying' = [retrying EXCEPT ![a] = 0]
    /\ published' = published + 1
    /\ acked' = acked \cup {a}
    /\ UNCHANGED <<wire, stream, seen, gaveUp>>

(* It is not acknowledged in time, though it may arrive.  MaxRetries attempts are made. *)
RetryFails(a) ==
    /\ Retries(a)
    /\ wire' \in {wire, wire \cup {a}}
    /\ IF retrying[a] < MaxRetries
       THEN retrying' = [retrying EXCEPT ![a] = @ + 1] /\ UNCHANGED gaveUp
       ELSE retrying' = [retrying EXCEPT ![a] = 0] /\ gaveUp' = gaveUp \cup {a}
    /\ UNCHANGED <<stream, seen, published, acked>>

\* Mutant of RetryCancelled: the case of ctx.Done does not return, and the publication that was given up goes on.
RetryCancelledMutant(a) ==
    /\ Retries(a)
    /\ Cancelled
    /\ gaveUp' = gaveUp \cup {a}
    /\ UNCHANGED <<retrying, wire, stream, seen, published, acked>>

RetryCancelled(a) ==
    /\ Retries(a)
    /\ Cancelled
    /\ retrying' = [retrying EXCEPT ![a] = 0]
    /\ gaveUp' = gaveUp \cup {a}
    /\ UNCHANGED <<wire, stream, seen, published, acked>>
-----------------------------------------------------------------------------
(* main: the aggregator has flushed, which does not mean that its output was read; cancel, *)
(* 30 seconds, Close, which sets stopped, closes stopCh, waits for the ackLoop and ends the connection. *)
Cancel ==
    /\ main = "running"
    /\ main' = "cancelled"
    /\ UNCHANGED <<callVars, pubAckCh, ackVars, retrying, pending, published, serverVars, histVars>>

Close ==
    /\ main = "cancelled"
    /\ main' = "closing"
    /\ UNCHANGED <<callVars, pubAckCh, ackVars, retrying, pending, published, serverVars, histVars>>

CloseReturns ==
    /\ main = "closing" /\ ackLoop = "ended"
    /\ main' = "closed"
    /\ UNCHANGED <<callVars, pubAckCh, ackVars, retrying, pending, published, serverVars, histVars>>

Publish ==
    PublishBegins \/ PublishRefused \/ PublishAsync \/ PublishAsyncFails \/ PublishQueues \/ PublishGivesUp

Ack == AckTakes \/ AckCancelled \/ AckStopped \/ DrainEnds \/ \E a \in Aggs : AckOk(a) \/ AckErr(a)

Next ==
    \/ Publish \/ Ack \/ Cancel \/ Close \/ CloseReturns
    \/ \E a \in Aggs :
        \/ RetrySucceeds(a) \/ RetryFails(a) \/ RetryCancelled(a)
        \/ Arrives(a) \/ Acknowledges(a) \/ ConnectionLost(a)
    \/ \E k \in Keys : Forget(k)

Spec == Init /\ [][Next]_vars

(***************************************************************************)
(* The goroutines are scheduled, and every future is resolved in the end:  *)
(* the client fails the open ones when it reconnects.  Nothing makes main  *)
(* shut down, nor a publication succeed.                                   *)
(***************************************************************************)
Fairness ==
    /\ WF_vars(Ack) /\ WF_vars(CloseReturns)
    /\ \A a \in Aggs :
        /\ WF_vars(Acknowledges(a) \/ ConnectionLost(a))
        /\ WF_vars(RetrySucceeds(a) \/ RetryFails(a) \/ RetryCancelled(a))

FairSpec == Spec /\ Fairness
-----------------------------------------------------------------------------
(* The counter pending is the number of publications under way: the one in publishJSON, *)
(* those whose future waits in the channel, and the one the ackLoop waits for. *)
PendingCounts ==
    pending = (IF call = "idle" THEN 0 ELSE 1) + Len(pubAckCh) + (IF awaited = 0 THEN 0 ELSE 1)

(* The stream stores no aggregate twice, although a publication is repeated when its *)
(* acknowledgement was lost and a message may arrive after its publication had failed. *)
StoredOnce == \A i, j \in DOMAIN stream : stream[i] = stream[j] => i = j

(* What is counted as published is in the stream, or another aggregate with its key is. *)
AckedKeyStored == \A a \in acked : \E b \in ToSet(stream) : Key[b] = Key[a]

(* The publisher keeps what PublicationLog promises: one outcome of a publication, which is final, *)
(* whoever settles it, ackLoop or retryPublish, and counted once; a log without repetitions. *)
Publications == INSTANCE PublicationLog WITH
    log <- stream, count <- published, confirmed <- acked, abandoned <- gaveUp
LogKept == Publications!Spec

(* An aggregate for which publishJSON returned nil is acknowledged in the end or given up after *)
(* all retries, while the publisher runs: no acknowledgement is forgotten in the channel. *)
AcceptedSettles == \A a \in Aggs : a \in accepted ~> (a \in acked \cup gaveUp \/ Cancelled)

(* Close returns, with messages pending too: drainPending runs in the goroutine that would *)
(* make pending 0, so nothing but its deadline ends it. *)
CloseEnds == main = "closing" ~> main = "closed"
=============================================================================
