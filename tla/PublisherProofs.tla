-------------------------- MODULE PublisherProofs --------------------------
(***************************************************************************)
(* Proofs about JetStreamPublisher, for every sequence of aggregates and   *)
(* every bound: the types, the counter pending, that the stream stores no  *)
(* aggregate twice, that it stores what is counted as published, and that  *)
(* the publisher implements PublicationLog.                                *)
(***************************************************************************)
EXTENDS JetStreamPublisher, SequenceTheorems, TLAPS

(* The ackLoop waits for a future only while it has taken one. *)
WaitsForTaken == ackLoop = "waiting" <=> awaited # 0

(* A call under way has an aggregate. *)
CallHasAgg == call # "idle" => next \in Aggs

(* What has not been handed to PublishAsync has left no trace. *)
Fresh(a) == a > next \/ (a = next /\ call # "queueing")

FreshUntouched ==
    \A a \in Aggs : Fresh(a) =>
        /\ a \notin ToSet(stream) /\ a \notin wire /\ future[a] = "none"
        /\ a \notin ToSet(pubAckCh) /\ a # awaited /\ retrying[a] = 0

(* The stream remembers the id of every stored aggregate that may come again. *)
Remembered == \A a \in Aggs : InFlight(a) /\ a \in ToSet(stream) => Key[a] \in seen

Inv == TypeOK /\ WaitsForTaken /\ CallHasAgg /\ PendingCounts /\ FreshUntouched /\ Remembered /\ StoredOnce

-----------------------------------------------------------------------------
(* The aggregates are numbered from 1. *)
LEMMA AggsAreNumbers == Aggs = 1 .. Len(Key) /\ Len(Key) \in Nat
<1>1. Key \in Seq({Key[a] : a \in DOMAIN Key})
  BY PublisherAssumption
<1> QED
  BY <1>1, LenProperties DEF Aggs

(* The elements of a sequence that grew by one, and of the rest of a sequence. *)
LEMMA ToSetAppend ==
  ASSUME NEW S, NEW s \in Seq(S), NEW e \in S
  PROVE  ToSet(Append(s, e)) = ToSet(s) \cup {e}
BY AppendProperties DEF ToSet

LEMMA ToSetTail ==
  ASSUME NEW S, NEW s \in Seq(S), s # <<>>
  PROVE  ToSet(Tail(s)) \subseteq ToSet(s) /\ Head(s) \in ToSet(s)
BY HeadTailProperties DEF ToSet

(* Taking the head loses no other element. *)
LEMMA ToSetHead ==
  ASSUME NEW S, NEW s \in Seq(S), s # <<>>
  PROVE  ToSet(s) \subseteq ToSet(Tail(s)) \cup {Head(s)}
<1>1. /\ Len(s) \in Nat /\ DOMAIN s = 1 .. Len(s) /\ Head(s) = s[1]
      /\ DOMAIN Tail(s) = 1 .. Len(s) - 1 /\ \A i \in DOMAIN Tail(s) : Tail(s)[i] = s[i + 1]
  BY HeadTailProperties, LenProperties
<1>2. \A i \in DOMAIN s : i = 1 \/ i - 1 \in DOMAIN Tail(s)
  BY <1>1
<1>3. \A i \in DOMAIN s : i = 1 \/ s[i] = Tail(s)[i - 1]
  BY <1>1, <1>2
<1> QED
  BY <1>1, <1>2, <1>3 DEF ToSet

(* Init establishes the invariant. *)
LEMMA InitInv == Init => Inv
<1> USE AggsAreNumbers
<1> SUFFICES ASSUME Init PROVE Inv
  OBVIOUS
<1>1. TypeOK
  BY PublisherAssumption DEF Init, TypeOK, Keys
<1>2. ToSet(stream) = {} /\ ToSet(pubAckCh) = {}
  BY DEF Init, ToSet
<1>3. WaitsForTaken /\ CallHasAgg /\ PendingCounts /\ StoredOnce
  BY DEF Init, WaitsForTaken, CallHasAgg, PendingCounts, StoredOnce
<1>4. FreshUntouched /\ Remembered
  BY <1>2 DEF Init, FreshUntouched, Remembered
<1> QED
  BY <1>1, <1>3, <1>4 DEF Inv

-----------------------------------------------------------------------------
(* A message that arrives is stored only if the stream does not remember its id, *)
(* and then it is not in the stream. *)
LEMMA StoreKeeps ==
  ASSUME TypeOK, StoredOnce, Remembered,
         NEW a \in Aggs, InFlight(a), Store(a)
  PROVE  /\ stream' \in Seq(Aggs) /\ seen' \in SUBSET Keys
         /\ ToSet(stream') \in {ToSet(stream), ToSet(stream) \cup {a}}
         /\ seen \cup {Key[a]} = seen'
         /\ StoredOnce'
<1>1. CASE Key[a] \in seen
  BY <1>1 DEF Store, TypeOK, StoredOnce
<1>2. CASE Key[a] \notin seen
  <2>1. stream \in Seq(Aggs) /\ stream' = Append(stream, a)
    BY <1>2 DEF Store, TypeOK
  <2>2. stream' \in Seq(Aggs) /\ ToSet(stream') = ToSet(stream) \cup {a}
    BY <2>1, ToSetAppend
  <2>3. a \notin ToSet(stream)
    BY <1>2 DEF Remembered
  <2>4. \A i \in DOMAIN stream : stream[i] # a
    BY <2>3 DEF ToSet
  <2>5. StoredOnce'
    BY <2>1, <2>4 DEF StoredOnce
  <2> QED
    BY <2>2, <2>5 DEF Store, TypeOK, Keys
<1> QED
  BY <1>1, <1>2

(* A retry goroutine starts, goes on to its next attempt, or ends. *)
LEMMA AttemptsTyped ==
  ASSUME retrying \in [Aggs -> 0 .. MaxRetries], NEW a \in Aggs, NEW n \in 0 .. MaxRetries,
         retrying' = [retrying EXCEPT ![a] = n]
  PROVE  /\ retrying' \in [Aggs -> 0 .. MaxRetries]
         /\ \A b \in Aggs : b # a => retrying'[b] = retrying[b]
OBVIOUS

(* Every step preserves the invariant. *)
LEMMA NextInv == Inv /\ [Next]_vars => Inv'
<1> USE AggsAreNumbers
<1> SUFFICES ASSUME Inv, [Next]_vars PROVE Inv'
  OBVIOUS
<1>typ. TypeOK /\ WaitsForTaken /\ CallHasAgg /\ PendingCounts /\ FreshUntouched /\ Remembered /\ StoredOnce
  BY DEF Inv
<1>len. Len(pubAckCh) \in Nat /\ pending \in Nat
  <2>1. pubAckCh \in Seq(Aggs) /\ pending \in Nat
    BY <1>typ DEF TypeOK
  <2> QED
    BY <2>1, LenProperties
<1>1. CASE UNCHANGED vars
  BY <1>1, <1>typ DEF vars, callVars, ackVars, serverVars, histVars, Inv, TypeOK, WaitsForTaken, CallHasAgg,
       PendingCounts, FreshUntouched, Fresh, Remembered, InFlight, StoredOnce
<1>2. ASSUME NEW a \in Aggs, Arrives(a) PROVE Inv'
  <2>0. InFlight(a) /\ Store(a)
    BY <1>2 DEF Arrives, InFlight
  <2>1. /\ stream' \in Seq(Aggs) /\ seen' \in SUBSET Keys
        /\ ToSet(stream') \in {ToSet(stream), ToSet(stream) \cup {a}}
        /\ seen \cup {Key[a]} = seen'
        /\ StoredOnce'
    BY <1>typ, <2>0, StoreKeeps
  <2>2. TypeOK'
    BY <1>2, <1>typ, <2>1 DEF Arrives, TypeOK, callVars, ackVars, histVars
  <2>3. WaitsForTaken' /\ CallHasAgg' /\ PendingCounts'
    BY <1>2, <1>typ DEF Arrives, WaitsForTaken, CallHasAgg, PendingCounts, callVars, ackVars
  <2>4. FreshUntouched'
    BY <1>2, <1>typ, <2>1 DEF Arrives, FreshUntouched, Fresh, callVars, ackVars
  <2>5. Remembered'
    BY <1>2, <1>typ, <2>1 DEF Arrives, Remembered, InFlight, callVars, ackVars
  <2> QED
    BY <2>1, <2>2, <2>3, <2>4, <2>5 DEF Inv
<1>3. ASSUME NEW a \in Aggs, RetrySucceeds(a) PROVE Inv'
  <2>0. InFlight(a) /\ Store(a)
    BY <1>3 DEF RetrySucceeds, Retries, InFlight
  <2>1. /\ stream' \in Seq(Aggs) /\ seen' \in SUBSET Keys
        /\ ToSet(stream') \in {ToSet(stream), ToSet(stream) \cup {a}}
        /\ seen \cup {Key[a]} = seen'
        /\ StoredOnce'
    BY <1>typ, <2>0, StoreKeeps
  <2>2. TypeOK'
    <3>1. retrying' \in [Aggs -> 0 .. MaxRetries]
      BY <1>3, <1>typ, AttemptsTyped, PublisherAssumption DEF RetrySucceeds, TypeOK
    <3> QED
      BY <1>3, <1>typ, <2>1, <3>1 DEF RetrySucceeds, Retries, TypeOK, callVars, ackVars
  <2>3. WaitsForTaken' /\ CallHasAgg' /\ PendingCounts'
    BY <1>3, <1>typ DEF RetrySucceeds, Retries, WaitsForTaken, CallHasAgg, PendingCounts, callVars, ackVars
  <2>4. FreshUntouched'
    <3>1. ~Fresh(a)
      BY <1>3, <1>typ DEF RetrySucceeds, Retries, FreshUntouched
    <3> QED
      BY <1>3, <1>typ, <2>1, <3>1 DEF RetrySucceeds, Retries, TypeOK, FreshUntouched, Fresh, callVars, ackVars
  <2>5. Remembered'
    BY <1>3, <1>typ, <2>1 DEF RetrySucceeds, Retries, TypeOK, Remembered, InFlight, callVars, ackVars
  <2> QED
    BY <2>1, <2>2, <2>3, <2>4, <2>5 DEF Inv
<1>4. ASSUME NEW a \in Aggs, Acknowledges(a) \/ ConnectionLost(a) PROVE Inv'
  <2>0. /\ future[a] = "open" /\ wire' \subseteq wire
        /\ future' = [future EXCEPT ![a] = future'[a]] /\ future'[a] \in {"ok", "err"}
        /\ UNCHANGED <<main, next, call, pubAckCh, ackLoop, awaited, retrying, pending, published,
                       stream, seen, accepted, acked, gaveUp>>
    BY <1>4, <1>typ DEF Acknowledges, ConnectionLost, TypeOK, callVars, ackVars, histVars
  <2>2. TypeOK'
    BY <2>0, <1>typ DEF TypeOK
  <2>3. WaitsForTaken' /\ CallHasAgg' /\ PendingCounts' /\ StoredOnce'
    BY <2>0, <1>typ DEF WaitsForTaken, CallHasAgg, PendingCounts, StoredOnce
  <2>4. FreshUntouched'
    BY <2>0, <1>typ DEF FreshUntouched, Fresh, TypeOK
  <2>5. Remembered'
    BY <2>0, <1>typ DEF Remembered, InFlight, TypeOK
  <2> QED
    BY <2>2, <2>3, <2>4, <2>5 DEF Inv
<1>5. ASSUME NEW a \in Aggs, RetryFails(a) \/ RetryCancelled(a) PROVE Inv'
  <2>0. /\ retrying[a] # 0 /\ wire' \in {wire, wire \cup {a}}
        /\ retrying' \in [Aggs -> 0 .. MaxRetries] /\ gaveUp' \in SUBSET Aggs
        /\ \A b \in Aggs : b # a => retrying'[b] = retrying[b]
        /\ UNCHANGED <<main, next, call, pubAckCh, ackLoop, awaited, pending, published,
                       future, stream, seen, accepted, acked>>
    <3>1. retrying \in [Aggs -> 0 .. MaxRetries] /\ retrying[a] \in 0 .. MaxRetries
      BY <1>typ DEF TypeOK
    <3>2. \E n \in 0 .. MaxRetries : retrying' = [retrying EXCEPT ![a] = n]
      BY <1>5, <3>1, PublisherAssumption DEF RetryFails, RetryCancelled
    <3>3. /\ retrying' \in [Aggs -> 0 .. MaxRetries]
          /\ \A b \in Aggs : b # a => retrying'[b] = retrying[b]
      BY <3>1, <3>2, AttemptsTyped
    <3>4. gaveUp' \in SUBSET Aggs
      BY <1>5, <1>typ DEF RetryFails, RetryCancelled, TypeOK
    <3> QED
      BY <1>5, <3>3, <3>4 DEF RetryFails, RetryCancelled, Retries, callVars, ackVars
  <2>1. ~Fresh(a)
    BY <2>0, <1>typ DEF FreshUntouched
  <2>2. TypeOK'
    BY <2>0, <1>typ DEF TypeOK
  <2>3. WaitsForTaken' /\ CallHasAgg' /\ PendingCounts' /\ StoredOnce'
    BY <2>0, <1>typ DEF WaitsForTaken, CallHasAgg, PendingCounts, StoredOnce
  <2>4. FreshUntouched'
    BY <2>0, <2>1, <1>typ DEF FreshUntouched, Fresh
  <2>5. Remembered'
    BY <2>0, <1>typ DEF Remembered, InFlight
  <2> QED
    BY <2>2, <2>3, <2>4, <2>5 DEF Inv
<1>6. ASSUME NEW k \in Keys, Forget(k) PROVE Inv'
  <2>2. TypeOK' /\ WaitsForTaken' /\ CallHasAgg' /\ PendingCounts' /\ StoredOnce' /\ FreshUntouched'
    BY <1>6, <1>typ DEF Forget, TypeOK, WaitsForTaken, CallHasAgg, PendingCounts, StoredOnce, FreshUntouched,
         Fresh, callVars, ackVars, histVars
  <2>3. Remembered'
    BY <1>6, <1>typ DEF Forget, Remembered, InFlight, callVars, ackVars
  <2> QED
    BY <2>2, <2>3 DEF Inv
<1>7. CASE PublishBegins \/ PublishRefused
  <2>0. /\ next \in Aggs /\ call = "idle"
        /\ \/ next' = next /\ call' = "publishing" /\ pending' = pending + 1
           \/ next' = next + 1 /\ call' = call /\ pending' = pending
        /\ UNCHANGED <<main, pubAckCh, ackLoop, awaited, retrying, published, wire,
                       future, stream, seen, accepted, acked, gaveUp>>
    BY <1>7 DEF PublishBegins, PublishRefused, ackVars, serverVars, histVars
  <2>2. TypeOK'
    BY <2>0, <1>typ DEF TypeOK
  <2>3. WaitsForTaken' /\ CallHasAgg' /\ StoredOnce'
    BY <2>0, <1>typ DEF WaitsForTaken, CallHasAgg, StoredOnce
  <2>4. PendingCounts'
    <3>1. pending = 0 + Len(pubAckCh) + (IF awaited = 0 THEN 0 ELSE 1)
      BY <2>0, <1>typ DEF PendingCounts
    <3>2. CASE pending' = pending + 1 /\ call' = "publishing"
      BY <2>0, <3>1, <3>2, <1>len DEF PendingCounts
    <3>3. CASE pending' = pending /\ call' = call
      BY <2>0, <3>3, <1>typ DEF PendingCounts
    <3> QED
      BY <2>0, <3>2, <3>3
  <2>5. FreshUntouched'
    BY <2>0, <1>typ DEF FreshUntouched, Fresh, TypeOK
  <2>6. Remembered'
    BY <2>0, <1>typ DEF Remembered, InFlight, FreshUntouched, Fresh, TypeOK
  <2> QED
    BY <2>2, <2>3, <2>4, <2>5, <2>6 DEF Inv
<1>8. CASE PublishAsync
  <2>0. /\ next \in Aggs /\ call = "publishing" /\ call' = "queueing"
        /\ wire' = wire \cup {next} /\ future' = [future EXCEPT ![next] = "open"]
        /\ UNCHANGED <<main, next, pubAckCh, ackLoop, awaited, retrying, pending, published,
                       stream, seen, accepted, acked, gaveUp>>
    BY <1>8, <1>typ DEF PublishAsync, CallHasAgg, ackVars, histVars
  <2>1. TypeOK'
    BY <2>0, <1>typ DEF TypeOK
  <2>2. WaitsForTaken' /\ CallHasAgg' /\ PendingCounts' /\ StoredOnce'
    BY <2>0, <1>typ DEF WaitsForTaken, CallHasAgg, PendingCounts, StoredOnce
  <2>3. FreshUntouched'
    BY <2>0, <1>typ DEF FreshUntouched, Fresh, TypeOK
  <2>4. Remembered'
    BY <2>0, <1>typ DEF Remembered, InFlight, FreshUntouched, Fresh, TypeOK
  <2> QED
    BY <2>1, <2>2, <2>3, <2>4 DEF Inv
<1>9. CASE PublishAsyncFails \/ PublishQueues \/ PublishGivesUp
  <2>0. /\ next \in Aggs /\ call # "idle" /\ call' = "idle" /\ next' = next + 1
        /\ \/ pubAckCh' = pubAckCh /\ pending' = pending - 1
           \/ pubAckCh' = Append(pubAckCh, next) /\ pending' = pending /\ call = "queueing"
        /\ accepted' \in SUBSET Aggs
        /\ UNCHANGED <<main, ackLoop, awaited, retrying, published, wire, future, stream, seen,
                       acked, gaveUp>>
    BY <1>9, <1>typ DEF PublishAsyncFails, PublishQueues, PublishGivesUp, CallHasAgg, TypeOK,
         ackVars, serverVars, histVars
  <2>1. /\ pubAckCh' \in Seq(Aggs)
        /\ ToSet(pubAckCh') \in {ToSet(pubAckCh), ToSet(pubAckCh) \cup {next}}
    <3>1. pubAckCh \in Seq(Aggs)
      BY <1>typ DEF TypeOK
    <3>2. /\ Append(pubAckCh, next) \in Seq(Aggs)
          /\ ToSet(Append(pubAckCh, next)) = ToSet(pubAckCh) \cup {next}
      BY <2>0, <3>1, ToSetAppend
    <3> QED
      BY <2>0, <3>1, <3>2
  <2>2. pending # 0 /\ PendingCounts'
    <3>1. Len(Append(pubAckCh, next)) = Len(pubAckCh) + 1
      BY <2>0, <1>typ, AppendProperties DEF TypeOK
    <3> QED
      BY <2>0, <3>1, <1>typ, <1>len DEF PendingCounts
  <2>3. TypeOK'
    <3>1. next \in Nat /\ next' \in 1 .. Len(Key) + 1
      BY ONLY <2>0, AggsAreNumbers
    <3>2. pending' \in Nat
      BY <2>0, <2>2, <1>typ DEF TypeOK
    <3> QED
      BY <2>0, <2>1, <3>1, <3>2, <1>typ DEF TypeOK
  <2>4. WaitsForTaken' /\ CallHasAgg' /\ StoredOnce'
    BY <2>0, <1>typ DEF WaitsForTaken, CallHasAgg, StoredOnce
  <2>5. FreshUntouched'
    BY <2>0, <2>1, <1>typ DEF FreshUntouched, Fresh, TypeOK
  <2>6. Remembered'
    BY <2>0, <2>1, <1>typ DEF Remembered, InFlight, FreshUntouched, Fresh, TypeOK
  <2> QED
    BY <2>2, <2>3, <2>4, <2>5, <2>6 DEF Inv
<1>10. CASE AckTakes
  <2>0. /\ ackLoop = "select" /\ ackLoop' = "waiting" /\ pubAckCh # <<>>
        /\ awaited' = Head(pubAckCh) /\ pubAckCh' = Tail(pubAckCh)
        /\ UNCHANGED <<main, next, call, retrying, pending, published, wire, future, stream, seen,
                       accepted, acked, gaveUp>>
    BY <1>10 DEF AckTakes, callVars, serverVars, histVars
  <2>1. /\ pubAckCh' \in Seq(Aggs) /\ awaited' \in Aggs /\ Len(pubAckCh') = Len(pubAckCh) - 1
        /\ ToSet(pubAckCh') \subseteq ToSet(pubAckCh) /\ awaited' \in ToSet(pubAckCh)
    BY <2>0, <1>typ, ToSetTail, HeadTailProperties DEF TypeOK
  <2>2. awaited = 0 /\ awaited' # 0
    BY <2>0, <2>1, <1>typ DEF WaitsForTaken
  <2>3. TypeOK'
    BY <2>0, <2>1, <1>typ DEF TypeOK
  <2>4. PendingCounts'
    <3>1. pending = (IF call = "idle" THEN 0 ELSE 1) + Len(pubAckCh)
      BY <2>2, <1>typ, <1>len DEF PendingCounts
    <3>2. pending' = pending /\ call' = call /\ Len(pubAckCh) = Len(pubAckCh') + 1 /\ Len(pubAckCh') \in Nat
      BY <2>0, <2>1, <1>len, LenProperties
    <3> QED
      BY <2>2, <3>1, <3>2, <1>len DEF PendingCounts
  <2>5. WaitsForTaken' /\ CallHasAgg' /\ StoredOnce'
    BY <2>0, <2>2, <1>typ DEF WaitsForTaken, CallHasAgg, StoredOnce
  <2>6. FreshUntouched'
    BY <2>0, <2>1, <1>typ DEF FreshUntouched, Fresh
  <2>7. Remembered'
    BY <2>0, <2>1, <1>typ DEF Remembered, InFlight
  <2> QED
    BY <2>3, <2>4, <2>5, <2>6, <2>7 DEF Inv
<1>11. ASSUME NEW a \in Aggs, AckOk(a) \/ AckErr(a) PROVE Inv'
  <2>0. /\ a = awaited /\ awaited' = 0 /\ ackLoop' = "select" /\ pending' = pending - 1
        /\ published' \in Nat /\ acked' \in SUBSET Aggs
        /\ retrying' \in [Aggs -> 0 .. MaxRetries]
        /\ \A b \in Aggs : b # a => retrying'[b] = retrying[b]
        /\ UNCHANGED <<main, next, call, pubAckCh, wire, future, stream, seen, accepted, gaveUp>>
    <3>1. retrying \in [Aggs -> 0 .. MaxRetries] /\ retrying[a] \in 0 .. MaxRetries
      BY <1>typ DEF TypeOK
    <3>2. 1 \in 0 .. MaxRetries
      BY PublisherAssumption
    <3>3. /\ retrying' \in [Aggs -> 0 .. MaxRetries]
          /\ \A b \in Aggs : b # a => retrying'[b] = retrying[b]
      BY <1>11, <3>1, <3>2, AttemptsTyped DEF AckOk, AckErr
    <3>4. published \in Nat /\ acked \in SUBSET Aggs
      BY <1>typ DEF TypeOK
    <3>5. published' \in {published, published + 1} /\ acked' \in {acked, acked \cup {a}}
      BY <1>11 DEF AckOk, AckErr
    <3>6. published' \in Nat
      BY <3>4, <3>5
    <3>7. acked' \in SUBSET Aggs
      BY <3>4, <3>5
    <3> QED
      BY <1>11, <3>3, <3>6, <3>7 DEF AckOk, AckErr, AckResolved, callVars, serverVars
  <2>1. awaited # 0 /\ ~Fresh(a)
    BY <2>0, <1>typ DEF FreshUntouched
  <2>2. pending # 0 /\ PendingCounts'
    BY <2>0, <2>1, <1>typ, <1>len DEF PendingCounts
  <2>3. TypeOK'
    BY <2>0, <2>2, <1>typ DEF TypeOK
  <2>4. WaitsForTaken' /\ CallHasAgg' /\ StoredOnce'
    BY <2>0, <1>typ DEF WaitsForTaken, CallHasAgg, StoredOnce
  <2>5. FreshUntouched'
    BY <2>0, <2>1, <1>typ DEF FreshUntouched, Fresh, TypeOK
  <2>6. Remembered'
    BY <2>0, <1>typ DEF Remembered, InFlight
  <2> QED
    BY <2>2, <2>3, <2>4, <2>5, <2>6 DEF Inv
<1>12. CASE AckCancelled \/ AckStopped \/ DrainEnds \/ Cancel \/ Close \/ CloseReturns
  <2>0. /\ main' \in {"running", "cancelled", "closing", "closed"}
        /\ ackLoop' \in {"select", "waiting", "draining", "ended"}
        /\ ackLoop' = "waiting" <=> ackLoop = "waiting"
        /\ UNCHANGED <<next, call, pubAckCh, awaited, retrying, pending, published, wire, future,
                       stream, seen, accepted, acked, gaveUp>>
    BY <1>12, <1>typ DEF AckCancelled, AckStopped, DrainEnds, Cancel, Close, CloseReturns, TypeOK,
         callVars, ackVars, serverVars, histVars
  <2>1. TypeOK'
    BY <2>0, <1>typ DEF TypeOK
  <2>2. WaitsForTaken' /\ CallHasAgg' /\ PendingCounts' /\ StoredOnce'
    BY <2>0, <1>typ DEF WaitsForTaken, CallHasAgg, PendingCounts, StoredOnce
  <2>3. FreshUntouched' /\ Remembered'
    BY <2>0, <1>typ DEF FreshUntouched, Fresh, Remembered, InFlight
  <2> QED
    BY <2>1, <2>2, <2>3 DEF Inv
<1> QED
  BY <1>1, <1>2, <1>3, <1>4, <1>5, <1>6, <1>7, <1>8, <1>9, <1>10, <1>11, <1>12
     DEF Next, Publish, Ack

-----------------------------------------------------------------------------
LEMMA InvAlways == Spec => []Inv
BY InitInv, NextInv, PTL DEF Spec

(* Every variable of the publisher keeps its type: the counter pending never drops below zero, *)
(* and no retry goroutine makes more than MaxRetries attempts (publishJSON, ackLoop, retryPublish). *)
THEOREM TypeCorrect == Spec => []TypeOK
<1>1. Inv => TypeOK
  BY DEF Inv
<1> QED
  BY InvAlways, <1>1, PTL

(* The counter pending, which drainPending polls, is the number of publications under way. *)
THEOREM PendingIsExact == Spec => []PendingCounts
<1>1. Inv => PendingCounts
  BY DEF Inv
<1> QED
  BY InvAlways, <1>1, PTL

(* The stream stores no aggregate twice, whatever is lost, late or repeated (publishJSON, retryPublish). *)
THEOREM NothingStoredTwice == Spec => []StoredOnce
<1>1. Inv => StoredOnce
  BY DEF Inv
<1> QED
  BY InvAlways, <1>1, PTL

(***************************************************************************)
(* drainPending runs in the goroutine that alone empties pubAckCh, so what *)
(* waits there when Close stops it stays, and pending stays above 0: the   *)
(* loop that polls for pending = 0 ends by its deadline only.              *)
(***************************************************************************)
DrainInVain == ackLoop = "draining" /\ pubAckCh # <<>> => pubAckCh' # <<>> /\ pending' > 0

(* Close, with a future in the channel when the ackLoop sees stopCh, always waits for the deadline. *)
THEOREM DrainWaitsForItself == Spec => [][DrainInVain]_vars
<1>1. ASSUME Inv, Inv', Next, ackLoop = "draining", pubAckCh # <<>>
      PROVE  pubAckCh' # <<>> /\ pending' > 0
  <2>1. pubAckCh \in Seq(Aggs) /\ pubAckCh' \in Seq(Aggs) /\ Len(pubAckCh') \in Nat
    BY <1>1, LenProperties DEF Inv, TypeOK
  <2>2. pubAckCh' = pubAckCh \/ (next \in Aggs /\ pubAckCh' = Append(pubAckCh, next))
    BY <1>1 DEF Inv, CallHasAgg, Next, Publish, PublishBegins, PublishRefused, PublishAsync,
         PublishAsyncFails, PublishQueues, PublishGivesUp, Ack, AckTakes, AckOk, AckErr, AckResolved,
         AckCancelled, AckStopped, DrainEnds, Cancel, Close, CloseReturns, RetrySucceeds, RetryFails,
         RetryCancelled, Retries, Arrives, Acknowledges, ConnectionLost, Forget
  <2>3. pubAckCh' # <<>>
    BY <1>1, <2>1, <2>2, AppendProperties
  <2>4. Len(pubAckCh') > 0
    BY <2>1, <2>3, EmptySeq
  <2>5. \E m, n \in {0, 1} : pending' = m + Len(pubAckCh') + n
    <3>1. PendingCounts'
      BY <1>1 DEF Inv
    <3>2. (IF call' = "idle" THEN 0 ELSE 1) \in {0, 1} /\ (IF awaited' = 0 THEN 0 ELSE 1) \in {0, 1}
      OBVIOUS
    <3> QED
      BY <3>1, <3>2 DEF PendingCounts
  <2> QED
    BY <2>1, <2>3, <2>4, <2>5
<1>2. Inv /\ Inv' /\ [Next]_vars => [DrainInVain]_vars
  BY <1>1 DEF DrainInVain
<1> QED
  BY <1>2, InvAlways, PTL DEF Spec

-----------------------------------------------------------------------------
(* An aggregate with the key k is stored. *)
Stored(k) == \E b \in ToSet(stream) : Key[b] = k

(* What vouches for a key: the stream remembers it, a message with it has arrived before its *)
(* future is resolved well, or a publication of it was counted. *)
Backed ==
    /\ \A k \in seen : Stored(k)
    /\ \A a \in Aggs : future[a] = "ok" \/ (future[a] = "open" /\ a \notin wire) => Stored(Key[a])
    /\ AckedKeyStored

BackedInv == Inv /\ Backed

(* What is stored stays stored, and the key of a message that arrives is stored with it. *)
LEMMA StoreStores ==
  ASSUME TypeOK, \A k \in seen : Stored(k), NEW a \in Aggs, Store(a)
  PROVE  /\ \A k : Stored(k) => Stored(k)'
         /\ Stored(Key[a])' /\ \A k \in seen' : Stored(k)'
<1>1. ToSet(stream) \subseteq ToSet(stream')
  <2>1. stream \in Seq(Aggs)
    BY DEF TypeOK
  <2>2. ToSet(Append(stream, a)) = ToSet(stream) \cup {a}
    BY <2>1, ToSetAppend
  <2> QED
    BY <2>2 DEF Store
<1>2. \A k : Stored(k) => Stored(k)'
  BY <1>1 DEF Stored
<1>3. Stored(Key[a])'
  <2>1. CASE Key[a] \in seen
    BY <2>1, <1>2
  <2>2. CASE Key[a] \notin seen
    <3>1. stream' = Append(stream, a) /\ stream \in Seq(Aggs)
      BY <2>2 DEF Store, TypeOK
    <3>2. a \in ToSet(stream')
      BY <3>1, ToSetAppend
    <3> QED
      BY <3>2 DEF Stored
  <2> QED
    BY <2>1, <2>2
<1> QED
  BY <1>2, <1>3 DEF Store

(* Every step keeps what vouches for a key true to the stream. *)
LEMMA NextBacked == BackedInv /\ [Next]_vars => Backed'
<1> SUFFICES ASSUME BackedInv, [Next]_vars PROVE Backed'
  OBVIOUS
<1>typ. TypeOK /\ CallHasAgg /\ FreshUntouched
  BY DEF BackedInv, Inv
<1>fun. future \in [Aggs -> {"none", "open", "ok", "err"}]
  BY <1>typ DEF TypeOK
<1>old. /\ \A k \in seen : Stored(k)
        /\ \A a \in Aggs : future[a] = "ok" \/ (future[a] = "open" /\ a \notin wire) => Stored(Key[a])
        /\ \A a \in acked : Stored(Key[a])
  BY DEF BackedInv, Backed, AckedKeyStored, Stored
<1> SUFFICES /\ \A k \in seen' : Stored(k)'
             /\ \A a \in Aggs : future'[a] = "ok" \/ (future'[a] = "open" /\ a \notin wire')
                                  => Stored(Key[a])'
             /\ \A a \in acked' : Stored(Key[a])'
  BY DEF Backed, AckedKeyStored, Stored
<1>1. CASE stream' = stream /\ UNCHANGED <<seen, wire, future, acked>>
  BY <1>1, <1>old DEF Stored
<1>2. ASSUME NEW a \in Aggs, Arrives(a)
      PROVE  /\ \A k \in seen' : Stored(k)'
             /\ \A b \in Aggs : future'[b] = "ok" \/ (future'[b] = "open" /\ b \notin wire')
                                  => Stored(Key[b])'
             /\ \A b \in acked' : Stored(Key[b])'
  <2>1. /\ \A k : Stored(k) => Stored(k)'
        /\ Stored(Key[a])' /\ \A k \in seen' : Stored(k)'
    BY <1>2, <1>typ, <1>old, StoreStores DEF Arrives
  <2>2. wire' = wire \ {a} /\ future' = future /\ acked' = acked
    BY <1>2 DEF Arrives, histVars
  <2> QED
    BY <2>1, <2>2, <1>old
<1>3. ASSUME NEW a \in Aggs, RetrySucceeds(a)
      PROVE  /\ \A k \in seen' : Stored(k)'
             /\ \A b \in Aggs : future'[b] = "ok" \/ (future'[b] = "open" /\ b \notin wire')
                                  => Stored(Key[b])'
             /\ \A b \in acked' : Stored(Key[b])'
  <2>1. /\ \A k : Stored(k) => Stored(k)'
        /\ Stored(Key[a])' /\ \A k \in seen' : Stored(k)'
    BY <1>3, <1>typ, <1>old, StoreStores DEF RetrySucceeds
  <2>2. wire' = wire /\ future' = future /\ acked' = acked \cup {a}
    BY <1>3 DEF RetrySucceeds, Retries
  <2> QED
    BY <2>1, <2>2, <1>old
<1>4. ASSUME NEW a \in Aggs, Acknowledges(a) \/ ConnectionLost(a)
      PROVE  /\ \A k \in seen' : Stored(k)'
             /\ \A b \in Aggs : future'[b] = "ok" \/ (future'[b] = "open" /\ b \notin wire')
                                  => Stored(Key[b])'
             /\ \A b \in acked' : Stored(Key[b])'
  <2>1. /\ future[a] = "open" /\ future' = [future EXCEPT ![a] = future'[a]]
        /\ \/ future'[a] = "ok" /\ a \notin wire /\ wire' = wire
           \/ future'[a] = "err" /\ wire' \in {wire, wire \ {a}}
        /\ UNCHANGED <<stream, seen, acked>>
    BY <1>4, <1>fun DEF Acknowledges, ConnectionLost, histVars
  <2>2. Stored(Key[a]) \/ future'[a] = "err"
    BY <2>1, <1>old
  <2>3. \A k : Stored(k) => Stored(k)'
    BY <2>1 DEF Stored
  <2>4. \A b \in Aggs : b # a => future'[b] = future[b] /\ (b \in wire' <=> b \in wire)
    BY <2>1, <1>fun
  <2> QED
    BY <2>1, <2>2, <2>3, <2>4, <1>old
<1>5. ASSUME NEW a \in Aggs, RetryFails(a) \/ RetryCancelled(a)
      PROVE  /\ \A k \in seen' : Stored(k)'
             /\ \A b \in Aggs : future'[b] = "ok" \/ (future'[b] = "open" /\ b \notin wire')
                                  => Stored(Key[b])'
             /\ \A b \in acked' : Stored(Key[b])'
  <2>1. wire \subseteq wire' /\ UNCHANGED <<future, stream, seen, acked>>
    BY <1>5 DEF RetryFails, RetryCancelled, Retries
  <2> QED
    BY <2>1, <1>old DEF Stored
<1>6. ASSUME NEW k \in Keys, Forget(k)
      PROVE  /\ \A j \in seen' : Stored(j)'
             /\ \A b \in Aggs : future'[b] = "ok" \/ (future'[b] = "open" /\ b \notin wire')
                                  => Stored(Key[b])'
             /\ \A b \in acked' : Stored(Key[b])'
  <2>1. seen' \subseteq seen /\ UNCHANGED <<wire, future, stream, acked>>
    BY <1>6 DEF Forget, histVars
  <2> QED
    BY <2>1, <1>old DEF Stored
<1>7. CASE PublishAsync
  <2>1. /\ next \in Aggs /\ wire' = wire \cup {next}
        /\ future' = [future EXCEPT ![next] = "open"]
        /\ UNCHANGED <<stream, seen, acked>>
    BY <1>7, <1>typ DEF PublishAsync, CallHasAgg, histVars
  <2>2. \A b \in Aggs : b # next => future'[b] = future[b] /\ (b \in wire' <=> b \in wire)
    BY <2>1, <1>fun
  <2>3. future'[next] = "open" /\ next \in wire'
    BY <2>1, <1>fun
  <2> QED
    BY <2>1, <2>2, <2>3, <1>old DEF Stored
<1>8. ASSUME NEW a \in Aggs, AckOk(a)
      PROVE  /\ \A k \in seen' : Stored(k)'
             /\ \A b \in Aggs : future'[b] = "ok" \/ (future'[b] = "open" /\ b \notin wire')
                                  => Stored(Key[b])'
             /\ \A b \in acked' : Stored(Key[b])'
  <2>1. future[a] = "ok" /\ acked' = acked \cup {a} /\ UNCHANGED <<stream, seen, wire, future>>
    BY <1>8 DEF AckOk, AckResolved, serverVars
  <2> QED
    BY <2>1, <1>old DEF Stored
<1>9. ASSUME NEW a \in Aggs, AckErr(a) PROVE UNCHANGED <<stream, seen, wire, future, acked>>
  BY <1>9 DEF AckErr, AckResolved, serverVars
<1>10. CASE \/ PublishBegins \/ PublishRefused \/ PublishAsyncFails \/ PublishQueues \/ PublishGivesUp
            \/ AckTakes \/ AckCancelled \/ AckStopped \/ DrainEnds \/ Cancel \/ Close \/ CloseReturns
            \/ UNCHANGED vars
  <2>1. UNCHANGED <<stream, seen, wire, future, acked>>
    BY <1>10 DEF PublishBegins, PublishRefused, PublishAsyncFails, PublishQueues, PublishGivesUp, AckTakes,
         AckCancelled, AckStopped, DrainEnds, Cancel, Close, CloseReturns, vars, serverVars, histVars
  <2> QED
    BY <2>1, <1>1
<1> QED
  BY <1>1, <1>2, <1>3, <1>4, <1>5, <1>6, <1>7, <1>8, <1>9, <1>10 DEF Next, Publish, Ack

LEMMA BackedAlways == Spec => []BackedInv
<1>1. Init => BackedInv
  <2>1. Init => Backed
    BY DEF Init, Backed, AckedKeyStored
  <2> QED
    BY <2>1, InitInv DEF BackedInv
<1>2. BackedInv /\ [Next]_vars => BackedInv'
  BY NextInv, NextBacked DEF BackedInv
<1> QED
  BY <1>1, <1>2, PTL DEF Spec

(* What is counted as published is in the stream under its key: an acknowledgement is never counted *)
(* for a message that the stream neither stored nor discarded as a duplicate (ackLoop, retryPublish). *)
THEOREM AckedAreStored == Spec => []AckedKeyStored
<1>1. BackedInv => AckedKeyStored
  BY DEF BackedInv, Backed
<1> QED
  BY <1>1, BackedAlways, PTL

-----------------------------------------------------------------------------
(***************************************************************************)
(* PublicationLog is implemented.  A publication whose outcome is open     *)
(* waits in one place: in the channel, with the ackLoop or in a retry      *)
(* goroutine; whoever settles it takes it out of there, and none that is   *)
(* settled or not yet queued is anywhere.                                  *)
(***************************************************************************)
Waits(a) == a \in ToSet(pubAckCh) \/ a = awaited \/ retrying[a] # 0

Settled == acked \cup gaveUp

OneOutcome ==
    /\ \A a \in Aggs : Waits(a) \/ a \in Settled => a < next
    /\ \A a \in Aggs : ~(Waits(a) /\ a \in Settled)
    /\ \A i, j \in DOMAIN pubAckCh : pubAckCh[i] = pubAckCh[j] => i = j
    /\ awaited \notin ToSet(pubAckCh)
    /\ \A a \in Aggs : retrying[a] # 0 => a \notin ToSet(pubAckCh) /\ a # awaited

LEMMA OutcomeInit == Init => OneOutcome
<1> SUFFICES ASSUME Init PROVE OneOutcome
  OBVIOUS
<1>1. \A a \in Aggs : a # 0 /\ retrying[a] = 0
  BY AggsAreNumbers DEF Init
<1> QED
  BY <1>1 DEF Init, OneOutcome, Waits, Settled, ToSet

(* The outcome of a is known: it waits nowhere any more. *)
LEMMA Settles ==
  ASSUME TypeOK, OneOutcome, NEW a \in Aggs, Waits(a), a \notin ToSet(pubAckCh),
         UNCHANGED <<next, pubAckCh>>, awaited' = IF a = awaited THEN 0 ELSE awaited,
         retrying' \in [Aggs -> 0 .. MaxRetries], retrying'[a] = 0,
         \A b \in Aggs : b # a => retrying'[b] = retrying[b],
         Settled' = Settled \cup {a}
  PROVE  OneOutcome'
<1>1. 0 \notin Aggs /\ ToSet(pubAckCh) \subseteq Aggs
  BY AggsAreNumbers DEF TypeOK, ToSet
<1>2. ASSUME NEW b \in Aggs
      PROVE  /\ Waits(b)' => Waits(b) /\ b # a
             /\ b \in Settled' => b \in Settled \/ b = a
  BY <1>1 DEF Waits
<1>3. awaited' \notin ToSet(pubAckCh)
  BY <1>1 DEF OneOutcome
<1>4. \A b \in Aggs : retrying'[b] # 0 => b \notin ToSet(pubAckCh) /\ b # awaited'
  BY <1>1 DEF OneOutcome
<1> QED
  BY <1>2, <1>3, <1>4 DEF OneOutcome

LEMMA OutcomeNext == Inv /\ OneOutcome /\ [Next]_vars => OneOutcome'
<1> SUFFICES ASSUME Inv, OneOutcome, [Next]_vars PROVE OneOutcome'
  OBVIOUS
<1>typ. /\ TypeOK /\ WaitsForTaken /\ CallHasAgg
        /\ retrying \in [Aggs -> 0 .. MaxRetries] /\ pubAckCh \in Seq(Aggs)
        /\ ToSet(pubAckCh) \subseteq Aggs /\ next \in Nat /\ \A a \in Aggs : a \in Nat /\ a # 0
  BY AggsAreNumbers DEF Inv, TypeOK, ToSet
<1>0. CASE UNCHANGED <<pubAckCh, awaited, retrying, acked, gaveUp>> /\ next' \in {next, next + 1}
  <2>1. \A a \in Aggs : a < next => a < next'
    BY <1>0, <1>typ
  <2> QED
    BY <1>0, <2>1 DEF OneOutcome, Waits, Settled
<1>1. CASE \/ PublishBegins \/ PublishRefused \/ PublishAsync \/ PublishAsyncFails \/ PublishGivesUp
           \/ AckCancelled \/ AckStopped \/ DrainEnds \/ Cancel \/ Close \/ CloseReturns
           \/ UNCHANGED vars
  <2>1. UNCHANGED <<pubAckCh, awaited, retrying, acked, gaveUp>> /\ next' \in {next, next + 1}
    BY <1>1 DEF PublishBegins, PublishRefused, PublishAsync, PublishAsyncFails, PublishGivesUp,
         AckCancelled, AckStopped, DrainEnds, Cancel, Close, CloseReturns, vars, callVars, ackVars,
         histVars
  <2> QED
    BY <2>1, <1>0
<1>2. ASSUME \/ \E a \in Aggs : Arrives(a) \/ Acknowledges(a) \/ ConnectionLost(a)
             \/ \E k \in Keys : Forget(k)
      PROVE  OneOutcome'
  <2>1. UNCHANGED <<next, pubAckCh, awaited, retrying, acked, gaveUp>>
    BY <1>2 DEF Arrives, Acknowledges, ConnectionLost, Forget, callVars, ackVars, histVars
  <2> QED
    BY <2>1, <1>0
<1>3. CASE PublishQueues
  <2>1. /\ next \in Aggs /\ next' = next + 1 /\ pubAckCh' = Append(pubAckCh, next)
        /\ UNCHANGED <<awaited, retrying, acked, gaveUp>>
    BY <1>3, <1>typ DEF PublishQueues, CallHasAgg, ackVars
  <2>2. /\ ToSet(pubAckCh') = ToSet(pubAckCh) \cup {next}
        /\ pubAckCh' \in Seq(Aggs) /\ Len(pubAckCh') = Len(pubAckCh) + 1 /\ Len(pubAckCh) \in Nat
        /\ \A i \in 1 .. Len(pubAckCh) : pubAckCh'[i] = pubAckCh[i]
        /\ pubAckCh'[Len(pubAckCh) + 1] = next
    BY <2>1, <1>typ, ToSetAppend, AppendProperties, LenProperties
  <2>3. ~Waits(next) /\ next \notin Settled
    BY <2>1, <1>typ DEF OneOutcome
  <2>4. \A a \in Aggs : a < next' <=> a < next \/ a = next
    BY <2>1, <1>typ
  <2>5. \A a \in Aggs : Waits(a)' <=> Waits(a) \/ a = next
    BY <2>1, <2>2 DEF Waits
  <2>6. ASSUME NEW i \in DOMAIN pubAckCh', NEW j \in DOMAIN pubAckCh', pubAckCh'[i] = pubAckCh'[j]
        PROVE  i = j
    <3>1. \A l \in DOMAIN pubAckCh : l \in DOMAIN pubAckCh' /\ pubAckCh[l] # next
      BY <2>2, <2>3 DEF Waits, ToSet
    <3>2. \A l \in DOMAIN pubAckCh' : l \in DOMAIN pubAckCh \/ l = Len(pubAckCh) + 1
      BY <2>2, <1>typ
    <3>0. DOMAIN pubAckCh = 1 .. Len(pubAckCh)
      BY <1>typ, LenProperties
    <3>3. \A l \in DOMAIN pubAckCh : pubAckCh'[l] = pubAckCh[l]
      BY ONLY <2>2, <3>0
    <3> QED
      BY <2>2, <2>6, <3>1, <3>2, <3>3 DEF OneOutcome
  <2>7. awaited' \notin ToSet(pubAckCh')
    BY <2>1, <2>2, <2>3 DEF OneOutcome, Waits
  <2>8. \A a \in Aggs : retrying'[a] # 0 => a \notin ToSet(pubAckCh') /\ a # awaited'
    BY <2>1, <2>2, <2>3 DEF OneOutcome, Waits
  <2>9. Settled' = Settled
    BY <2>1 DEF Settled
  <2> QED
    BY <2>3, <2>4, <2>5, <2>6, <2>7, <2>8, <2>9 DEF OneOutcome
<1>4. CASE AckTakes
  <2>1. /\ pubAckCh # <<>> /\ awaited' = Head(pubAckCh) /\ pubAckCh' = Tail(pubAckCh)
        /\ ackLoop = "select" /\ UNCHANGED <<next, retrying, acked, gaveUp>>
    BY <1>4 DEF AckTakes, callVars, histVars
  <2>2. /\ awaited' \in ToSet(pubAckCh) /\ ToSet(pubAckCh') \subseteq ToSet(pubAckCh)
        /\ awaited' = pubAckCh[1] /\ Len(pubAckCh) \in Nat /\ Len(pubAckCh) > 0
        /\ pubAckCh' \in Seq(Aggs) /\ Len(pubAckCh') = Len(pubAckCh) - 1
        /\ \A i \in 1 .. Len(pubAckCh') : pubAckCh'[i] = pubAckCh[i + 1]
    BY <2>1, <1>typ, ToSetTail, HeadTailProperties, LenProperties, EmptySeq
  <2>3. awaited = 0
    BY <2>1, <1>typ DEF WaitsForTaken
  <2>4. \A i \in DOMAIN pubAckCh' : /\ i \in Nat /\ i + 1 \in DOMAIN pubAckCh /\ i + 1 # 1
                                    /\ pubAckCh'[i] = pubAckCh[i + 1]
    BY <2>2
  <2>5. ASSUME NEW i \in DOMAIN pubAckCh', NEW j \in DOMAIN pubAckCh', pubAckCh'[i] = pubAckCh'[j]
        PROVE  i = j
    <3>1. i + 1 = j + 1
      BY <2>4, <2>5 DEF OneOutcome
    <3> QED
      BY <2>4, <3>1
  <2>6. awaited' \notin ToSet(pubAckCh')
    <3>1. 1 \in DOMAIN pubAckCh
      BY <2>2, <1>typ
    <3>2. \A i \in DOMAIN pubAckCh' : pubAckCh'[i] # pubAckCh[1]
      BY <2>4, <3>1 DEF OneOutcome
    <3> QED
      BY <2>2, <3>2 DEF ToSet
  <2>7. \A a \in Aggs : Waits(a)' => Waits(a)
    BY <2>1, <2>2 DEF Waits
  <2>8. \A a \in Aggs : retrying'[a] # 0 => a \notin ToSet(pubAckCh') /\ a # awaited'
    BY <2>1, <2>2 DEF OneOutcome
  <2>9. Settled' = Settled
    BY <2>1 DEF Settled
  <2> QED
    BY <2>1, <2>5, <2>6, <2>7, <2>8, <2>9 DEF OneOutcome
<1>5. ASSUME NEW a \in Aggs, AckOk(a) PROVE OneOutcome'
  <2>1. /\ a = awaited /\ awaited' = 0 /\ UNCHANGED <<next, pubAckCh, retrying, gaveUp>>
        /\ acked' = acked \cup {a}
    BY <1>5 DEF AckOk, AckResolved, callVars
  <2>2. Waits(a) /\ a \notin ToSet(pubAckCh) /\ retrying[a] = 0
    BY <2>1, <1>typ DEF OneOutcome, Waits
  <2>3. Settled' = Settled \cup {a}
    BY <2>1 DEF Settled
  <2> QED
    BY <2>1, <2>2, <2>3, <1>typ, Settles
<1>6. ASSUME NEW a \in Aggs, AckErr(a) PROVE OneOutcome'
  <2>1. /\ a = awaited /\ awaited' = 0 /\ retrying' = [retrying EXCEPT ![a] = 1]
        /\ UNCHANGED <<next, pubAckCh, acked, gaveUp>>
    BY <1>6 DEF AckErr, AckResolved, callVars
  <2>2. Waits(a) /\ a \notin ToSet(pubAckCh)
    BY <2>1 DEF OneOutcome, Waits
  <2>3. \A b \in Aggs : retrying'[b] # 0 => retrying[b] # 0 \/ b = a
    BY <2>1, <1>typ
  <2>4. \A b \in Aggs : Waits(b)' => Waits(b)
    BY <2>1, <2>2, <2>3, <1>typ DEF Waits
  <2>5. awaited' \notin ToSet(pubAckCh') /\ \A b \in Aggs : b # awaited'
    BY <2>1, <1>typ
  <2>6. Settled' = Settled
    BY <2>1 DEF Settled
  <2> QED
    BY <2>1, <2>2, <2>3, <2>4, <2>5, <2>6 DEF OneOutcome
<1>7. ASSUME NEW a \in Aggs, RetrySucceeds(a) \/ RetryFails(a) \/ RetryCancelled(a) PROVE OneOutcome'
  <2>1. /\ retrying[a] # 0 /\ UNCHANGED <<next, pubAckCh, awaited>>
        /\ \/ retrying' = [retrying EXCEPT ![a] = 0] /\ Settled' = Settled \cup {a}
           \/ retrying' = [retrying EXCEPT ![a] = @ + 1] /\ Settled' = Settled
    BY <1>7 DEF RetrySucceeds, RetryFails, RetryCancelled, Retries, Settled, callVars, ackVars
  <2>2. Waits(a) /\ a \notin ToSet(pubAckCh) /\ a # awaited
    BY <2>1 DEF OneOutcome, Waits
  <2>3. CASE retrying' = [retrying EXCEPT ![a] = 0] /\ Settled' = Settled \cup {a}
    <3>1. retrying' \in [Aggs -> 0 .. MaxRetries] /\ retrying'[a] = 0
          /\ \A b \in Aggs : b # a => retrying'[b] = retrying[b]
      BY <2>3, <1>typ, PublisherAssumption
    <3> QED
      BY <2>1, <2>2, <2>3, <3>1, <1>typ, Settles
  <2>4. CASE retrying' = [retrying EXCEPT ![a] = @ + 1] /\ Settled' = Settled
    <3>1. \A b \in Aggs : retrying'[b] # 0 => retrying[b] # 0
      BY <2>1, <2>4, <1>typ
    <3>2. \A b \in Aggs : Waits(b)' => Waits(b)
      BY <2>1, <3>1 DEF Waits
    <3> QED
      BY <2>1, <2>4, <3>1, <3>2 DEF OneOutcome
  <2> QED
    BY <2>1, <2>3, <2>4
<1> QED
  BY <1>1, <1>2, <1>3, <1>4, <1>5, <1>6, <1>7 DEF Next, Publish, Ack

(* A publication that publishJSON has accepted is settled, or somebody still has it to settle. *)
AcceptedHeld == \A a \in accepted : Waits(a) \/ a \in Settled

LEMMA HeldNext == Inv /\ AcceptedHeld /\ [Next]_vars => AcceptedHeld'
<1> SUFFICES ASSUME Inv, AcceptedHeld, [Next]_vars PROVE AcceptedHeld'
  OBVIOUS
<1>typ. /\ WaitsForTaken /\ CallHasAgg /\ accepted \subseteq Aggs
        /\ retrying \in [Aggs -> 0 .. MaxRetries] /\ pubAckCh \in Seq(Aggs)
        /\ \A a \in Aggs : a # 0
  BY AggsAreNumbers DEF Inv, TypeOK
<1>0. ASSUME UNCHANGED accepted, \A a \in Aggs : Waits(a) \/ a \in Settled => Waits(a)' \/ a \in Settled'
      PROVE  AcceptedHeld'
  BY <1>0, <1>typ DEF AcceptedHeld
<1>1. CASE UNCHANGED <<pubAckCh, awaited, retrying, accepted, acked, gaveUp>>
  BY <1>0, <1>1 DEF Waits, Settled
<1>2. CASE \/ PublishBegins \/ PublishRefused \/ PublishAsync \/ PublishAsyncFails \/ PublishGivesUp
           \/ AckCancelled \/ AckStopped \/ DrainEnds \/ Cancel \/ Close \/ CloseReturns
           \/ UNCHANGED vars
  BY <1>1, <1>2 DEF PublishBegins, PublishRefused, PublishAsync, PublishAsyncFails, PublishGivesUp,
       AckCancelled, AckStopped, DrainEnds, Cancel, Close, CloseReturns, vars, callVars, ackVars, histVars
<1>3. ASSUME \/ \E a \in Aggs : Arrives(a) \/ Acknowledges(a) \/ ConnectionLost(a)
             \/ \E k \in Keys : Forget(k)
      PROVE  AcceptedHeld'
  BY <1>1, <1>3 DEF Arrives, Acknowledges, ConnectionLost, Forget, callVars, ackVars, histVars
<1>4. CASE PublishQueues
  <2>1. /\ next \in Aggs /\ pubAckCh' = Append(pubAckCh, next) /\ accepted' = accepted \cup {next}
        /\ UNCHANGED <<awaited, retrying, acked, gaveUp>>
    BY <1>4, <1>typ DEF PublishQueues, CallHasAgg, ackVars
  <2>2. ToSet(pubAckCh') = ToSet(pubAckCh) \cup {next}
    BY <2>1, <1>typ, ToSetAppend
  <2> QED
    BY <2>1, <2>2 DEF AcceptedHeld, Waits, Settled
<1>5. CASE AckTakes
  <2>1. /\ pubAckCh # <<>> /\ awaited' = Head(pubAckCh) /\ pubAckCh' = Tail(pubAckCh)
        /\ awaited = 0 /\ UNCHANGED <<retrying, accepted, acked, gaveUp>>
    BY <1>5, <1>typ DEF AckTakes, WaitsForTaken, callVars, histVars
  <2>2. ToSet(pubAckCh) \subseteq ToSet(pubAckCh') \cup {awaited'}
    BY <2>1, <1>typ, ToSetHead
  <2> QED
    BY <1>0, <1>typ, <2>1, <2>2 DEF Waits, Settled
<1>6. ASSUME NEW a \in Aggs, AckOk(a) \/ AckErr(a) PROVE AcceptedHeld'
  <2>1. /\ a = awaited /\ UNCHANGED <<pubAckCh, accepted, gaveUp>> /\ acked \subseteq acked'
        /\ a \in acked' \/ retrying'[a] # 0
        /\ \A b \in Aggs : b # a => retrying'[b] = retrying[b]
    BY <1>6, <1>typ DEF AckOk, AckErr, AckResolved
  <2> QED
    BY <1>0, <2>1 DEF Waits, Settled
<1>7. ASSUME NEW a \in Aggs, RetrySucceeds(a) \/ RetryFails(a) \/ RetryCancelled(a) PROVE AcceptedHeld'
  <2>1. /\ UNCHANGED <<pubAckCh, awaited, accepted>> /\ acked \subseteq acked' /\ gaveUp \subseteq gaveUp'
        /\ a \in acked' \cup gaveUp' \/ retrying'[a] # 0
        /\ \A b \in Aggs : b # a => retrying'[b] = retrying[b]
    BY <1>7, <1>typ DEF RetrySucceeds, RetryFails, RetryCancelled, Retries, callVars, ackVars
  <2> QED
    BY <1>0, <2>1 DEF Waits, Settled
<1> QED
  BY <1>2, <1>3, <1>4, <1>5, <1>6, <1>7 DEF Next, Publish, Ack

(* The safety half of AcceptedSettles: a publication that publishJSON has accepted is acknowledged, given up, *)
(* or in exactly one of three places, the channel, the ackLoop or its retry goroutine: none is dropped on *)
(* the way from one to the next, and none is with two of them. *)
THEOREM AcceptedInOnePlace == Spec => [](OneOutcome /\ AcceptedHeld)
<1>1. Init => AcceptedHeld
  BY DEF Init, AcceptedHeld
<1> QED
  BY <1>1, HeldNext, OutcomeInit, OutcomeNext, InvAlways, PTL DEF Spec

(* What the stream stores it has not stored before. *)
LEMMA StoreExtends ==
  ASSUME Remembered, NEW a \in Aggs, InFlight(a), Store(a)
  PROVE  stream' \in Publications!Extended(a)
BY DEF Remembered, Store, Publications!Extended, Publications!ToSet, ToSet

(* Every step is one of the log, or leaves it alone. *)
LEMMA LogStep ==
  ASSUME BackedInv, Backed', OneOutcome, [Next]_vars
  PROVE  [Publications!Next]_(Publications!publication)
<1> DEFINE Goal == [Publications!Next]_(Publications!publication)
<1>inv. Remembered /\ \A a \in Aggs : Waits(a) => Publications!Open(a)
  BY DEF BackedInv, Inv, OneOutcome, Settled, Publications!Open
<1>log. \A a \in Aggs : a \in acked' => Publications!InLog(Key[a], stream')
  BY DEF Backed, AckedKeyStored, Publications!InLog, Publications!ToSet, ToSet
<1>1. ASSUME NEW a \in Aggs, Arrives(a) PROVE Goal
  <2>1. stream' \in Publications!Extended(a)
    BY <1>1, <1>inv, StoreExtends DEF Arrives, InFlight
  <2>2. Publications!Arrive(a)
    BY <1>1, <2>1 DEF Arrives, Publications!Arrive, histVars
  <2> QED
    BY <2>2 DEF Publications!Next, Aggs
<1>2. ASSUME NEW a \in Aggs, AckOk(a) PROVE Goal
  <2>1. Waits(a) /\ stream' = stream /\ published' = published + 1 /\ acked' = acked \cup {a} /\ gaveUp' = gaveUp
    BY <1>2 DEF AckOk, AckResolved, Waits, serverVars
  <2>2. Publications!Confirm(a)
    BY <2>1, <1>inv, <1>log DEF Publications!Confirm, Publications!Extended
  <2> QED
    BY <2>2 DEF Publications!Next, Aggs
<1>3. ASSUME NEW a \in Aggs, RetrySucceeds(a) PROVE Goal
  <2>1. /\ Waits(a) /\ InFlight(a) /\ Store(a) /\ published' = published + 1 /\ acked' = acked \cup {a}
        /\ gaveUp' = gaveUp
    BY <1>3 DEF RetrySucceeds, Retries, Waits, InFlight
  <2>2. stream' \in Publications!Extended(a)
    BY <2>1, <1>inv, StoreExtends
  <2>3. Publications!Confirm(a)
    BY <2>1, <2>2, <1>inv, <1>log DEF Publications!Confirm
  <2> QED
    BY <2>3 DEF Publications!Next, Aggs
<1>4. ASSUME NEW a \in Aggs, RetryFails(a) \/ RetryCancelled(a) PROVE Goal
  <2>1. /\ Waits(a) /\ gaveUp' \in {gaveUp, gaveUp \cup {a}}
        /\ UNCHANGED <<stream, published, acked>>
    BY <1>4 DEF RetryFails, RetryCancelled, Retries, Waits
  <2>2. CASE gaveUp' = gaveUp
    BY <2>1, <2>2 DEF Publications!publication
  <2>3. CASE gaveUp' = gaveUp \cup {a}
    <3>1. Publications!Abandon(a)
      BY <2>1, <2>3, <1>inv DEF Publications!Abandon
    <3> QED
      BY <3>1 DEF Publications!Next, Aggs
  <2> QED
    BY <2>1, <2>2, <2>3
<1>5. ASSUME \/ \E a \in Aggs : Acknowledges(a) \/ ConnectionLost(a) \/ AckErr(a)
             \/ \E k \in Keys : Forget(k)
      PROVE  Goal
  <2>1. UNCHANGED <<stream, published, acked, gaveUp>>
    BY <1>5 DEF Acknowledges, ConnectionLost, AckErr, AckResolved, Forget, serverVars, histVars
  <2> QED
    BY <2>1 DEF Publications!publication
<1>6. CASE Publish \/ AckTakes \/ AckCancelled \/ AckStopped \/ DrainEnds \/ Cancel \/ Close \/ CloseReturns
           \/ UNCHANGED vars
  <2>1. UNCHANGED <<stream, published, acked, gaveUp>>
    BY <1>6 DEF Publish, PublishBegins, PublishRefused, PublishAsync, PublishAsyncFails, PublishQueues,
         PublishGivesUp, AckTakes, AckCancelled, AckStopped, DrainEnds, Cancel, Close, CloseReturns, vars,
         serverVars, histVars
  <2> QED
    BY <2>1 DEF Publications!publication
<1> QED
  BY <1>1, <1>2, <1>3, <1>4, <1>5, <1>6 DEF Next, Ack

(* The publisher implements PublicationLog: whatever is lost, late or retried, a publication is settled *)
(* once, by ackLoop or by retryPublish, and published counts it once; nothing is stored twice.          *)
THEOREM ImplementsLog == Spec => LogKept
<1>1. Init => Publications!Init
  BY DEF Init, Publications!Init
<1>2. BackedInv /\ OneOutcome /\ [Next]_vars => OneOutcome' /\ [Publications!Next]_(Publications!publication)
  BY NextInv, NextBacked, OutcomeNext, LogStep DEF BackedInv
<1>3. Init => OneOutcome
  BY OutcomeInit
<1>4. Spec => []BackedInv
  BY BackedAlways
<1> QED
  BY <1>1, <1>2, <1>3, <1>4, PTL DEF Spec, LogKept, Publications!Spec
=============================================================================
