------------------------ MODULE TumblingWindowProofs ------------------------
(***************************************************************************)
(* What holds of TumblingWindow for all reviews, dates, windows and        *)
(* capacities; what depends on the watermark says so.                      *)
(***************************************************************************)
EXTENDS TumblingWindow, TLAPS

-----------------------------------------------------------------------------
(* Windows and aggregates *)

LEMMA StartType ==
    ASSUME NEW r \in Reviews PROVE StartOf(r) \in Starts
BY DEF Starts

LEMMA StartNat == \A s \in Starts : s \in Nat
<1>1. ASSUME NEW r \in Reviews PROVE StartOf(r) \in Nat
  <2>1. Date[r] \in Nat /\ Window \in Nat \ {0}  BY WindowAssumption
  <2>2. Date[r] \div Window \in Nat  BY <2>1
  <2>3. \A a, b \in Nat : a * b \in Nat  OBVIOUS
  <2> QED  BY <2>1, <2>2, <2>3 DEF StartOf
<1> QED  BY <1>1 DEF Starts

LEMMA AggregatesType ==
    ASSUME NEW s \in Starts, NEW B \in SUBSET Reviews, NEW u \in BOOLEAN
    PROVE  Aggregates(s, B, u) \in SUBSET Agg
BY DEF Aggregates, Agg, OfProduct

(* The aggregates of a window report its reviews, and no others. *)
LEMMA AggregatesReport ==
    ASSUME NEW s \in Starts, NEW B \in SUBSET Reviews, NEW u \in BOOLEAN
    PROVE  UNION {a.reviews : a \in Aggregates(s, B, u)} = B
<1>1. ASSUME NEW r \in B PROVE \E a \in Aggregates(s, B, u) : r \in a.reviews
  <2> DEFINE a == [product |-> Product[r], start |-> s,
                   reviews |-> OfProduct(B, Product[r]), isUpdate |-> u]
  <2>1. a \in Aggregates(s, B, u)  BY DEF Aggregates
  <2>2. r \in a.reviews  BY DEF OfProduct
  <2> QED  BY <2>1, <2>2
<1>2. ASSUME NEW a \in Aggregates(s, B, u) PROVE a.reviews \subseteq B
  BY <1>2 DEF Aggregates, OfProduct
<1> QED  BY <1>1, <1>2

-----------------------------------------------------------------------------
(* Type correctness *)

LEMMA TypeInit == Init => TypeOK
<1> SUFFICES ASSUME Init PROVE TypeOK  OBVIOUS
<1>1. now \in Nat /\ phase \in Nat  BY WindowAssumption DEF Init
<1>2. windows \in SUBSET Starts /\ flushed \in SUBSET windows /\ flushing \in SUBSET windows
  BY DEF Init
<1>3. bucket \in [Starts -> SUBSET Reviews]  BY DEF Init
<1>4. outbox \in SUBSET Agg /\ output \in Seq(Agg) /\ offered \in SUBSET Agg  BY DEF Init
<1>5. arrived \in SUBSET Reviews /\ accepted \in SUBSET Reviews /\ input \in Seq(Reviews)
  BY DEF Init
<1> QED  BY <1>1, <1>2, <1>3, <1>4, <1>5 DEF Init, TypeOK

LEMMA TypeNext == TypeOK /\ [Next]_vars => TypeOK'
<1> SUFFICES ASSUME TypeOK, [Next]_vars PROVE TypeOK'
  OBVIOUS
<1> USE DEF clockVars, sendVars, storeVars
<1>1. CASE Clock  BY <1>1 DEF Clock, TypeOK
<1>2. CASE Stop  BY <1>2 DEF Stop, TypeOK
<1>3. CASE Receive
  <2>1. Tail(output) \in Seq(Agg)  BY <1>3 DEF Receive, TypeOK
  <2> QED  BY <1>3, <2>1 DEF Receive, TypeOK
<1>4. CASE Reap  BY <1>4 DEF Reap, Evict, AtSelect, TypeOK
<1>5. CASE FlushAll  BY <1>5 DEF FlushAll, TypeOK
<1>6. CASE Finish  BY <1>6 DEF Finish, TypeOK
<1>7. ASSUME NEW r \in Reviews, Send(r) PROVE TypeOK'  BY <1>7 DEF Send, TypeOK
<1>8. ASSUME NEW r \in Reviews, Receives(r)
      PROVE  /\ input' \in Seq(Reviews)
             /\ UNCHANGED <<now, phase, tick, arrived, stopping, status, flushing, output>>
  BY <1>8 DEF Receives, TypeOK
<1>9. ASSUME NEW r \in Reviews, DropOld(r) PROVE TypeOK'
  BY <1>8, <1>9 DEF DropOld, TypeOK
<1>10. ASSUME NEW r \in Reviews, Accumulate(r)
       PROVE  /\ windows' \in SUBSET Starts /\ windows \subseteq windows'
              /\ bucket' \in [Starts -> SUBSET Reviews]
              /\ accepted' \in SUBSET Reviews /\ flushed' = flushed
  BY <1>10, StartType DEF Accumulate, TypeOK
<1>11. ASSUME NEW r \in Reviews, AddReview(r) PROVE TypeOK'
  BY <1>8, <1>10, <1>11 DEF AddReview, TypeOK
<1>12. ASSUME NEW r \in Reviews, AddLate(r) PROVE TypeOK'
  <2>1. bucket'[StartOf(r)] \in SUBSET Reviews
    BY <1>10, <1>12, StartType DEF AddLate
  <2>2. outbox' \in SUBSET Agg
    BY <1>12, <2>1, StartType, AggregatesType DEF AddLate
  <2> QED  BY <1>8, <1>10, <1>12, <2>2 DEF AddLate, TypeOK
<1>13. ASSUME NEW s \in Starts, Flush(s) PROVE TypeOK'
  <2>1. outbox' \in SUBSET Agg
    BY <1>13, AggregatesType DEF Flush, TypeOK
  <2> QED  BY <1>13, <2>1 DEF Flush, TypeOK
<1>14. ASSUME NEW a \in outbox, Emit(a) PROVE TypeOK'  BY <1>14 DEF Emit, TypeOK
<1>15. CASE UNCHANGED vars  BY <1>15 DEF vars, TypeOK
<1> QED
  BY <1>1, <1>2, <1>3, <1>4, <1>5, <1>6, <1>7, <1>9, <1>11, <1>12, <1>13, <1>14, <1>15 DEF Next

(* Every variable keeps its type; a flushed or flushing window is in the store. *)
THEOREM TypeCorrect == Spec => []TypeOK
BY TypeInit, TypeNext, PTL DEF Spec
-----------------------------------------------------------------------------
(* The steps that change what is reported, and those that do not *)

Quiet == UNCHANGED <<storeVars, accepted, offered>>

LEMMA StepKinds ==
    ASSUME TypeOK, [Next]_vars
    PROVE  \/ Quiet \/ Reap
           \/ \E r \in Reviews : AddReview(r) \/ AddLate(r)
           \/ \E s \in Starts : Flush(s)
BY DEF Quiet, Next, Clock, Stop, Receive, FlushAll, Finish, Send, DropOld, Receives, Emit, vars

(* A reap removes windows and changes no entry that stays. *)
LEMMA ReapRemoves ==
    ASSUME TypeOK, Reap
    PROVE  /\ windows' \subseteq windows
           /\ flushed' = flushed \cap windows'
           /\ \A s \in windows' : bucket'[s] = bucket[s]
           /\ \A s \in Starts \ windows' : bucket'[s] = {} \/ (s \notin windows /\ bucket'[s] = bucket[s])
           /\ UNCHANGED <<accepted, offered>>
BY DEF Reap, Evict, TypeOK

(* With a watermark that is at least the window it removes only windows that were flushed. *)
LEMMA ReapTakesFlushed ==
    ASSUME TypeOK, Watermark >= Window, Reap
    PROVE  windows' \ flushed' = windows \ flushed
<1> DEFINE due == {s \in windows \ flushed : Closed(s)}
           old == {s \in windows \ due : Old(s)}
<1>1. ASSUME NEW s \in windows \ flushed PROVE s \notin old
  <2>1. s \in Nat /\ now \in Nat /\ Window \in Nat /\ Watermark \in Nat
    BY StartNat, WindowAssumption DEF TypeOK
  <2>2. Old(s) => Closed(s)  BY <2>1 DEF Old, Closed
  <2> QED  BY <2>2
<1>2. old \subseteq flushed  BY <1>1
<1>3. Evict(old)  BY DEF Reap
<1> QED  BY <1>2, <1>3 DEF Evict, TypeOK

(* An added review changes one entry, its window's. *)
LEMMA AccumulateEntry ==
    ASSUME TypeOK, NEW r \in Reviews, Accumulate(r)
    PROVE  /\ bucket'[StartOf(r)] = bucket[StartOf(r)] \cup {r}
           /\ \A s \in Starts \ {StartOf(r)} : bucket'[s] = bucket[s]
           /\ windows' = windows \cup {StartOf(r)} /\ UNCHANGED flushed
           /\ accepted' = accepted \cup {r}
BY StartType DEF Accumulate, TypeOK

(* The update that follows a late review reports all of its window. *)
LEMMA LateReports ==
    ASSUME TypeOK, NEW r \in Reviews, AddLate(r)
    PROVE  Reported' = Reported \cup bucket[StartOf(r)] \cup {r}
<1>1. bucket'[StartOf(r)] = bucket[StartOf(r)] \cup {r}
  BY AccumulateEntry DEF AddLate
<1>2. bucket'[StartOf(r)] \in SUBSET Reviews  BY <1>1, StartType DEF TypeOK
<1>3. UNION {a.reviews : a \in outbox'} = bucket'[StartOf(r)]
  BY <1>2, StartType, AggregatesReport DEF AddLate
<1>4. offered' = offered \cup outbox'  BY DEF AddLate
<1> QED  BY <1>1, <1>3, <1>4 DEF Reported

(* A flush reports the reviews of its window. *)
LEMMA FlushReports ==
    ASSUME TypeOK, NEW s \in Starts, Flush(s)
    PROVE  Reported' = Reported \cup bucket[s]
<1>1. UNION {a.reviews : a \in outbox'} = bucket[s]
  BY AggregatesReport DEF Flush, TypeOK
<1>2. offered' = offered \cup outbox'  BY DEF Flush
<1> QED  BY <1>1, <1>2 DEF Reported

-----------------------------------------------------------------------------
(* Nothing accepted is forgotten *)

LEMMA NothingForgottenNext ==
    ASSUME Watermark >= Window
    PROVE  TypeOK /\ NothingForgotten /\ [Next]_vars => NothingForgotten'
<1> SUFFICES ASSUME TypeOK, NothingForgotten, [Next]_vars PROVE NothingForgotten'
  OBVIOUS
<1> USE DEF NothingForgotten
<1>1. CASE Quiet  BY <1>1 DEF Quiet, storeVars, Reported
<1>2. CASE Reap
  <2>1. Reported' = Reported  BY <1>2, ReapRemoves DEF Reported
  <2> QED  BY <1>2, <2>1, ReapRemoves, ReapTakesFlushed
<1>3. ASSUME NEW r \in Reviews, AddReview(r) PROVE NothingForgotten'
  <2>1. Reported' = Reported  BY <1>3 DEF AddReview, Reported
  <2>2. Accumulate(r) /\ StartOf(r) \notin flushed  BY <1>3 DEF AddReview
  <2> QED  BY <2>1, <2>2, AccumulateEntry, StartType DEF TypeOK
<1>4. ASSUME NEW r \in Reviews, AddLate(r) PROVE NothingForgotten'
  <2>1. Reported \cup {r} \subseteq Reported'  BY <1>4, LateReports
  <2>2. Accumulate(r)  BY <1>4 DEF AddLate
  <2> QED  BY <2>1, <2>2, AccumulateEntry, StartType DEF TypeOK
<1>5. ASSUME NEW s \in Starts, Flush(s) PROVE NothingForgotten'
  <2>1. Reported' = Reported \cup bucket[s]  BY <1>5, FlushReports
  <2> QED  BY <1>5, <2>1 DEF Flush
<1> QED  BY <1>1, <1>2, <1>3, <1>4, <1>5, StepKinds

(* With a watermark that is at least the window no accepted review is evicted unreported. *)
THEOREM NothingIsForgotten ==
    ASSUME Watermark >= Window
    PROVE  Spec => []NothingForgotten
<1>1. Init => NothingForgotten  BY DEF Init, NothingForgotten
<1>2. TypeOK /\ NothingForgotten /\ [Next]_vars => NothingForgotten'  BY NothingForgottenNext
<1> QED  BY <1>1, <1>2, TypeCorrect, PTL DEF Spec

-----------------------------------------------------------------------------
(* A flushed window is current *)

(* The window s holds for the product of r what was last computed from it. *)
Current(s, r) ==
    \E a \in offered : a.start = s /\ a.product = Product[r]
                       /\ a.reviews = OfProduct(bucket[s], Product[r])

LEMMA AggregatesCover ==
    ASSUME NEW s \in Starts, NEW B \in SUBSET Reviews, NEW u \in BOOLEAN, NEW r \in B
    PROVE  \E a \in Aggregates(s, B, u) :
               a.start = s /\ a.product = Product[r] /\ a.reviews = OfProduct(B, Product[r])
<1> DEFINE a == [product |-> Product[r], start |-> s,
                 reviews |-> OfProduct(B, Product[r]), isUpdate |-> u]
<1>1. a \in Aggregates(s, B, u)  BY DEF Aggregates
<1>2. a.start = s /\ a.product = Product[r] /\ a.reviews = OfProduct(B, Product[r])
  OBVIOUS
<1> HIDE DEF a
<1> QED  BY <1>1, <1>2

LEMMA FlushedIsCurrentNext == TypeOK /\ FlushedIsCurrent /\ [Next]_vars => FlushedIsCurrent'
<1> SUFFICES ASSUME TypeOK, FlushedIsCurrent, [Next]_vars,
                    NEW s \in flushed', NEW r \in Reviews, r \in bucket'[s]
             PROVE  Current(s, r)'
  BY DEF FlushedIsCurrent, Current
<1>0. ASSUME s \in flushed, bucket'[s] = bucket[s], offered \subseteq offered'
      PROVE  Current(s, r)'
  BY <1>0 DEF FlushedIsCurrent, Current
<1>1. CASE Quiet  BY <1>0, <1>1 DEF Quiet, storeVars
<1>2. CASE Reap  BY <1>0, <1>2, ReapRemoves
<1>3. ASSUME NEW q \in Reviews, AddReview(q) PROVE Current(s, r)'
  <2>1. Accumulate(q) /\ StartOf(q) \notin flushed /\ UNCHANGED offered  BY <1>3 DEF AddReview
  <2> QED  BY <1>0, <2>1, AccumulateEntry DEF TypeOK
<1>4. ASSUME NEW q \in Reviews, AddLate(q) PROVE Current(s, r)'
  <2>1. Accumulate(q) /\ offered' = offered \cup outbox'
        /\ outbox' = Aggregates(StartOf(q), bucket'[StartOf(q)], TRUE)
    BY <1>4 DEF AddLate
  <2>2. CASE s = StartOf(q)
    <3>1. bucket'[s] \in SUBSET Reviews /\ s \in Starts
      BY <2>1, <2>2, AccumulateEntry, StartType DEF TypeOK
    <3>2. PICK a \in Aggregates(s, bucket'[s], TRUE) :
            a.start = s /\ a.product = Product[r]
            /\ a.reviews = OfProduct(bucket'[s], Product[r])
      BY <3>1, AggregatesCover
    <3>3. a \in offered'  BY <2>1, <2>2
    <3> QED  BY <3>2, <3>3 DEF Current
  <2>3. CASE s # StartOf(q)
    BY <1>0, <2>1, <2>3, AccumulateEntry DEF TypeOK
  <2> QED  BY <2>2, <2>3
<1>5. ASSUME NEW t \in Starts, Flush(t) PROVE Current(s, r)'
  <2>1. /\ offered' = offered \cup Aggregates(t, bucket[t], FALSE)
        /\ flushed' = flushed \cup {t} /\ UNCHANGED bucket
    BY <1>5 DEF Flush
  <2>2. CASE s = t
    <3>1. bucket[s] \in SUBSET Reviews  BY <2>2 DEF TypeOK
    <3>2. PICK a \in Aggregates(s, bucket[s], FALSE) :
            a.start = s /\ a.product = Product[r]
            /\ a.reviews = OfProduct(bucket[s], Product[r])
      <4>1. r \in bucket[s] /\ s \in Starts  BY <2>1, <2>2
      <4> QED  BY <3>1, <4>1, AggregatesCover
    <3>3. a \in offered' /\ bucket' = bucket  BY <2>1, <2>2
    <3> QED  BY <3>2, <3>3 DEF Current
  <2>3. CASE s # t
    <3>1. s \in flushed  BY <2>1, <2>3
    <3>2. bucket'[s] = bucket[s] /\ offered \subseteq offered'  BY <2>1
    <3> QED  BY <1>0, <3>1, <3>2
  <2> QED  BY <2>2, <2>3
<1> QED  BY <1>1, <1>2, <1>3, <1>4, <1>5, StepKinds

(* A window that is kept after its flush never holds more than the last update told. *)
THEOREM FlushedStaysCurrent == Spec => []FlushedIsCurrent
<1>1. Init => FlushedIsCurrent  BY DEF Init, FlushedIsCurrent
<1>2. TypeOK /\ FlushedIsCurrent /\ [Next]_vars => FlushedIsCurrent'  BY FlushedIsCurrentNext
<1> QED  BY <1>1, <1>2, TypeCorrect, PTL DEF Spec

-----------------------------------------------------------------------------
(* The aggregator implements the ledger *)

(* A review in the input was sent once and is not in a window yet. *)
InputFresh ==
    /\ \A i \in 1 .. Len(input) : input[i] \in arrived \ accepted
    /\ \A i, j \in 1 .. Len(input) : input[i] = input[j] => i = j
    /\ accepted \subseteq arrived

(* Every entry holds accepted reviews of its own window; what is reported was accepted. *)
Placed ==
    /\ \A s \in Starts : \A r \in bucket[s] : StartOf(r) = s /\ r \in accepted
    /\ \A s \in Starts \ windows : bucket[s] = {}
    /\ Reported \subseteq accepted

LEMMA InputFreshNext == TypeOK /\ InputFresh /\ [Next]_vars => InputFresh'
<1> SUFFICES ASSUME TypeOK, InputFresh, [Next]_vars PROVE InputFresh'
  OBVIOUS
<1>1. CASE UNCHANGED <<input, arrived, accepted>>  BY <1>1 DEF InputFresh
<1>2. ASSUME NEW r \in Reviews, Send(r) PROVE InputFresh'
  <2>1. input \in Seq(Reviews)  BY DEF TypeOK
  <2>2. /\ input' = Append(input, r) /\ arrived' = arrived \cup {r} /\ r \notin arrived
        /\ accepted' = accepted
    BY <1>2 DEF Send
  <2>3. Len(input') = Len(input) + 1 /\ input'[Len(input) + 1] = r
        /\ \A i \in 1 .. Len(input) : input'[i] = input[i]
    BY <2>1, <2>2
  <2> QED  BY <2>1, <2>2, <2>3 DEF InputFresh
<1>3. ASSUME NEW r \in Reviews, Receives(r), accepted' = accepted \/ accepted' = accepted \cup {r}
      PROVE  InputFresh'
  <2>1. input \in Seq(Reviews) /\ input # <<>>  BY <1>3 DEF TypeOK, Receives
  <2>2. input' = Tail(input) /\ r = input[1] /\ arrived' = arrived
    BY <1>3, <2>1 DEF Receives, sendVars
  <2>3. Len(input) \in Nat \ {0} /\ Len(input') = Len(input) - 1
        /\ \A i \in 1 .. Len(input) - 1 : input'[i] = input[i + 1]
    BY <2>1, <2>2
  <2>4. \A i \in 1 .. Len(input') : i + 1 \in 1 .. Len(input) /\ i + 1 # 1 /\ input'[i] = input[i + 1]
    BY <2>3
  <2>5. \A i \in 1 .. Len(input') : input'[i] \in arrived \ accepted /\ input'[i] # r
    BY <2>2, <2>3, <2>4 DEF InputFresh
  <2>6. \A i, j \in 1 .. Len(input') : input'[i] = input'[j] => i = j
    BY <2>3, <2>4 DEF InputFresh
  <2>7. r \in arrived  BY <2>2, <2>3 DEF InputFresh
  <2> QED  BY <1>3, <2>2, <2>5, <2>6, <2>7 DEF InputFresh
<1>4. ASSUME NEW r \in Reviews, DropOld(r) \/ AddReview(r) \/ AddLate(r) PROVE InputFresh'
  BY <1>3, <1>4 DEF DropOld, AddReview, AddLate, Accumulate
<1>5. Clock \/ Stop \/ Receive \/ Reap \/ FlushAll \/ Finish \/ UNCHANGED vars
        \/ (\E s \in Starts : Flush(s)) \/ (\E a \in outbox : Emit(a))
      => UNCHANGED <<input, arrived, accepted>>
  BY DEF Clock, Stop, Receive, Reap, FlushAll, Finish, Flush, Emit, sendVars, vars
<1> QED  BY <1>1, <1>2, <1>4, <1>5 DEF Next

LEMMA PlacedNext == TypeOK /\ Placed /\ [Next]_vars => Placed'
<1> SUFFICES ASSUME TypeOK, Placed, [Next]_vars PROVE Placed'
  OBVIOUS
<1>1. CASE Quiet  BY <1>1 DEF Quiet, storeVars, Placed, Reported
<1>2. CASE Reap
  <2>1. Reported' = Reported  BY <1>2, ReapRemoves DEF Reported
  <2> QED  BY <1>2, <2>1, ReapRemoves DEF Placed
<1>3. ASSUME NEW r \in Reviews, AddReview(r) PROVE Placed'
  <2>1. Accumulate(r) /\ Reported' = Reported  BY <1>3 DEF AddReview, Reported
  <2> QED  BY <2>1, AccumulateEntry, StartType DEF Placed
<1>4. ASSUME NEW r \in Reviews, AddLate(r) PROVE Placed'
  <2>1. Accumulate(r)  BY <1>4 DEF AddLate
  <2>2. Reported' = Reported \cup bucket[StartOf(r)] \cup {r}  BY <1>4, LateReports
  <2> QED  BY <2>1, <2>2, AccumulateEntry, StartType DEF Placed
<1>5. ASSUME NEW s \in Starts, Flush(s) PROVE Placed'
  <2>1. Reported' = Reported \cup bucket[s]  BY <1>5, FlushReports
  <2> QED  BY <1>5, <2>1 DEF Flush, Placed
<1> QED  BY <1>1, <1>2, <1>3, <1>4, <1>5, StepKinds

LEMMA LedgerStep ==
    ASSUME Watermark >= Window, TypeOK, InputFresh, Placed, FlushedIsCurrent, [Next]_vars
    PROVE  [Ledger!Next]_(Ledger!ledger)
<1> USE DEF Ledger!ledger
<1>1. CASE Quiet
  BY <1>1 DEF Quiet, storeVars, Buffered, Reported
<1>2. CASE Reap
  <2>1. Reported' = Reported  BY <1>2, ReapRemoves DEF Reported
  <2>2. windows' \ flushed' = windows \ flushed  BY <1>2, ReapTakesFlushed
  <2>3. \A s \in windows \ flushed : bucket'[s] = bucket[s]  BY <1>2, <2>2, ReapRemoves
  <2>4. Buffered' = Buffered  BY <2>2, <2>3 DEF Buffered
  <2> QED  BY <2>1, <2>4
<1>3. ASSUME NEW r \in Reviews, Receives(r) PROVE r \notin accepted
  <2>1. input \in Seq(Reviews) /\ input # <<>> /\ r = Head(input)  BY <1>3 DEF Receives, TypeOK
  <2>2. 1 \in 1 .. Len(input) /\ r = input[1]  BY <2>1
  <2> QED  BY <2>2 DEF InputFresh
<1>4. Buffered \subseteq accepted /\ Reported \subseteq accepted
  BY DEF Buffered, Placed, TypeOK
<1>5. ASSUME NEW r \in Reviews, AddReview(r) PROVE Ledger!Accept(r)
  <2>1. Accumulate(r) /\ StartOf(r) \notin flushed /\ Receives(r)  BY <1>5 DEF AddReview
  <2>2. Reported' = Reported  BY <1>5 DEF AddReview, Reported
  <2>3. windows' \ flushed' = (windows \ flushed) \cup {StartOf(r)}  BY <2>1, AccumulateEntry
  <2>4. StartOf(r) \notin windows \ flushed => bucket[StartOf(r)] = {}
    BY <2>1, StartType DEF Placed
  <2>5. Buffered' = Buffered \cup {r}
    BY <2>1, <2>3, <2>4, AccumulateEntry DEF Buffered, TypeOK
  <2> QED  BY <1>3, <1>4, <2>1, <2>2, <2>5 DEF Ledger!Accept, Ledger!New
<1>6. ASSUME NEW r \in Reviews, AddLate(r) PROVE Ledger!AcceptLate(r)
  <2>1. Accumulate(r) /\ StartOf(r) \in flushed /\ Receives(r)  BY <1>6 DEF AddLate
  <2>2. bucket[StartOf(r)] \subseteq Reported
    <3> SUFFICES ASSUME NEW q \in bucket[StartOf(r)] PROVE q \in Reported  OBVIOUS
    <3>1. q \in Reviews  BY StartType DEF TypeOK
    <3>2. PICK a \in offered : a.reviews = OfProduct(bucket[StartOf(r)], Product[q])
      BY <2>1, <3>1 DEF FlushedIsCurrent
    <3> QED  BY <3>2 DEF Reported, OfProduct
  <2>3. Reported' = Reported \cup {r}  BY <1>6, <2>2, LateReports
  <2>4. windows' \ flushed' = windows \ flushed  BY <2>1, AccumulateEntry
  <2>5. Buffered' = Buffered  BY <2>1, <2>4, AccumulateEntry DEF Buffered, TypeOK
  <2> QED  BY <1>3, <1>4, <2>1, <2>3, <2>5 DEF Ledger!AcceptLate, Ledger!New
<1>7. ASSUME NEW s \in Starts, Flush(s) PROVE [Ledger!Next]_(Ledger!ledger)
  <2>1. Reported' = Reported \cup bucket[s]  BY <1>7, FlushReports
  <2>2. s \in windows /\ windows' = windows /\ flushed' = flushed \cup {s} /\ bucket' = bucket
    BY <1>7 DEF Flush, TypeOK
  <2>3. CASE s \in flushed
    <3>1. Buffered' = Buffered  BY <2>2, <2>3 DEF Buffered
    <3>2. bucket[s] \subseteq Reported
      <4> SUFFICES ASSUME NEW q \in bucket[s] PROVE q \in Reported  OBVIOUS
      <4>1. q \in Reviews  BY DEF TypeOK
      <4>2. PICK a \in offered : a.reviews = OfProduct(bucket[s], Product[q])
        BY <2>3, <4>1 DEF FlushedIsCurrent
      <4> QED  BY <4>2 DEF Reported, OfProduct
    <3> QED  BY <2>1, <3>1, <3>2
  <2>4. CASE s \notin flushed
    <3>1. bucket[s] \subseteq Buffered  BY <2>2, <2>4 DEF Buffered
    <3>2. \A t \in windows \ flushed' : bucket[t] \cap bucket[s] = {}
      BY <2>2 DEF Placed, TypeOK
    <3>3. Buffered' = Buffered \ bucket[s]  BY <2>2, <3>2 DEF Buffered
    <3> QED  BY <2>1, <3>1, <3>3 DEF Ledger!Next, Ledger!Report
  <2> QED  BY <2>3, <2>4
<1> QED  BY <1>1, <1>2, <1>5, <1>6, <1>7, StepKinds DEF Ledger!Next

(* With a watermark that is at least the window every step of the aggregator is a step of the *)
(* ledger or a stutter: no review is counted before it is accepted, twice, or forgotten. *)
THEOREM ImplementsLedger ==
    ASSUME Watermark >= Window
    PROVE  Spec => Ledger!Safe
<1>1. Init => Ledger!Init  BY DEF Init, Ledger!Init, Buffered, Reported
<1>2. Init => InputFresh /\ Placed /\ FlushedIsCurrent
  BY DEF Init, InputFresh, Placed, FlushedIsCurrent, Reported
<1>3. TypeOK /\ InputFresh /\ Placed /\ FlushedIsCurrent /\ [Next]_vars
        => InputFresh' /\ Placed' /\ FlushedIsCurrent'
  BY InputFreshNext, PlacedNext, FlushedIsCurrentNext
<1>4. TypeOK /\ InputFresh /\ Placed /\ FlushedIsCurrent /\ [Next]_vars
        => [Ledger!Next]_(Ledger!ledger)
  BY LedgerStep
<1> QED  BY <1>1, <1>2, <1>3, <1>4, TypeCorrect, PTL DEF Spec, Ledger!Safe

=============================================================================
