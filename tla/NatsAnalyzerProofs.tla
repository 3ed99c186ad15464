------------------------- MODULE NatsAnalyzerProofs -------------------------
(***************************************************************************)
(* Proofs about NatsAnalyzer, for every stream and every bound: the types, *)
(* what becomes of an acknowledged aggregate, which version of a window    *)
(* ends in the file, and why an aggregate is given up.                     *)
(***************************************************************************)
EXTENDS NatsAnalyzer, FiniteSetTheorems, FunctionTheorems, SequenceTheorems, WellFoundedInduction, TLAPS

-----------------------------------------------------------------------------
(* Sequences and their elements *)

LEMMA RangeAppend ==
    ASSUME NEW S, NEW s \in Seq(S), NEW e \in S
    PROVE  Range(Append(s, e)) = Range(s) \cup {e}
BY AppendProperties DEF Range

LEMMA RangeConcat ==
    ASSUME NEW S, NEW s \in Seq(S), NEW t \in Seq(S)
    PROVE  Range(s \o t) = Range(s) \cup Range(t)
<1>1. /\ s \o t \in Seq(S) /\ Len(s \o t) = Len(s) + Len(t)
      /\ \A i \in 1 .. Len(s) + Len(t) : (s \o t)[i] = IF i <= Len(s) THEN s[i] ELSE t[i - Len(s)]
  BY ConcatProperties
<1>2. Len(s) \in Nat /\ Len(t) \in Nat  BY LenProperties
<1>3. Range(s \o t) \subseteq Range(s) \cup Range(t)
  <2>1. SUFFICES ASSUME NEW i \in 1 .. Len(s) + Len(t) PROVE (s \o t)[i] \in Range(s) \cup Range(t)
    BY <1>1 DEF Range
  <2>2. CASE i <= Len(s)
    <3>1. i \in DOMAIN s /\ (s \o t)[i] = s[i]  BY <1>1, <1>2, <2>2
    <3> QED  BY <3>1 DEF Range
  <2>3. CASE ~(i <= Len(s))
    <3>1. i - Len(s) \in DOMAIN t /\ (s \o t)[i] = t[i - Len(s)]  BY <1>1, <1>2, <2>3
    <3> QED  BY <3>1 DEF Range
  <2> QED  BY <2>2, <2>3
<1>4. ASSUME NEW i \in DOMAIN s PROVE s[i] \in Range(s \o t)
  <2>1. i \in DOMAIN (s \o t) /\ (s \o t)[i] = s[i]  BY <1>1, <1>2
  <2> QED  BY <2>1 DEF Range
<1>5. ASSUME NEW i \in DOMAIN t PROVE t[i] \in Range(s \o t)
  <2>1. i + Len(s) \in DOMAIN (s \o t) /\ (s \o t)[i + Len(s)] = t[i]  BY <1>1, <1>2
  <2> QED  BY <2>1 DEF Range
<1> QED  BY <1>3, <1>4, <1>5 DEF Range

LEMMA RangeTail ==
    ASSUME NEW S, NEW s \in Seq(S), s # <<>>
    PROVE  /\ Head(s) \in S /\ Tail(s) \in Seq(S) /\ Len(Tail(s)) = Len(s) - 1
           /\ Range(s) = {Head(s)} \cup Range(Tail(s))
<1>1. /\ Head(s) \in S /\ Tail(s) \in Seq(S) /\ Len(Tail(s)) = Len(s) - 1
      /\ \A i \in 1 .. Len(Tail(s)) : Tail(s)[i] = s[i + 1]
  BY HeadTailProperties
<1>2. Len(s) \in Nat /\ Len(s) # 0 /\ Head(s) = s[1]  BY LenProperties, EmptySeq
<1>3. ASSUME NEW i \in DOMAIN s PROVE s[i] \in {Head(s)} \cup Range(Tail(s))
  <2>1. CASE i = 1  BY <1>2, <2>1
  <2>2. CASE i # 1
    <3>1. i - 1 \in DOMAIN Tail(s) /\ Tail(s)[i - 1] = s[i]  BY <1>1, <1>2, <2>2
    <3> QED  BY <3>1 DEF Range
  <2> QED  BY <2>1, <2>2
<1>4. ASSUME NEW i \in DOMAIN Tail(s) PROVE Tail(s)[i] \in Range(s)
  <2>1. i + 1 \in DOMAIN s /\ Tail(s)[i] = s[i + 1]  BY <1>1, <1>2
  <2> QED  BY <2>1 DEF Range
<1>5. Head(s) \in Range(s)
  <2>1. 1 \in DOMAIN s  BY <1>2
  <2> QED  BY <1>2, <2>1 DEF Range
<1> QED  BY <1>1, <1>3, <1>4, <1>5 DEF Range

(* A set of natural numbers has a least element, a bounded one a greatest. *)
LEMMA Least ==
    ASSUME NEW T \in SUBSET Nat, T # {}
    PROVE  \E x \in T : \A y \in T : x <= y
<1>1. PICK x \in T : \A y \in T : ~(<<y, x>> \in OpToRel(<, Nat))  BY WFMin, NatLessThanWellFounded
<1>2. \A y \in T : ~(y < x)  BY <1>1 DEF OpToRel
<1> QED  BY <1>2

LEMMA Greatest ==
    ASSUME NEW n \in Nat, NEW T \in SUBSET (1 .. n), T # {}
    PROVE  \E x \in T : \A y \in T : y <= x
<1> DEFINE U == {n - y : y \in T}
<1>1. U \in SUBSET Nat /\ U # {}
  <2>1. \A y \in T : y \in 1 .. n  OBVIOUS
  <2>2. \A y \in T : n - y \in Nat  BY <2>1
  <2>3. U \subseteq Nat  BY <2>2
  <2>4. U # {}  OBVIOUS
  <2> QED  BY <2>3, <2>4
<1>2. PICK u \in U : \A v \in U : u <= v
  <2> HIDE DEF U
  <2> QED  BY <1>1, Least
<1>3. PICK x \in T : u = n - x  OBVIOUS
<1>4. \A y \in T : n - y \in U  OBVIOUS
<1>5. \A y \in T : n - x <= n - y  BY <1>2, <1>3, <1>4
<1> QED  BY <1>5

(* A finite set as a sequence. *)
LEMMA SequenceOfSet ==
    ASSUME NEW S, IsFiniteSet(S)
    PROVE  /\ SetToSeq(S) \in Seq(S) /\ Range(SetToSeq(S)) = S
           /\ \A i, j \in DOMAIN SetToSeq(S) : SetToSeq(S)[i] = SetToSeq(S)[j] => i = j
<1> DEFINE n == Cardinality(S)
           u == SetToSeq(S)
<1>1. n \in Nat  BY FS_CardinalityType
<1>2. PICK f : f \in Bijection(1 .. n, S)  BY FS_CardinalityType, Fun_ExistsBij
<1>3. f \in Injection(1 .. n, S)  BY <1>2, Fun_BijectionProperties
<1>4. u \in [1 .. n -> S] /\ IsInjective(u)  BY <1>3 DEF Injection, SetToSeq
<1>5. u \in Injection(1 .. n, S)  BY <1>4 DEF Injection
<1>6. Cardinality(1 .. n) = n /\ IsFiniteSet(1 .. n)  BY <1>1, FS_Interval
<1>7. u \in Surjection(1 .. n, S)  BY <1>5, <1>6, FS_Injection
<1>8. Range(u) = S  BY <1>7, Fun_SurjectionProperties
<1> HIDE DEF n, u
<1>9. u \in Seq(S)  BY <1>1, <1>4
<1> QED  BY <1>4, <1>8, <1>9 DEF IsInjective, u

-----------------------------------------------------------------------------
(***************************************************************************)
(* What unique leaves: the last row of every key, and one row of a key.    *)
(***************************************************************************)
LEMMA UniqueKeeps ==
    ASSUME NEW rows \in Seq(Messages)
    PROVE  /\ Unique(rows) \in Seq(Messages)
           /\ \A m \in Range(Unique(rows)) : \E j \in DOMAIN rows :
                  rows[j] = m /\ \A i \in DOMAIN rows : j < i => Key(rows[i]) # Key(m)
           /\ \A m \in Range(rows) : \E r \in Range(Unique(rows)) : Key(r) = Key(m)
           /\ \A i, j \in DOMAIN Unique(rows) : Key(Unique(rows)[i]) = Key(Unique(rows)[j]) => i = j
<1> DEFINE kept == {j \in DOMAIN rows : \A i \in DOMAIN rows : j < i => Key(rows[i]) # Key(rows[j])}
           S == {rows[j] : j \in kept}
           u == Unique(rows)
<1>1. DOMAIN rows = 1 .. Len(rows) /\ Len(rows) \in Nat  BY LenProperties
<1>2. S \subseteq Messages  BY <1>1
<1>3. IsFiniteSet(S)
  <2>1. IsFiniteSet(Messages)  BY NatsAnalyzerAssumption, FS_Interval DEF Messages
  <2> QED  BY <1>2, <2>1, FS_Subset
<1>4. /\ u \in Seq(S) /\ Range(u) = S
      /\ \A i, j \in DOMAIN u : u[i] = u[j] => i = j
  <2>1. u = SetToSeq(S)  BY DEF Unique
  <2> HIDE DEF S, u
  <2> QED  BY <1>3, <2>1, SequenceOfSet
<1>5. u \in Seq(Messages)
  <2> HIDE DEF S, u
  <2> QED  BY <1>2, <1>4
<1>6. \A m \in S : \E j \in DOMAIN rows :
          rows[j] = m /\ \A i \in DOMAIN rows : j < i => Key(rows[i]) # Key(m)
  OBVIOUS
<1>7. ASSUME NEW m \in Range(rows) PROVE \E r \in S : Key(r) = Key(m)
  <2> DEFINE T == {j \in DOMAIN rows : Key(rows[j]) = Key(m)}
  <2>1. T \in SUBSET (1 .. Len(rows)) /\ T # {}  BY <1>1, <1>7 DEF Range
  <2>2. PICK j \in T : \A i \in T : i <= j
    <3> HIDE DEF T
    <3> QED  BY <1>1, <2>1, Greatest
  <2>3. j \in kept  BY <1>1, <2>2
  <2> QED  BY <2>3
<1>8. ASSUME NEW i \in DOMAIN u, NEW j \in DOMAIN u, Key(u[i]) = Key(u[j]) PROVE i = j
  <2>1. u[i] \in S /\ u[j] \in S  BY <1>4 DEF Range
  <2>2. PICK k \in kept : u[i] = rows[k]  BY <2>1
  <2>3. PICK l \in kept : u[j] = rows[l]  BY <2>1
  <2>4. ~(k < l) /\ ~(l < k)  BY <1>8, <2>2, <2>3
  <2>5. k = l  BY <1>1, <2>4
  <2> QED  BY <1>4, <2>2, <2>3, <2>5
<1> HIDE DEF u, S, kept
<1> QED  BY <1>4, <1>5, <1>6, <1>7, <1>8 DEF u
-----------------------------------------------------------------------------
(* What a step does to the file and to the buffer, and what to the batch at hand. *)

LEMMA MinOfTwo ==
    ASSUME NEW a \in Int, NEW b \in Int
    PROVE  Min({a, b}) = IF a <= b THEN a ELSE b
<1> DEFINE least == IF a <= b THEN a ELSE b
<1>1. least \in {a, b} /\ \A y \in {a, b} : least <= y  OBVIOUS
<1>2. \A x \in {a, b} : (\A y \in {a, b} : x <= y) => x = least  OBVIOUS
<1> QED  BY <1>1, <1>2 DEF Min

LEMMA CountedIs ==
    ASSUME NEW n \in 0 .. MaxDeliver
    PROVE  /\ Counted(n) \in 1 .. MaxDeliver
           /\ Counted(n) = IF n < MaxDeliver THEN n + 1 ELSE MaxDeliver
<1>1. n + 1 \in Int /\ MaxDeliver \in Int /\ MaxDeliver >= 1  BY NatsAnalyzerAssumption
<1>2. Counted(n) = IF n + 1 <= MaxDeliver THEN n + 1 ELSE MaxDeliver  BY <1>1, MinOfTwo DEF Counted
<1> QED  BY <1>1, <1>2

\* The buffer is written, or lost, or lost together with the file, or gets one more message.
Writes == buffer' = <<>> /\ file' = Merged /\ UNCHANGED <<lost, appended>>

Fails == buffer' = <<>> /\ lost' = lost \cup Range(buffer) /\ UNCHANGED <<file, appended>>

Corrupts ==
    /\ buffer' = <<>> /\ file' = [type |-> "corrupt", rows |-> <<>>]
    /\ lost' = lost \cup Range(buffer) \cup Range(file.rows) /\ UNCHANGED appended

FileSteps == Writes \/ Fails \/ Corrupts \/ OnMessage \/ UNCHANGED <<buffer, file, lost, appended>>

LEMMA FlushSteps ==
    ASSUME FlushBuffer, UNCHANGED appended
    PROVE  Writes \/ Fails \/ UNCHANGED <<buffer, file, lost, appended>>
BY DEF FlushBuffer, Writes, Fails, fileVars

LEMMA FileChanges ==
    ASSUME [Next]_vars
    PROVE  FileSteps
<1>1. ASSUME Start \/ Fetch \/ OnMessageRaises \/ AckRaises \/ Signal \/ \E m \in Messages : Redeliver(m)
      PROVE  UNCHANGED <<buffer, file, lost, appended>>
  BY <1>1 DEF Start, Fetch, OnMessageRaises, AckRaises, Signal, Redeliver, fileVars
<1>2. ASSUME PeriodicFlush PROVE FileSteps  BY <1>2, FlushSteps DEF PeriodicFlush, FileSteps
<1>3. ASSUME Acked PROVE FileSteps  BY <1>3, FlushSteps DEF Acked, FileSteps, fileVars
<1>4. ASSUME Exit PROVE FileSteps
  BY <1>4, FlushSteps DEF Exit, Vanish, FileSteps, Fails
<1>5. ASSUME Crash PROVE FileSteps
  BY <1>5 DEF Crash, Vanish, FileSteps, Fails, Corrupts
<1>6. ASSUME UNCHANGED vars PROVE UNCHANGED <<buffer, file, lost, appended>>
  BY <1>6 DEF vars, fileVars
<1> QED  BY <1>1, <1>2, <1>3, <1>4, <1>5, <1>6 DEF Next, Pull, FileSteps

\* The message at hand is done with, the batch is left, or neither.
Finishes ==
    /\ at = "ack" /\ batch' = Tail(batch) /\ at' = IF Len(batch) = 1 THEN "fetch" ELSE "handle"
    /\ UNCHANGED <<deliveries, cuts>>

Leaves ==
    /\ batch' = <<>> /\ at' = "fetch" /\ UNCHANGED deliveries
    /\ cuts' = Counted(cuts) \/ (at = "fetch" /\ cuts' = cuts)

BatchSteps == Fetch \/ OnMessage \/ Finishes \/ Leaves \/ UNCHANGED <<at, batch, deliveries, cuts>>

LEMMA BatchChanges ==
    ASSUME [Next]_vars
    PROVE  BatchSteps
<1>1. ASSUME Start \/ PeriodicFlush \/ Signal \/ UNCHANGED vars \/ \E m \in Messages : Redeliver(m)
      PROVE  UNCHANGED <<at, batch, deliveries, cuts>>
  BY <1>1 DEF Start, PeriodicFlush, Signal, Redeliver, vars, streamVars
<1>2. ASSUME OnMessageRaises \/ AckRaises PROVE Leaves
  BY <1>2 DEF OnMessageRaises, AckRaises, CutShort, Leaves, streamVars
<1>3. ASSUME Acked PROVE Finishes \/ Leaves
  BY <1>3 DEF Acked, NextMessage, CutShort, Finishes, Leaves
<1>4. ASSUME Exit \/ Crash PROVE Leaves
  BY <1>4 DEF Exit, Crash, Vanish, Leaves, streamVars
<1> QED  BY <1>1, <1>2, <1>3, <1>4 DEF Next, Pull, BatchSteps

-----------------------------------------------------------------------------
(* Type correctness *)

LEMMA TypeInit == Init => TypeOK
<1> SUFFICES ASSUME Init PROVE TypeOK  OBVIOUS
<1>1. <<>> \in Seq(Messages) /\ Len(<<>>) = 0  BY EmptySeq
<1>2. FetchSize \in Nat /\ MaxDeliver \in Nat /\ MaxStarts \in Nat  BY NatsAnalyzerAssumption
<1>3. file \in [type : {"none", "whole", "fraction", "corrupt"}, rows : Seq(Messages)]
  BY <1>1 DEF Init, NoFile
<1>4. deliveries \in [Messages -> 0 .. MaxDeliver]  BY <1>2 DEF Init
<1>5. /\ batch \in Seq(Messages) /\ Len(batch) <= FetchSize /\ (at = "fetch" <=> batch = <<>>)
      /\ buffer \in Seq(Messages)
  BY <1>1, <1>2 DEF Init
<1>6. starts \in 0 .. MaxStarts /\ writes \in 0 .. 2 /\ cuts \in 0 .. MaxDeliver  BY <1>2 DEF Init
<1>7. /\ stream \in Streams /\ limited \in BOOLEAN /\ life \in {"down", "running"}
      /\ at \in {"fetch", "handle", "ack"} /\ shutdown \in BOOLEAN /\ flusher \in BOOLEAN
      /\ inflight \subseteq Messages /\ acked \subseteq Messages
      /\ appended \subseteq Messages /\ lost \subseteq Messages
  BY DEF Init
<1> QED  BY <1>3, <1>4, <1>5, <1>6, <1>7 DEF TypeOK

LEMMA RowsReplaced ==
    ASSUME NEW T, NEW R, NEW f \in [type : T, rows : R], NEW r \in R
    PROVE  [f EXCEPT !.rows = r] \in [type : T, rows : R] /\ [f EXCEPT !.rows = r].rows = r
OBVIOUS

LEMMA FileTyped ==
    ASSUME TypeOK, FileSteps
    PROVE  /\ buffer' \in Seq(Messages) /\ lost' \subseteq Messages /\ appended' \subseteq Messages
           /\ file' \in [type : {"none", "whole", "fraction", "corrupt"}, rows : Seq(Messages)]
<1>1. /\ buffer \in Seq(Messages) /\ batch \in Seq(Messages) /\ (at = "fetch" <=> batch = <<>>)
      /\ file \in [type : {"none", "whole", "fraction", "corrupt"}, rows : Seq(Messages)]
      /\ lost \subseteq Messages /\ appended \subseteq Messages
  BY DEF TypeOK
<1>2. Range(buffer) \subseteq Messages /\ Range(file.rows) \subseteq Messages  BY <1>1 DEF Range
<1>3. CASE Writes
  <2>1. file.rows \o buffer \in Seq(Messages)  BY <1>1, ConcatProperties
  <2>2. Unique(file.rows \o buffer) \in Seq(Messages)  BY <2>1, UniqueKeeps
  <2>3. Type(buffer) \in {"whole", "fraction"}  BY DEF Type
  <2>4. Merged \in [type : {"none", "whole", "fraction", "corrupt"}, rows : Seq(Messages)]
    <3>1. CASE file.type = "none"  BY <1>1, <2>3, <3>1 DEF Merged
    <3>2. CASE file.type # "none"
      <4> DEFINE rows == Unique(file.rows \o buffer)
      <4>1. Merged = [file EXCEPT !.rows = rows] /\ rows \in Seq(Messages)  BY <2>2, <3>2 DEF Merged
      <4> HIDE DEF rows
      <4> QED  BY <1>1, <4>1, RowsReplaced
    <3> QED  BY <3>1, <3>2
  <2> QED  BY <1>1, <1>3, <2>4 DEF Writes
<1>4. CASE Fails \/ Corrupts
  <2>1. <<>> \in Seq(Messages)  BY EmptySeq
  <2>2. CASE Fails  BY <1>1, <1>2, <2>1, <2>2 DEF Fails
  <2>3. CASE Corrupts
    <3>1. file' \in [type : {"none", "whole", "fraction", "corrupt"}, rows : Seq(Messages)]
      BY <2>1, <2>3 DEF Corrupts
    <3> QED  BY <1>1, <1>2, <2>1, <2>3, <3>1 DEF Corrupts
  <2> QED  BY <1>4, <2>2, <2>3
<1>5. CASE OnMessage
  <2>1. batch # <<>> /\ Head(batch) \in Messages  BY <1>1, <1>5, RangeTail DEF OnMessage
  <2>2. Append(buffer, Head(batch)) \in Seq(Messages)  BY <1>1, <2>1, AppendProperties
  <2> QED  BY <1>1, <1>5, <2>1, <2>2 DEF OnMessage
<1> QED  BY <1>1, <1>3, <1>4, <1>5 DEF FileSteps

LEMMA BatchTyped ==
    ASSUME TypeOK, BatchSteps
    PROVE  /\ batch' \in Seq(Messages) /\ Len(batch') <= FetchSize
           /\ at' \in {"fetch", "handle", "ack"} /\ (at' = "fetch" <=> batch' = <<>>)
           /\ deliveries' \in [Messages -> 0 .. MaxDeliver] /\ cuts' \in 0 .. MaxDeliver
<1>1. /\ batch \in Seq(Messages) /\ Len(batch) <= FetchSize /\ Len(batch) \in Nat
      /\ at \in {"fetch", "handle", "ack"} /\ (at = "fetch" <=> batch = <<>>)
      /\ deliveries \in [Messages -> 0 .. MaxDeliver] /\ cuts \in 0 .. MaxDeliver
  BY LenProperties DEF TypeOK
<1>2. FetchSize \in Nat /\ FetchSize > 0 /\ MaxDeliver \in Nat  BY NatsAnalyzerAssumption
<1>3. \A n \in 0 .. MaxDeliver : Counted(n) \in 0 .. MaxDeliver
  BY <1>2, CountedIs
<1>4. CASE Fetch
  <2>1. PICK s \in SeqOf({m \in Messages : Deliverable(m)}, FetchSize) :
          /\ s # <<>> /\ batch' = s
          /\ deliveries' = [m \in Messages |->
                IF m \in Range(s) THEN Counted(deliveries[m]) ELSE deliveries[m]]
    BY <1>4 DEF Fetch
  <2>2. PICK n \in 0 .. FetchSize : s \in [1 .. n -> {m \in Messages : Deliverable(m)}]
    BY <2>1 DEF SeqOf
  <2>3. s \in [1 .. n -> Messages]  BY <2>2
  <2>4. s \in Seq(Messages) /\ Len(s) = n  BY <1>2, <2>3
  <2>5. deliveries' \in [Messages -> 0 .. MaxDeliver]  BY <1>1, <1>3, <2>1
  <2>6. at' = "handle" /\ cuts' = cuts  BY <1>4 DEF Fetch
  <2> QED  BY <1>1, <1>2, <2>1, <2>4, <2>5, <2>6
<1>5. CASE OnMessage  BY <1>1, <1>5 DEF OnMessage, streamVars
<1>6. CASE Finishes
  <2>1. Tail(batch) \in Seq(Messages) /\ Len(Tail(batch)) = Len(batch) - 1
    BY <1>1, <1>6, RangeTail DEF Finishes
  <2>2. Tail(batch) = <<>> <=> Len(Tail(batch)) = 0  BY <2>1, EmptySeq
  <2> QED  BY <1>1, <1>2, <1>6, <2>1, <2>2 DEF Finishes
<1>7. CASE Leaves
  <2>1. <<>> \in Seq(Messages) /\ Len(<<>>) = 0  BY EmptySeq
  <2> QED  BY <1>1, <1>2, <1>3, <1>7, <2>1 DEF Leaves
<1> QED  BY <1>1, <1>4, <1>5, <1>6, <1>7 DEF BatchSteps

LEMMA GivenKept == [Next]_vars => UNCHANGED given
BY DEF Next, Pull, Start, Fetch, OnMessage, OnMessageRaises, Acked, AckRaises, Exit, PeriodicFlush,
       Signal, Crash, Redeliver, Vanish, vars

LEMMA TypeNext == TypeOK /\ [Next]_vars => TypeOK'
<1> SUFFICES ASSUME TypeOK, [Next]_vars PROVE TypeOK'  OBVIOUS
<1>1. /\ buffer' \in Seq(Messages) /\ lost' \subseteq Messages /\ appended' \subseteq Messages
      /\ file' \in [type : {"none", "whole", "fraction", "corrupt"}, rows : Seq(Messages)]
  BY FileTyped, FileChanges
<1>2. /\ batch' \in Seq(Messages) /\ Len(batch') <= FetchSize
      /\ at' \in {"fetch", "handle", "ack"} /\ (at' = "fetch" <=> batch' = <<>>)
      /\ deliveries' \in [Messages -> 0 .. MaxDeliver] /\ cuts' \in 0 .. MaxDeliver
  BY BatchTyped, BatchChanges
<1>3. stream' \in Streams /\ limited' \in BOOLEAN  BY GivenKept DEF given, TypeOK
<1>4. inflight' \subseteq Messages /\ acked' \subseteq Messages
  <2>1. inflight \subseteq Messages /\ acked \subseteq Messages  BY DEF TypeOK
  <2>2. CASE Fetch
    <3>1. PICK s \in SeqOf({m \in Messages : Deliverable(m)}, FetchSize) : inflight' = inflight \cup Range(s)
      BY <2>2 DEF Fetch
    <3>2. Range(s) \subseteq Messages  BY <3>1 DEF SeqOf, Range
    <3> QED  BY <2>1, <2>2, <3>1, <3>2 DEF Fetch
  <2>3. CASE Acked
    <3>1. Head(batch) \in Messages  BY <2>3, RangeTail DEF Acked, TypeOK
    <3> QED  BY <2>1, <2>3, <3>1 DEF Acked
  <2>4. ASSUME NEW m \in Messages, Redeliver(m) PROVE inflight' \subseteq inflight /\ acked' = acked
    BY <2>4 DEF Redeliver
  <2>5. ASSUME \/ Start \/ OnMessage \/ OnMessageRaises \/ AckRaises \/ Exit \/ PeriodicFlush \/ Signal
               \/ Crash \/ UNCHANGED vars
        PROVE  UNCHANGED <<inflight, acked>>
    BY <2>5 DEF Start, OnMessage, OnMessageRaises, AckRaises, Exit, PeriodicFlush, Signal, Crash, Vanish,
         vars, streamVars
  <2> QED  BY <2>1, <2>2, <2>3, <2>4, <2>5 DEF Next, Pull
<1>5. life' \in {"down", "running"} /\ starts' \in 0 .. MaxStarts
  <2>1. life \in {"down", "running"} /\ starts \in 0 .. MaxStarts /\ MaxStarts \in Nat
    BY NatsAnalyzerAssumption DEF TypeOK
  <2>2. CASE Start  BY <2>1, <2>2 DEF Start
  <2>3. CASE Exit \/ Crash  BY <2>1, <2>3 DEF Exit, Crash, Vanish
  <2>4. ASSUME \/ Fetch \/ OnMessage \/ OnMessageRaises \/ Acked \/ AckRaises \/ PeriodicFlush \/ Signal
               \/ UNCHANGED vars \/ \E m \in Messages : Redeliver(m)
        PROVE  UNCHANGED <<life, starts>>
    BY <2>4 DEF Fetch, OnMessage, OnMessageRaises, Acked, AckRaises, PeriodicFlush, Signal, Redeliver, vars
  <2> QED  BY <2>1, <2>2, <2>3, <2>4 DEF Next, Pull
<1>6. shutdown' \in BOOLEAN /\ flusher' \in BOOLEAN
  <2>1. shutdown \in BOOLEAN /\ flusher \in BOOLEAN  BY DEF TypeOK
  <2>2. CASE Start \/ Exit \/ Crash \/ Signal
    BY <2>1, <2>2 DEF Start, Exit, Crash, Vanish, Signal
  <2>3. CASE PeriodicFlush  BY <2>1, <2>3 DEF PeriodicFlush, Raises
  <2>4. ASSUME \/ Fetch \/ OnMessage \/ OnMessageRaises \/ Acked \/ AckRaises
               \/ UNCHANGED vars \/ \E m \in Messages : Redeliver(m)
        PROVE  UNCHANGED <<shutdown, flusher>>
    BY <2>4 DEF Fetch, OnMessage, OnMessageRaises, Acked, AckRaises, Redeliver, vars
  <2> QED  BY <2>1, <2>2, <2>3, <2>4 DEF Next, Pull
<1>7. writes' \in 0 .. 2
  <2>1. writes \in 0 .. 2  BY DEF TypeOK
  <2>2. Min({writes + 1, 2}) \in 0 .. 2  BY <2>1, MinOfTwo
  <2>3. ASSUME FlushBuffer PROVE writes' \in 0 .. 2  BY <2>1, <2>2, <2>3 DEF FlushBuffer, fileVars
  <2>4. CASE PeriodicFlush \/ Acked \/ Exit  BY <2>1, <2>3, <2>4 DEF PeriodicFlush, Acked, Exit, fileVars
  <2>5. CASE Crash  BY <2>1, <2>5 DEF Crash
  <2>6. ASSUME \/ Start \/ Fetch \/ OnMessage \/ OnMessageRaises \/ AckRaises \/ Signal
               \/ UNCHANGED vars \/ \E m \in Messages : Redeliver(m)
        PROVE  UNCHANGED writes
    BY <2>6 DEF Start, Fetch, OnMessage, OnMessageRaises, AckRaises, Signal, Redeliver, vars, fileVars
  <2> QED  BY <2>1, <2>4, <2>5, <2>6 DEF Next, Pull
<1> QED  BY <1>1, <1>2, <1>3, <1>4, <1>5, <1>6, <1>7 DEF TypeOK

(* Every variable keeps its type: a batch has FetchSize messages at most, and the pull loop is at its *)
(* fetch exactly when none is left. *)
THEOREM TypeCorrect == Spec => []TypeOK
BY TypeInit, TypeNext, PTL DEF Spec
-----------------------------------------------------------------------------
(***************************************************************************)
(* What becomes of an aggregate.  It is in the buffer before it is         *)
(* acknowledged, and a flush puts it, or the last version of its window,   *)
(* into the file, or loses it.                                             *)
(***************************************************************************)
Accounted(m) == m \in Range(buffer) \/ \E r \in Range(file.rows) \cup lost : Key(r) = Key(m)

NoFileNoRows == file.type = "none" => file.rows = <<>>

AckInv ==
    /\ NoFileNoRows
    /\ \A m \in acked : Accounted(m)
    /\ at = "ack" => Accounted(Head(batch))

\* The rows after a write: with no file yet, the buffer as it is.
LEMMA MergedRows ==
    ASSUME TypeOK
    PROVE  /\ Merged.type # "none"
           /\ file.type = "none" => Merged.rows = buffer
           /\ file.type # "none" => Merged.rows = Unique(file.rows \o buffer)
<1>1. file \in [type : {"none", "whole", "fraction", "corrupt"}, rows : Seq(Messages)] /\ buffer \in Seq(Messages)
  BY DEF TypeOK
<1>2. CASE file.type = "none"  BY <1>2 DEF Merged, Type
<1>3. CASE file.type # "none"
  <2> DEFINE rows == Unique(file.rows \o buffer)
  <2>1. Merged = [file EXCEPT !.rows = rows]  BY <1>3 DEF Merged
  <2>2. rows = Unique(file.rows \o buffer)  OBVIOUS
  <2> HIDE DEF rows
  <2>3. Merged.rows = rows /\ Merged.type = file.type  BY <1>1, <2>1
  <2> QED  BY <1>3, <2>2, <2>3
<1> QED  BY <1>2, <1>3

LEMMA NoFileNoRowsKept ==
    ASSUME TypeOK, NoFileNoRows, FileSteps
    PROVE  NoFileNoRows'
<1>1. CASE Writes  BY <1>1, MergedRows DEF Writes, NoFileNoRows
<1>2. CASE ~Writes  BY <1>2 DEF FileSteps, Fails, Corrupts, OnMessage, NoFileNoRows
<1> QED  BY <1>1, <1>2

LEMMA AccountedKept ==
    ASSUME TypeOK, NoFileNoRows, FileSteps, UNCHANGED stream, NEW m \in Messages, Accounted(m)
    PROVE  Accounted(m)'
<1>1. /\ buffer \in Seq(Messages) /\ file.rows \in Seq(Messages)
      /\ batch \in Seq(Messages) /\ (at = "fetch" <=> batch = <<>>)
  BY DEF TypeOK
<1>2. \A r : Key(r)' = Key(r)  BY DEF Key
<1>3. CASE Writes
  <2>1. CASE file.type = "none"
    <3>1. file'.rows = buffer /\ lost' = lost  BY <1>3, <2>1, MergedRows DEF Writes
    <3>2. Range(file.rows) = {}  BY <2>1 DEF NoFileNoRows, Range
    <3> QED  BY <1>2, <3>1, <3>2 DEF Accounted
  <2>2. CASE file.type # "none"
    <3> DEFINE all == file.rows \o buffer
               left == Unique(all)
    <3>1. file'.rows = left /\ lost' = lost  BY <1>3, <2>2, MergedRows DEF Writes
    <3>2. Range(all) = Range(file.rows) \cup Range(buffer)  BY <1>1, RangeConcat
    <3>3. \A x \in Range(all) : \E r \in Range(left) : Key(r) = Key(x)
      <4>1. all \in Seq(Messages)  BY <1>1, ConcatProperties
      <4> HIDE DEF all
      <4> QED  BY <4>1, UniqueKeeps
    <3> HIDE DEF all, left
    <3>4. CASE \E x \in Range(all) : Key(x) = Key(m)
      <4>1. PICK x \in Range(all) : Key(x) = Key(m)  BY <3>4
      <4>2. PICK r \in Range(left) : Key(r) = Key(x)  BY <3>3
      <4> QED  BY <1>2, <3>1, <4>1, <4>2 DEF Accounted
    <3>5. CASE \E r \in lost : Key(r) = Key(m)  BY <1>2, <3>1, <3>5 DEF Accounted
    <3> QED  BY <3>2, <3>4, <3>5 DEF Accounted
  <2> QED  BY <2>1, <2>2
<1>4. CASE Fails  BY <1>2, <1>4 DEF Fails, Accounted
<1>5. CASE Corrupts  BY <1>2, <1>5 DEF Corrupts, Accounted
<1>6. CASE OnMessage
  <2>1. Head(batch) \in Messages  BY <1>1, <1>6, RangeTail DEF OnMessage
  <2>2. Range(buffer') = Range(buffer) \cup {Head(batch)}  BY <1>1, <1>6, <2>1, RangeAppend DEF OnMessage
  <2> QED  BY <1>2, <1>6, <2>2 DEF OnMessage, Accounted
<1>7. CASE UNCHANGED <<buffer, file, lost, appended>>  BY <1>2, <1>7 DEF Accounted
<1> QED  BY <1>3, <1>4, <1>5, <1>6, <1>7 DEF FileSteps

LEMMA AckInit == Init => AckInv
BY DEF Init, AckInv, NoFileNoRows, NoFile

LEMMA AckNext == TypeOK /\ AckInv /\ [Next]_vars => AckInv'
<1> SUFFICES ASSUME TypeOK, AckInv, [Next]_vars PROVE AckInv'  OBVIOUS
<1>1. FileSteps /\ BatchSteps  BY FileChanges, BatchChanges
<1>2. NoFileNoRows /\ NoFileNoRows'  BY <1>1, NoFileNoRowsKept DEF AckInv
<1>3. UNCHANGED stream  BY GivenKept DEF given
<1>4. \A m \in Messages : Accounted(m) => Accounted(m)'  BY <1>1, <1>2, <1>3, AccountedKept
<1>5. /\ batch \in Seq(Messages) /\ buffer \in Seq(Messages) /\ (at = "fetch" <=> batch = <<>>)
      /\ acked \subseteq Messages
  BY DEF TypeOK
<1>6. at # "fetch" => Head(batch) \in Messages  BY <1>5, RangeTail
<1>7. acked' = acked \/ (at = "ack" /\ acked' = acked \cup {Head(batch)})
  BY DEF Next, Pull, Start, Fetch, OnMessage, OnMessageRaises, Acked, AckRaises, Exit, PeriodicFlush,
         Signal, Crash, Redeliver, Vanish, vars, streamVars
<1>8. \A m \in acked' : Accounted(m)'  BY <1>4, <1>5, <1>6, <1>7 DEF AckInv
<1>9. ASSUME at' = "ack" PROVE Accounted(Head(batch))'
  <2>1. CASE OnMessage
    <3>1. Head(batch) \in Range(buffer') /\ batch' = batch
      BY <1>5, <1>6, <2>1, RangeAppend DEF OnMessage
    <3> QED  BY <3>1 DEF Accounted
  <2>2. CASE UNCHANGED <<at, batch, deliveries, cuts>>
    BY <1>4, <1>6, <1>9, <2>2 DEF AckInv
  <2>3. ~Fetch /\ ~Finishes /\ ~Leaves  BY <1>9 DEF Fetch, Finishes, Leaves
  <2> QED  BY <1>1, <2>1, <2>2, <2>3 DEF BatchSteps
<1> QED  BY <1>2, <1>8, <1>9 DEF AckInv

(* An acknowledged aggregate, or a version of its window, is in the buffer, in the file or among what *)
(* a failed write or the end of the process has lost: flush_buffer and unique drop nothing else. *)
THEOREM AckedKept == Spec => []AckedAccounted
<1>1. AckInv => AckedAccounted  BY DEF AckInv, Accounted, AckedAccounted
<1> QED  BY <1>1, AckInit, AckNext, TypeInit, TypeNext, PTL DEF Spec

-----------------------------------------------------------------------------
(***************************************************************************)
(* Why an aggregate is given up.  A message that never reached the buffer  *)
(* was delivered once for every fetch that was cut short, and once more    *)
(* while it is in the batch at hand.                                       *)
(***************************************************************************)
AtHand(m) == IF m \in Range(batch) THEN 1 ELSE 0

CutInv ==
    /\ at = "ack" => Head(batch) \in appended
    /\ \A m \in Messages \ appended : cuts = MaxDeliver \/ deliveries[m] <= cuts + AtHand(m)

LEMMA CutInit == Init => CutInv
<1>1. MaxDeliver \in Nat  BY NatsAnalyzerAssumption
<1>2. Range(<<>>) = {}  BY DEF Range
<1> QED  BY <1>1, <1>2 DEF Init, CutInv, AtHand

LEMMA AppendedGrows == FileSteps => appended \subseteq appended'
BY DEF FileSteps, Writes, Fails, Corrupts, OnMessage

LEMMA CutNext == TypeOK /\ CutInv /\ [Next]_vars => CutInv'
<1> SUFFICES ASSUME TypeOK, CutInv, [Next]_vars PROVE CutInv'  OBVIOUS
<1>1. BatchSteps /\ appended \subseteq appended'  BY FileChanges, BatchChanges, AppendedGrows
<1>2. /\ batch \in Seq(Messages) /\ (at = "fetch" <=> batch = <<>>)
      /\ deliveries \in [Messages -> 0 .. MaxDeliver] /\ cuts \in 0 .. MaxDeliver
  BY DEF TypeOK
<1>3. MaxDeliver \in Nat /\ Range(<<>>) = {}  BY NatsAnalyzerAssumption DEF Range
<1>4. \A m : AtHand(m) \in {0, 1}  BY DEF AtHand
<1>5. at' = "ack" => Head(batch)' \in appended'
  BY <1>1 DEF BatchSteps, Fetch, OnMessage, Finishes, Leaves, CutInv
<1>6. ASSUME NEW m \in Messages \ appended'
      PROVE  cuts' = MaxDeliver \/ deliveries'[m] <= cuts' + AtHand(m)'
  <2>1. m \in Messages /\ m \notin appended /\ (cuts = MaxDeliver \/ deliveries[m] <= cuts + AtHand(m))
    BY <1>1, <1>6 DEF CutInv
  <2>2. deliveries[m] \in 0 .. MaxDeliver  BY <1>2, <2>1
  <2>3. CASE Fetch
    <3>1. PICK s \in SeqOf({x \in Messages : Deliverable(x)}, FetchSize) :
            /\ batch' = s
            /\ deliveries' = [x \in Messages |->
                  IF x \in Range(s) THEN Counted(deliveries[x]) ELSE deliveries[x]]
      BY <2>3 DEF Fetch
    <3>2. cuts' = cuts /\ AtHand(m) = 0  BY <1>2, <1>3, <2>3 DEF Fetch, AtHand
    <3>3. CASE m \in Range(s)
      <4>1. deliveries'[m] = Counted(deliveries[m]) /\ AtHand(m)' = 1  BY <2>1, <3>1, <3>3 DEF AtHand
      <4>2. Counted(deliveries[m]) <= deliveries[m] + 1  BY <1>3, <2>2, CountedIs
      <4>3. Counted(deliveries[m]) \in 0 .. MaxDeliver  BY <1>3, <2>2, CountedIs
      <4> QED  BY <1>2, <2>1, <2>2, <3>2, <4>1, <4>2, <4>3
    <3>4. CASE m \notin Range(s)
      <4>1. deliveries'[m] = deliveries[m] /\ AtHand(m)' = 0  BY <2>1, <3>1, <3>4 DEF AtHand
      <4> QED  BY <2>1, <3>2, <4>1
    <3> QED  BY <3>3, <3>4
  <2>4. CASE OnMessage \/ UNCHANGED <<at, batch, deliveries, cuts>>
    <3>1. UNCHANGED <<batch, deliveries, cuts>>  BY <2>4 DEF OnMessage, streamVars
    <3> QED  BY <2>1, <3>1 DEF AtHand
  <2>5. CASE Finishes
    <3>1. Range(batch) = {Head(batch)} \cup Range(Tail(batch))  BY <1>2, <2>5, RangeTail DEF Finishes
    <3>2. m # Head(batch)  BY <2>1, <2>5 DEF Finishes, CutInv
    <3>3. AtHand(m)' = AtHand(m)  BY <2>5, <3>1, <3>2 DEF Finishes, AtHand
    <3> QED  BY <2>1, <2>5, <3>3 DEF Finishes
  <2>6. CASE Leaves
    <3>1. deliveries' = deliveries /\ AtHand(m)' = 0  BY <1>3, <2>6 DEF Leaves, AtHand
    <3>2. CASE cuts' = Counted(cuts)
      <4>1. cuts' = IF cuts < MaxDeliver THEN cuts + 1 ELSE MaxDeliver  BY <1>2, <3>2, CountedIs
      <4> QED  BY <1>2, <1>3, <1>4, <2>1, <2>2, <3>1, <4>1
    <3>3. CASE at = "fetch" /\ cuts' = cuts
      <4>1. AtHand(m) = 0  BY <1>2, <1>3, <3>3 DEF AtHand
      <4> QED  BY <2>1, <3>1, <3>3, <4>1
    <3> QED  BY <2>6, <3>2, <3>3 DEF Leaves
  <2> QED  BY <1>1, <2>3, <2>4, <2>5, <2>6 DEF BatchSteps
<1> QED  BY <1>5, <1>6 DEF CutInv

(* An aggregate that JetStream gives up and that was never buffered has been, at every delivery, in a *)
(* fetch that on_message, an acknowledgement or a crash cut short: no other path of the pull loop drops it. *)
THEOREM GivenUpOnlyByCuts == Spec => []GivenUpWasCut
<1>1. TypeOK /\ CutInv => GivenUpWasCut
  <2> SUFFICES ASSUME TypeOK, CutInv, NEW m \in Messages, deliveries[m] = MaxDeliver,
                      m \notin Range(batch) \cup appended
               PROVE  cuts = MaxDeliver
    BY DEF GivenUpWasCut
  <2>1. cuts = MaxDeliver \/ deliveries[m] <= cuts  BY DEF CutInv, AtHand, TypeOK
  <2>2. cuts \in 0 .. MaxDeliver /\ MaxDeliver \in Nat  BY NatsAnalyzerAssumption DEF TypeOK
  <2> QED  BY <2>1, <2>2
<1> QED  BY <1>1, CutInit, CutNext, TypeInit, TypeNext, PTL DEF Spec

-----------------------------------------------------------------------------
(***************************************************************************)
(* Which version of a window stays.  JetStream delivers in the order of    *)
(* the stream, so of two versions delivered once the older one comes into  *)
(* the buffer first; unique keeps what comes last.                         *)
(***************************************************************************)
\* The rows of the file, then the buffer: the order in which unique sees them.
Lines == file.rows \o buffer

\* The messages at hand that are not in the buffer yet.
Ahead == IF at = "handle" THEN batch ELSE IF at = "ack" THEN Tail(batch) ELSE <<>>

Increasing(s) == \A i, j \in DOMAIN s : i < j => s[i] < s[j]

\* Messages are delivered in the order of the stream; one at hand for the first time is newer than what was buffered.
InStreamOrder ==
    /\ Increasing(batch)
    /\ \A m \in Range(batch) \cup appended : deliveries[m] > 0
    /\ \A m, n \in Messages : m < n /\ deliveries[n] > 0 => deliveries[m] > 0
    /\ \A m, n \in Messages : m < n /\ m \in Range(Ahead) /\ deliveries[m] <= 1 => n \notin appended

InLineOrder ==
    /\ NoFileNoRows
    /\ Range(Lines) \subseteq appended
    /\ \A i, j \in DOMAIN Lines :
          Key(Lines[i]) = Key(Lines[j]) /\ Lines[i] < Lines[j] /\ deliveries[Lines[i]] <= 1 => i < j
    /\ \A m, n \in Messages :
          /\ m < n /\ Key(m) = Key(n) /\ deliveries[m] <= 1
          /\ m \in Range(Lines) /\ n \in appended
          => n \in Range(Lines) \cup lost

OrderInv == InStreamOrder /\ InLineOrder

LEMMA OrderInit == Init => OrderInv
<1> SUFFICES ASSUME Init PROVE OrderInv  OBVIOUS
<1>1. batch = <<>> /\ buffer = <<>> /\ file.rows = <<>> /\ appended = {} /\ at = "fetch"
  BY DEF Init, NoFile
<1>2. Lines = <<>> /\ Ahead = <<>>
  <2>1. <<>> \o <<>> = <<>>  BY ConcatEmptySeq, EmptySeq
  <2> QED  BY <1>1, <2>1 DEF Lines, Ahead
<1>3. DOMAIN <<>> = {} /\ Range(<<>>) = {}  BY DEF Range
<1>4. \A m \in Messages : deliveries[m] = 0  BY DEF Init
<1>5. InStreamOrder
  <2>1. Increasing(batch) /\ \A m \in Range(batch) \cup appended : deliveries[m] > 0
    BY <1>1, <1>3 DEF Increasing
  <2>2. \A n \in Messages : ~(deliveries[n] > 0)  BY <1>4
  <2> QED  BY <1>1, <2>1, <2>2 DEF InStreamOrder
<1>6. InLineOrder
  <2>1. NoFileNoRows /\ Range(Lines) \subseteq appended  BY <1>1, <1>2, <1>3 DEF NoFileNoRows
  <2>2. \A i, j \in DOMAIN Lines : FALSE  BY <1>2, <1>3
  <2>3. \A m : m \notin Range(Lines)  BY <1>2, <1>3
  <2> QED  BY <2>1, <2>2, <2>3 DEF InLineOrder
<1> QED  BY <1>5, <1>6 DEF OrderInv

\* A delivery is only ever added.
LEMMA DeliveriesGrow ==
    ASSUME TypeOK, BatchSteps
    PROVE  \A m \in Messages : deliveries'[m] \in 0 .. MaxDeliver /\ deliveries[m] <= deliveries'[m]
<1>1. deliveries \in [Messages -> 0 .. MaxDeliver] /\ deliveries' \in [Messages -> 0 .. MaxDeliver] /\ MaxDeliver \in Nat
  BY BatchTyped, NatsAnalyzerAssumption DEF TypeOK
<1>2. CASE Fetch
  <2>1. PICK s : deliveries' = [x \in Messages |-> IF x \in Range(s) THEN Counted(deliveries[x]) ELSE deliveries[x]]
    BY <1>2 DEF Fetch
  <2>2. \A m \in Messages : deliveries[m] \in 0 .. MaxDeliver  BY <1>1
  <2>3. \A m \in Messages : Counted(deliveries[m]) >= deliveries[m]  BY <1>1, <2>2, CountedIs
  <2>4. \A m \in Messages : deliveries'[m] >= deliveries[m]  BY <1>1, <2>1, <2>2, <2>3
  <2> QED  BY <1>1, <2>2, <2>4
<1>3. CASE ~Fetch
  <2>1. deliveries' = deliveries  BY <1>3 DEF BatchSteps, OnMessage, Finishes, Leaves, streamVars
  <2> QED  BY <1>1, <2>1
<1> QED  BY <1>2, <1>3

\* What a fetch delivers: in order, everything older has been delivered, each message once more.
LEMMA FetchInOrder ==
    ASSUME TypeOK, InStreamOrder, Fetch
    PROVE  InStreamOrder'
<1>1. PICK s \in SeqOf({m \in Messages : Deliverable(m)}, FetchSize) :
        /\ s # <<>> /\ \A i, j \in DOMAIN s : i < j => s[i] < s[j]
        /\ \A n \in Messages \ Range(s), m \in Range(s) : deliveries[n] = 0 /\ n < m => deliveries[m] > 0
        /\ batch' = s
        /\ deliveries' = [m \in Messages |->
              IF m \in Range(s) THEN Counted(deliveries[m]) ELSE deliveries[m]]
  BY DEF Fetch
<1>2. Range(s) \subseteq Messages  BY <1>1 DEF SeqOf, Range
<1>3. /\ appended' = appended /\ appended \subseteq Messages /\ at' = "handle"
      /\ deliveries \in [Messages -> 0 .. MaxDeliver] /\ MaxDeliver \in Nat \ {0, 1}
  BY NatsAnalyzerAssumption DEF Fetch, TypeOK
<1>4. \A m \in Messages :
        /\ deliveries[m] \in 0 .. MaxDeliver
        /\ deliveries'[m] = IF m \in Range(s) THEN Counted(deliveries[m]) ELSE deliveries[m]
        /\ Counted(deliveries[m]) > 0
        /\ Counted(deliveries[m]) <= 1 => deliveries[m] = 0
  <2>1. \A k \in 0 .. MaxDeliver : Counted(k) > 0 /\ (Counted(k) <= 1 => k = 0)
    BY <1>3, CountedIs
  <2> QED  BY <1>1, <1>3, <2>1
<1>5. Increasing(batch)'  BY <1>1 DEF Increasing
<1>6. ASSUME NEW m \in Range(s) \cup appended PROVE deliveries'[m] > 0
  <2>1. m \in Messages  BY <1>2, <1>3
  <2>2. CASE m \in Range(s)  BY <1>4, <2>1, <2>2
  <2>3. CASE m \notin Range(s)
    <3>1. deliveries[m] > 0  BY <1>6, <2>3 DEF InStreamOrder
    <3> QED  BY <1>4, <2>1, <2>3, <3>1
  <2> QED  BY <2>2, <2>3
<1>7. ASSUME NEW m \in Messages, NEW n \in Messages, m < n, deliveries'[n] > 0 PROVE deliveries'[m] > 0
  <2>1. CASE m \in Range(s)  BY <1>4, <2>1
  <2>2. CASE m \notin Range(s) /\ deliveries[m] = 0
    <3>1. deliveries[n] > 0  BY <1>1, <1>4, <1>7, <2>2
    <3> QED  BY <1>7, <2>2, <3>1 DEF InStreamOrder
  <2>3. CASE m \notin Range(s) /\ deliveries[m] # 0  BY <1>4, <2>3
  <2> QED  BY <2>1, <2>2, <2>3
<1>8. ASSUME NEW m \in Messages, NEW n \in Messages, m < n, m \in Range(s), deliveries'[m] <= 1
      PROVE  n \notin appended
  <2>1. deliveries[m] = 0  BY <1>4, <1>8
  <2>2. ~(deliveries[n] > 0)  BY <1>8, <2>1 DEF InStreamOrder
  <2> QED  BY <2>2 DEF InStreamOrder
<1>9. Ahead' = s  BY <1>1, <1>3 DEF Ahead
<1> QED  BY <1>1, <1>3, <1>5, <1>6, <1>7, <1>8, <1>9 DEF InStreamOrder

LEMMA StreamOrderKept ==
    ASSUME TypeOK, InStreamOrder, BatchSteps, FileSteps
    PROVE  InStreamOrder'
<1>1. /\ batch \in Seq(Messages) /\ (at = "fetch" <=> batch = <<>>) /\ at \in {"fetch", "handle", "ack"}
      /\ appended \subseteq Messages
  BY DEF TypeOK
<1>2. CASE Fetch  BY <1>2, FetchInOrder
<1>3. CASE OnMessage
  <2>1. /\ at = "handle" /\ at' = "ack" /\ UNCHANGED <<batch, deliveries>>
        /\ appended' = appended \cup {Head(batch)}
    BY <1>3 DEF OnMessage, streamVars
  <2>2. /\ Head(batch) \in Messages /\ Tail(batch) \in Seq(Messages)
        /\ Range(batch) = {Head(batch)} \cup Range(Tail(batch))
        /\ Len(Tail(batch)) = Len(batch) - 1
    BY <1>1, <2>1, RangeTail
  <2>3. \A m \in Range(Tail(batch)) : Head(batch) < m
    <3>1. SUFFICES ASSUME NEW i \in 1 .. Len(Tail(batch)) PROVE Head(batch) < Tail(batch)[i]
      BY <2>2 DEF Range
    <3>2. Tail(batch)[i] = batch[i + 1] /\ Head(batch) = batch[1] /\ Len(batch) \in Nat
      BY <1>1, <2>1, HeadTailProperties, LenProperties
    <3>3. i \in Nat /\ i + 1 \in DOMAIN batch /\ 1 \in DOMAIN batch /\ 1 < i + 1  BY <1>1, <2>2, <3>2
    <3> QED  BY <3>2, <3>3 DEF InStreamOrder, Increasing
  <2>4. Ahead = batch /\ Ahead' = Tail(batch)  BY <2>1 DEF Ahead
  <2>5. \A m \in Messages : m \in Range(Tail(batch)) => m \in Range(batch)  BY <2>2
  <2>6. ASSUME NEW m \in Messages, NEW n \in Messages, m < n, m \in Range(Tail(batch)), deliveries[m] <= 1
        PROVE  n \notin appended \cup {Head(batch)}
    <3>1. n \notin appended  BY <2>4, <2>5, <2>6 DEF InStreamOrder
    <3>2. Head(batch) < m  BY <2>3, <2>6
    <3>3. m \in Nat /\ n \in Nat /\ Head(batch) \in Nat  BY <2>2 DEF Messages
    <3>4. n # Head(batch)  BY <2>6, <3>2, <3>3
    <3> QED  BY <3>1, <3>4
  <2>7. \A m \in Range(batch) \cup (appended \cup {Head(batch)}) : deliveries[m] > 0
    BY <2>2 DEF InStreamOrder
  <2> QED  BY <2>1, <2>4, <2>6, <2>7 DEF InStreamOrder
<1>4. CASE ~Fetch /\ ~OnMessage
  <2>1. appended' = appended /\ deliveries' = deliveries
    BY <1>4 DEF FileSteps, Writes, Fails, Corrupts, BatchSteps, Finishes, Leaves
  <2>2. CASE Finishes
    <3>1. /\ Tail(batch) \in Seq(Messages) /\ Len(Tail(batch)) = Len(batch) - 1
          /\ Range(batch) = {Head(batch)} \cup Range(Tail(batch))
      BY <1>1, <2>2, RangeTail DEF Finishes
    <3>2. Increasing(Tail(batch))
      <4>1. \A i \in 1 .. Len(Tail(batch)) : Tail(batch)[i] = batch[i + 1]
        BY <1>1, <2>2, HeadTailProperties DEF Finishes
      <4>2. ASSUME NEW i \in DOMAIN Tail(batch), NEW j \in DOMAIN Tail(batch), i < j
            PROVE  Tail(batch)[i] < Tail(batch)[j]
        <5>1. Len(batch) \in Nat  BY <1>1, LenProperties
        <5>2. i + 1 \in DOMAIN batch /\ j + 1 \in DOMAIN batch /\ i + 1 < j + 1  BY <1>1, <3>1, <4>2, <5>1
        <5>3. batch[i + 1] < batch[j + 1]  BY <5>2 DEF InStreamOrder, Increasing
        <5> QED  BY <3>1, <4>1, <5>3
      <4> QED  BY <4>2 DEF Increasing
    <3>3. Ahead = Tail(batch) /\ Range(Ahead') \subseteq Range(Tail(batch))
      BY <2>2 DEF Finishes, Ahead, Range
    <3>4. batch' = Tail(batch)  BY <2>2 DEF Finishes
    <3> QED  BY <2>1, <3>1, <3>2, <3>3, <3>4 DEF InStreamOrder
  <2>3. CASE Leaves
    <3>1. batch' = <<>> /\ Ahead' = <<>>  BY <2>3 DEF Leaves, Ahead
    <3>2. Increasing(<<>>) /\ Range(<<>>) = {}  BY DEF Increasing, Range
    <3> QED  BY <2>1, <3>1, <3>2 DEF InStreamOrder
  <2>4. CASE UNCHANGED <<at, batch, deliveries, cuts>>
    <3>1. Ahead' = Ahead /\ batch' = batch  BY <2>4 DEF Ahead
    <3> QED  BY <2>1, <3>1 DEF InStreamOrder
  <2> QED  BY <1>4, <2>2, <2>3, <2>4 DEF BatchSteps
<1> QED  BY <1>2, <1>3, <1>4

\* After a merge a key has one row, and that one was its last.
LEMMA MergeInOrder ==
    ASSUME TypeOK, InLineOrder, Writes, file.type # "none", UNCHANGED <<stream>>,
           \A m \in Messages : deliveries'[m] \in Nat /\ deliveries[m] \in Nat /\ deliveries[m] <= deliveries'[m]
    PROVE  InLineOrder'
<1> DEFINE left == Unique(Lines)
<1>1. /\ buffer \in Seq(Messages) /\ file.rows \in Seq(Messages) /\ appended \subseteq Messages
      /\ \A r : Key(r)' = Key(r)
  BY DEF TypeOK, Key
<1>2. Lines \in Seq(Messages)  BY <1>1, ConcatProperties DEF Lines
<1>3. /\ left \in Seq(Messages)
      /\ \A m \in Range(left) : \E j \in DOMAIN Lines :
             Lines[j] = m /\ \A i \in DOMAIN Lines : j < i => Key(Lines[i]) # Key(m)
      /\ \A m \in Range(Lines) : \E r \in Range(left) : Key(r) = Key(m)
      /\ \A i, j \in DOMAIN left : Key(left[i]) = Key(left[j]) => i = j
  BY <1>2, UniqueKeeps
<1>4. /\ file'.rows = left /\ file'.type # "none" /\ buffer' = <<>>
      /\ lost' = lost /\ appended' = appended
  <2>1. Merged.rows = left /\ Merged.type # "none"  BY MergedRows DEF Lines
  <2> QED  BY <2>1 DEF Writes
<1> HIDE DEF left
<1>5. Lines' = left  BY <1>3, <1>4, ConcatEmptySeq DEF Lines
<1>6. NoFileNoRows'  BY <1>4 DEF NoFileNoRows
<1>7. \A m \in Range(left) : m \in Range(Lines)  BY <1>3 DEF Range
<1>8. \A m \in Range(left) : m \in appended'  BY <1>4, <1>7 DEF InLineOrder
<1>9. ASSUME NEW i \in DOMAIN left, NEW j \in DOMAIN left, Key(left[i]) = Key(left[j]), left[i] < left[j]
      PROVE  i < j
  <2>1. i = j  BY <1>3, <1>9
  <2>2. left[i] \in Messages  BY <1>3
  <2> QED  BY <1>9, <2>1, <2>2 DEF Messages
<1>10. ASSUME NEW m \in Messages, NEW n \in Messages, m < n, Key(m) = Key(n), deliveries'[m] <= 1,
              m \in Range(left), n \in appended
       PROVE  n \in lost
  <2>1. PICK j \in DOMAIN Lines : Lines[j] = m /\ \A i \in DOMAIN Lines : j < i => Key(Lines[i]) # Key(m)
    BY <1>3, <1>10
  <2>2. deliveries[m] <= 1  BY <1>10
  <2>3. ASSUME n \in Range(Lines) PROVE FALSE
    <3>1. PICK i \in DOMAIN Lines : Lines[i] = n  BY <2>3 DEF Range
    <3>2. j < i  BY <1>10, <2>1, <2>2, <3>1 DEF InLineOrder
    <3> QED  BY <1>10, <2>1, <3>1, <3>2
  <2>4. m \in Range(Lines)  BY <1>7, <1>10
  <2> QED  BY <1>10, <2>2, <2>3, <2>4 DEF InLineOrder
<1> QED  BY <1>1, <1>4, <1>5, <1>6, <1>8, <1>9, <1>10 DEF InLineOrder

LEMMA LineOrderKept ==
    ASSUME TypeOK, OrderInv, FileSteps, UNCHANGED stream,
           \A m \in Messages : deliveries'[m] \in Nat /\ deliveries[m] \in Nat /\ deliveries[m] <= deliveries'[m]
    PROVE  InLineOrder'
<1>1. /\ buffer \in Seq(Messages) /\ file.rows \in Seq(Messages) /\ appended \subseteq Messages
      /\ batch \in Seq(Messages) /\ (at = "fetch" <=> batch = <<>>)
      /\ \A r : Key(r)' = Key(r)
  BY DEF TypeOK, Key
<1>2. Lines \in Seq(Messages) /\ Len(Lines) \in Nat /\ Range(Lines) = Range(file.rows) \cup Range(buffer)
  BY <1>1, ConcatProperties, LenProperties, RangeConcat DEF Lines
<1>3. NoFileNoRows'  BY NoFileNoRowsKept DEF OrderInv, InLineOrder
<1>4. \A i \in DOMAIN Lines : Lines[i] \in Messages  BY <1>2
<1>5. ASSUME Lines' = Lines, UNCHANGED <<lost, appended>> PROVE InLineOrder'
  BY <1>1, <1>3, <1>4, <1>5 DEF OrderInv, InLineOrder
<1>6. CASE Writes /\ file.type # "none"  BY <1>6, MergeInOrder DEF OrderInv
<1>7. CASE Writes /\ file.type = "none"
  <2>1. file'.rows = buffer /\ file.rows = <<>> /\ buffer' = <<>>
    BY <1>7, MergedRows DEF Writes, OrderInv, InLineOrder, NoFileNoRows
  <2>2. Lines' = buffer /\ Lines = buffer  BY <1>1, <2>1, ConcatEmptySeq DEF Lines
  <2> QED  BY <1>5, <1>7, <2>2 DEF Writes
<1>8. CASE Fails
  <2>1. file'.rows = file.rows /\ buffer' = <<>> /\ appended' = appended /\ lost' = lost \cup Range(buffer)
    BY <1>8 DEF Fails
  <2>2. Lines' = file.rows  BY <1>1, <2>1, ConcatEmptySeq DEF Lines
  <2>3. \A i \in DOMAIN file.rows : i \in DOMAIN Lines /\ Lines[i] = file.rows[i]
    BY <1>1, ConcatProperties, LenProperties DEF Lines
  <2>4. Range(Lines') \subseteq appended'  BY <1>2, <2>1, <2>2 DEF OrderInv, InLineOrder
  <2>5. ASSUME NEW i \in DOMAIN file.rows, NEW j \in DOMAIN file.rows,
               Key(file.rows[i]) = Key(file.rows[j]), file.rows[i] < file.rows[j],
               deliveries'[file.rows[i]] <= 1
        PROVE  i < j
    <3>1. file.rows[i] \in Messages  BY <1>1
    <3>2. deliveries[file.rows[i]] <= 1  BY <2>5, <3>1
    <3> QED  BY <2>3, <2>5, <3>2 DEF OrderInv, InLineOrder
  <2>6. ASSUME NEW m \in Messages, NEW n \in Messages, m < n, Key(m) = Key(n), deliveries'[m] <= 1,
               m \in Range(file.rows), n \in appended
        PROVE  n \in Range(file.rows) \cup lost'
    <3>1. deliveries[m] <= 1  BY <2>6
    <3>2. n \in Range(Lines) \cup lost  BY <1>2, <2>6, <3>1 DEF OrderInv, InLineOrder
    <3> QED  BY <1>2, <2>1, <3>2
  <2> QED  BY <1>1, <1>3, <2>1, <2>2, <2>4, <2>5, <2>6 DEF InLineOrder
<1>9. CASE Corrupts
  <2>1. Lines' = <<>>
    <3>1. <<>> \o <<>> = <<>>  BY ConcatEmptySeq, EmptySeq
    <3> QED  BY <1>9, <3>1 DEF Corrupts, Lines
  <2>2. DOMAIN <<>> = {} /\ Range(<<>>) = {}  BY DEF Range
  <2>3. \A i \in DOMAIN Lines' : FALSE  BY <2>1, <2>2
  <2>4. \A m : m \notin Range(Lines')  BY <2>1, <2>2
  <2> QED  BY <1>3, <2>3, <2>4 DEF InLineOrder
<1>10. CASE OnMessage
  <2> DEFINE h == Head(batch)
  <2>1. /\ batch # <<>> /\ at = "handle" /\ buffer' = Append(buffer, h) /\ UNCHANGED <<file, lost>>
        /\ appended' = appended \cup {h}
    BY <1>1, <1>10 DEF OnMessage
  <2>2. h \in Messages /\ h \in Range(Ahead)  BY <1>1, <2>1, RangeTail DEF Ahead
  <2> HIDE DEF h
  <2>3. Lines' = Append(Lines, h)
    <3>1. Lines' = file.rows \o Append(buffer, h)  BY <2>1 DEF Lines
    <3>2. Append(buffer, h) = buffer \o <<h>> /\ Append(Lines, h) = Lines \o <<h>>
      BY <1>1, <1>2, <2>2, AppendIsConcat
    <3>3. <<h>> \in Seq(Messages)  BY <2>2
    <3>4. (file.rows \o buffer) \o <<h>> = file.rows \o (buffer \o <<h>>)
      <4> DEFINE rows == file.rows
      <4>1. rows \in Seq(Messages)  BY <1>1
      <4> HIDE DEF rows
      <4>2. (rows \o buffer) \o <<h>> = rows \o (buffer \o <<h>>)  BY <1>1, <3>3, <4>1, ConcatAssociative
      <4> QED  BY <4>2 DEF rows
    <3> QED  BY <3>1, <3>2, <3>4 DEF Lines
  <2>4. Range(Lines') = Range(Lines) \cup {h}  BY <1>2, <2>2, <2>3, RangeAppend
  <2>5. /\ DOMAIN Lines' = 1 .. Len(Lines) + 1
        /\ \A i \in DOMAIN Lines' : \/ i \in DOMAIN Lines /\ Lines'[i] = Lines[i]
                                    \/ i = Len(Lines) + 1 /\ Lines'[i] = h
    <3>1. /\ Lines' \in Seq(Messages) /\ Len(Lines') = Len(Lines) + 1
          /\ \A i \in 1 .. Len(Lines) : Lines'[i] = Lines[i]
          /\ Lines'[Len(Lines) + 1] = h
      <4> DEFINE lines == Lines
      <4>1. lines \in Seq(Messages)  BY <1>2
      <4> HIDE DEF lines
      <4>2. /\ Append(lines, h) \in Seq(Messages) /\ Len(Append(lines, h)) = Len(lines) + 1
            /\ \A i \in 1 .. Len(lines) : Append(lines, h)[i] = lines[i]
            /\ Append(lines, h)[Len(lines) + 1] = h
        BY <2>2, <4>1, AppendProperties
      <4> QED  BY <2>3, <4>2 DEF lines
    <3>2. DOMAIN Lines' = 1 .. Len(Lines) + 1 /\ DOMAIN Lines = 1 .. Len(Lines)  BY <1>2, <3>1
    <3> QED  BY <1>2, <3>1, <3>2
  <2>6. ASSUME NEW n \in appended, h < n, deliveries'[h] <= 1 PROVE FALSE
    <3>1. deliveries[h] <= 1 /\ n \in Messages  BY <1>1, <2>2, <2>6
    <3> QED  BY <2>2, <2>6, <3>1 DEF OrderInv, InStreamOrder
  <2>7. ASSUME NEW i \in DOMAIN Lines', NEW j \in DOMAIN Lines',
               Key(Lines'[i]) = Key(Lines'[j]), Lines'[i] < Lines'[j], deliveries'[Lines'[i]] <= 1
        PROVE  i < j
    <3>1. CASE i \in DOMAIN Lines /\ Lines'[i] = Lines[i] /\ j \in DOMAIN Lines /\ Lines'[j] = Lines[j]
      <4>1. Lines[i] \in Messages  BY <1>4, <3>1
      <4>2. deliveries[Lines[i]] <= 1  BY <2>7, <3>1, <4>1
      <4> QED  BY <2>7, <3>1, <4>2 DEF OrderInv, InLineOrder
    <3>2. CASE i \in DOMAIN Lines /\ j = Len(Lines) + 1  BY <1>2, <3>2
    <3>3. CASE Lines'[i] = h /\ j \in DOMAIN Lines /\ Lines'[j] = Lines[j]
      <4>1. Lines[j] \in appended  BY <3>3 DEF OrderInv, InLineOrder, Range
      <4> QED  BY <2>6, <2>7, <3>3, <4>1
    <3>4. CASE Lines'[i] = h /\ Lines'[j] = h  BY <2>2, <2>7, <3>4 DEF Messages
    <3> QED  BY <2>5, <3>1, <3>2, <3>3, <3>4
  <2>8. ASSUME NEW m \in Messages, NEW n \in Messages, m < n, Key(m) = Key(n), deliveries'[m] <= 1,
               m \in Range(Lines'), n \in appended'
        PROVE  n \in Range(Lines') \cup lost'
    <3>1. CASE n = h  BY <2>4, <3>1
    <3>2. CASE n # h /\ m = h  BY <2>1, <2>6, <2>8, <3>2
    <3>3. CASE n # h /\ m # h
      <4>1. deliveries[m] <= 1 /\ m \in Range(Lines) /\ n \in appended  BY <2>1, <2>4, <2>8, <3>3
      <4> QED  BY <2>1, <2>4, <2>8, <4>1 DEF OrderInv, InLineOrder
    <3> QED  BY <3>1, <3>2, <3>3
  <2>9. Range(Lines') \subseteq appended'  BY <2>1, <2>4 DEF OrderInv, InLineOrder
  <2> QED  BY <1>1, <1>3, <2>7, <2>8, <2>9 DEF InLineOrder
<1>11. CASE UNCHANGED <<buffer, file, lost, appended>>
  BY <1>5, <1>11 DEF Lines
<1> QED  BY <1>6, <1>7, <1>8, <1>9, <1>10, <1>11 DEF FileSteps

LEMMA OrderNext == TypeOK /\ OrderInv /\ [Next]_vars => OrderInv'
<1> SUFFICES ASSUME TypeOK, OrderInv, [Next]_vars PROVE OrderInv'  OBVIOUS
<1>1. FileSteps /\ BatchSteps /\ UNCHANGED stream
  BY FileChanges, BatchChanges, GivenKept DEF given
<1>2. \A m \in Messages : deliveries'[m] \in Nat /\ deliveries[m] \in Nat /\ deliveries[m] <= deliveries'[m]
  <2>1. \A m \in Messages : deliveries[m] \in Nat  BY DEF TypeOK
  <2> QED  BY <1>1, <2>1, DeliveriesGrow
<1>3. InStreamOrder'  BY <1>1, StreamOrderKept DEF OrderInv
<1>4. InLineOrder'  BY <1>1, <1>2, LineOrderKept
<1> QED  BY <1>3, <1>4 DEF OrderInv

(* Where the file shows an older version of a window although a newer one was buffered and not lost, *)
(* the older one was delivered again: keep="last" and the order of the deliveries do the rest. *)
THEOREM NewestVersionWins == Spec => []NewestWins
<1>1. TypeOK /\ OrderInv => NewestWins
  <2> SUFFICES ASSUME TypeOK, OrderInv, NEW m \in Messages, NEW n \in Messages,
                      m < n, Key(m) = Key(n), m \in Range(file.rows),
                      n \in appended \ (Range(buffer) \cup Range(file.rows) \cup lost)
               PROVE  deliveries[m] > 1
    BY DEF NewestWins
  <2>1. Range(Lines) = Range(file.rows) \cup Range(buffer)  BY RangeConcat DEF Lines, TypeOK
  <2>2. ~(deliveries[m] <= 1)  BY <2>1 DEF OrderInv, InLineOrder
  <2>3. deliveries[m] \in Nat  BY DEF TypeOK
  <2> QED  BY <2>2, <2>3
<1> QED  BY <1>1, OrderInit, OrderNext, TypeInit, TypeNext, PTL DEF Spec
=============================================================================
