---------------------------- MODULE AlerterProofs ----------------------------
(***************************************************************************)
(* What holds of Alerter for all products, ratings, numbers of windows and *)
(* durations.                                                              *)
(***************************************************************************)
EXTENDS Alerter, FiniteSetTheorems, TLAPS

-----------------------------------------------------------------------------
(* The messages of a check *)

AlertRecords == [product : Products, condition : Conditions]

LEMMA AlertsFinite ==
    ASSUME NEW S \in SUBSET Products
    PROVE  IsFiniteSet(AlertsFor(S)) /\ AlertsFor(S) \subseteq AlertRecords
<1> DEFINE f == [a \in AlertRecords |-> <<a.product, a.condition>>]
<1>1. IsFiniteSet(Conditions)
  <2>1. IsFiniteSet({"rating"})  BY FS_Singleton
  <2>2. IsFiniteSet({"rating"} \cup {"negative"})  BY <2>1, FS_AddElement
  <2>3. Conditions = {"rating"} \cup {"negative"}  BY DEF Conditions
  <2> QED  BY <2>2, <2>3
<1>2. IsFiniteSet(Products \X Conditions)  BY <1>1, FS_Product, AlerterAssumption
<1>3. f \in Injection(AlertRecords, Products \X Conditions)
  <2>1. f \in [AlertRecords -> Products \X Conditions]  BY DEF AlertRecords
  <2>2. \A a, b \in AlertRecords : f[a] = f[b] => a = b  BY DEF AlertRecords
  <2> QED  BY <2>1, <2>2 DEF Injection, IsInjective
<1>4. IsFiniteSet(AlertRecords)
  <2> HIDE DEF f
  <2> QED  BY <1>2, <1>3, FS_Injection
<1>5. AlertsFor(S) \subseteq AlertRecords  BY DEF AlertsFor, AlertRecords
<1> QED  BY <1>4, <1>5, FS_Subset

LEMMA TextsAreAlerts ==
    ASSUME NEW S \in SUBSET Products, NEW s \in Texts(S)
    PROVE  /\ s \in Seq(AlertRecords)
           /\ \A n \in DOMAIN s : s[n].product \in S
           /\ (\E p \in S : Anomalies(p) # {}) => s # <<>>
<1> DEFINE n == Cardinality(AlertsFor(S))
<1>1. n \in Nat  BY AlertsFinite, FS_CardinalityType
<1>2. s \in [1 .. n -> AlertsFor(S)]  BY DEF Texts, SetToSeqs
<1>3. s \in Seq(AlertRecords)
  <2> HIDE DEF n
  <2> QED  BY <1>1, <1>2, AlertsFinite
<1>4. \A k \in DOMAIN s : s[k].product \in S
  <2>1. \A a \in AlertsFor(S) : a.product \in S  BY DEF AlertsFor
  <2> QED  BY <1>2, <2>1
<1>5. ASSUME NEW p \in S, Anomalies(p) # {} PROVE s # <<>>
  <2>1. PICK c \in Conditions : c \in Anomalies(p)  BY <1>5 DEF Anomalies
  <2>2. [product |-> p, condition |-> c] \in AlertsFor(S)  BY <2>1 DEF AlertsFor
  <2>3. n # 0  BY <2>2, AlertsFinite, FS_EmptySet
  <2>4. 1 \in DOMAIN s
    <3> HIDE DEF n
    <3> QED  BY <1>1, <1>2, <2>3
  <2> QED  BY <2>4
<1> QED  BY <1>3, <1>4, <1>5

(* All windows of a bad product are negative: a check finds an anomaly. *)
LEMMA BadIsAnomaly ==
    ASSUME NEW p \in Products, Group(p) # {}, \A i \in Group(p) : win[i].rating < 3
    PROVE  Anomalies(p) # {}
<1> DEFINE negative == {i \in Group(p) : win[i].rating < 3}
           n == Cardinality(Group(p))
<1>1. negative = Group(p)  OBVIOUS
<1>2. Group(p) \subseteq Slots  BY DEF Group
<1>3. IsFiniteSet(Group(p))  BY <1>2, FS_Subset, AlerterAssumption
<1>4. n \in Nat /\ n # 0  BY <1>3, FS_CardinalityType, FS_EmptySet
<1>5. 10 * Cardinality(negative) > 3 * n
  <2>1. Cardinality(negative) = n  BY <1>1
  <2> HIDE DEF n, negative
  <2> QED  BY <1>4, <2>1
<1>6. "negative" \in Anomalies(p)  BY <1>5 DEF Anomalies, Conditions
<1> QED  BY <1>6

-----------------------------------------------------------------------------
(* Type correctness, and where the thread is when it has something to send *)

Placed ==
    /\ TypeOK
    /\ at = "check" => spent = 0
    /\ at = "wait" => spent <= 1
    /\ at = "send" => outbox # <<>> /\ spent <= Sending
    /\ \A i \in Slots : win[i] # None => win[i].rating \in RatingsOf[win[i].product]

LEMMA TailType ==
    ASSUME NEW T, NEW s \in Seq(T), s # <<>>
    PROVE  Tail(s) \in Seq(T) /\ (Len(s) > 1 => Tail(s) # <<>>)
<1>1. Tail(s) \in Seq(T)  OBVIOUS
<1>2. Len(Tail(s)) = Len(s) - 1 /\ Len(s) \in Nat  OBVIOUS
<1>3. Len(<<>>) = 0  OBVIOUS
<1>4. ASSUME Len(s) > 1, Tail(s) = <<>> PROVE FALSE
  <2> DEFINE n == Len(s)
             m == Len(Tail(s))
  <2>1. m = 0  BY <1>3, <1>4
  <2>2. n > 1 /\ m = n - 1 /\ n \in Nat  BY <1>2, <1>4
  <2> HIDE DEF n, m
  <2> QED  BY <2>1, <2>2
<1> QED  BY <1>1, <1>4

LEMMA WindowDrained ==
    ASSUME NEW w \in WindowRecords, NEW a \in 0 .. 2, NEW v,
           v = [w EXCEPT !.place = "buffer", !.alerts = a]
    PROVE  /\ v \in WindowRecords /\ v.place = "buffer" /\ v.alerts = a
           /\ v.product = w.product /\ v.age = w.age /\ v.rating = w.rating /\ v.ready = w.ready
BY DEF WindowRecords

LEMMA WindowAged ==
    ASSUME NEW w \in WindowRecords, NEW v, v = [w EXCEPT !.age = @ + 1]
    PROVE  /\ v \in WindowRecords /\ v.ready = w.ready /\ v.alerts = w.alerts
           /\ v.product = w.product /\ v.age = w.age + 1 /\ v.rating = w.rating
BY DEF WindowRecords

LEMMA AlertedType ==
    ASSUME NEW T, NEW s \in Seq([product : T, condition : Conditions])
    PROVE  /\ \A n \in DOMAIN s : s[n].product \in T
           /\ s # <<>> => 1 \in DOMAIN s
<1> DEFINE R == [product : T, condition : Conditions]
<1>1. \A r \in R : r.product \in T  OBVIOUS
<1> HIDE DEF R
<1>2. s \in Seq(R)  BY DEF R
<1>3. \A n \in DOMAIN s : s[n] \in R  BY <1>2
<1>4. s # <<>> => 1 \in DOMAIN s  BY <1>2
<1> QED  BY <1>1, <1>3, <1>4

LEMMA PlacedInit == Init => Placed
<1> SUFFICES ASSUME Init PROVE Placed  OBVIOUS
<1>1. outbox \in Seq([product : Products, condition : Conditions])  BY DEF Init
<1>2. win \in [Slots -> WindowRecords \cup {None}]  BY DEF Init
<1> QED  BY <1>1, <1>2, AlerterAssumption DEF Init, Placed, TypeOK

LEMMA PlacedNext == Placed /\ [Next]_vars => Placed'
<1> SUFFICES ASSUME Placed, [Next]_vars PROVE Placed'  OBVIOUS
<1> USE DEF Placed, TypeOK
<1>1. ASSUME NEW i \in Slots, NEW p \in Products, NEW r \in RatingsOf[p], NEW a \in Ages, Put(i, p, r, a) PROVE Placed'
  <2> DEFINE w == [place |-> "queue", product |-> p, age |-> a, rating |-> r,
                   ready |-> a + (IF cooling[p] > 0 THEN cooling[p] ELSE 1), alerts |-> 0]
  <2>1. w \in WindowRecords /\ w.age <= Window /\ w.rating \in RatingsOf[w.product]
    BY AlerterAssumption DEF WindowRecords
  <2>2. win' = [win EXCEPT ![i] = w]  BY <1>1 DEF Put
  <2>3. UNCHANGED <<cooling, outbox, at, spent, told>>  BY <1>1 DEF Put
  <2> HIDE DEF w
  <2>4. win' \in [Slots -> WindowRecords \cup {None}]  BY <2>1, <2>2
  <2>5. \A j \in Slots : win'[j] # None =>
            win'[j].age <= Window /\ win'[j].rating \in RatingsOf[win'[j].product]
    BY <2>1, <2>2
  <2> QED  BY <2>3, <2>4, <2>5
<1>2. CASE Check
  <2> DEFINE S == {p \in Products : cooling[p] = 0 /\ Anomalies(p) # {}}
  <2>1. win' = Drained(S) /\ outbox' \in Texts(S)  BY <1>2 DEF Check
  <2>2. cooling' = [p \in Products |-> IF p \in S THEN Cooldown ELSE cooling[p]]  BY <1>2 DEF Check
  <2>3. at' = (IF S = {} THEN "wait" ELSE "send") /\ spent' = 0 /\ told' = told  BY <1>2 DEF Check
  <2>4. S \in SUBSET Products /\ \A p \in S : Anomalies(p) # {}  OBVIOUS
  <2> HIDE DEF S
  <2>5. outbox' \in Seq(AlertRecords) /\ (S # {} => outbox' # <<>>)  BY <2>1, <2>4, TextsAreAlerts
  <2>6. cooling' \in [Products -> 0 .. Cooldown]  BY <2>2, AlerterAssumption
  <2>7. ASSUME NEW i \in Slots
        PROVE  /\ win'[i] \in WindowRecords \cup {None}
               /\ win'[i] # None => /\ win'[i].age <= Window
                                    /\ win'[i].rating \in RatingsOf[win'[i].product]
    <3>1. CASE win[i] = None  BY <2>1, <3>1 DEF Drained
    <3>2. CASE win[i] # None
      <4>1. win[i] \in WindowRecords  BY <3>2
      <4> DEFINE a == IF win[i].product \in S THEN UpTo(2, win[i].alerts) ELSE win[i].alerts
      <4>2. win'[i] = [win[i] EXCEPT !.place = "buffer", !.alerts = a]
        BY <2>1, <3>2 DEF Drained
      <4>3. a \in 0 .. 2  BY <4>1 DEF WindowRecords, UpTo
      <4> HIDE DEF a
      <4>4. /\ win'[i] \in WindowRecords /\ win'[i].age = win[i].age
            /\ win'[i].product = win[i].product /\ win'[i].rating = win[i].rating
        <5> DEFINE w == win[i]
                   v == win'[i]
        <5>1. w \in WindowRecords /\ v = [w EXCEPT !.place = "buffer", !.alerts = a]  BY <4>1, <4>2
        <5> HIDE DEF w, v
        <5>2. v \in WindowRecords /\ v.age = w.age /\ v.product = w.product /\ v.rating = w.rating
          BY <5>1, <4>3 DEF WindowRecords
        <5> QED  BY <5>2 DEF w, v
      <4> QED  BY <3>2, <4>4
    <3> QED  BY <3>1, <3>2
  <2>8. win' \in [Slots -> WindowRecords \cup {None}]
    <3>1. win' = [i \in Slots |-> win'[i]]  BY <2>1 DEF Drained
    <3> QED  BY <2>7, <3>1
  <2>9. /\ spent' \in 0 .. Sending + 1 /\ spent' <= 1 /\ spent' <= Sending
        /\ at' \in {"send", "wait"} /\ (at' = "send" => S # {})
    BY <2>3, AlerterAssumption
  <2>10. told' \in [Products -> 0 .. Cooldown]  BY <2>3
  <2> QED  BY <2>5, <2>6, <2>7, <2>8, <2>9, <2>10 DEF AlertRecords
<1>3. ASSUME SendEnds, UNCHANGED told \/ \E p \in Products : told' = [told EXCEPT ![p] = 0]
      PROVE  Placed'
  <2>1. at = "send" /\ outbox # <<>> /\ outbox' = Tail(outbox)  BY <1>3 DEF SendEnds
  <2>2. /\ outbox' \in Seq([product : Products, condition : Conditions])
        /\ Len(outbox) > 1 => outbox' # <<>>
    BY <2>1, TailType
  <2>5. at' = "send" => outbox' # <<>>  BY <1>3, <2>2 DEF SendEnds
  <2>3. told' \in [Products -> 0 .. Cooldown]
    <3>1. 0 \in 0 .. Cooldown  BY AlerterAssumption
    <3>2. CASE UNCHANGED told  BY <3>2
    <3>3. ASSUME NEW p \in Products, told' = [told EXCEPT ![p] = 0]
          PROVE  told' \in [Products -> 0 .. Cooldown]
      BY <3>1, <3>3
    <3> QED  BY <1>3, <3>2, <3>3
  <2>4. /\ UNCHANGED <<win, cooling>> /\ at' \in {"send", "wait"} /\ spent' \in 0 .. Sending + 1
        /\ at' = "wait" => spent' <= 1
        /\ at' = "send" => spent' <= Sending
    BY <1>3, AlerterAssumption DEF SendEnds
  <2> QED  BY <2>2, <2>3, <2>4, <2>5
<1>4. CASE Wake  BY <1>4, AlerterAssumption DEF Wake
<1>5. CASE Tick
  <2>1. /\ Passes /\ spent' = spent + 1 /\ win' = Aged /\ UNCHANGED <<outbox, at>>
        /\ cooling' = [p \in Products |-> IF cooling[p] > 0 THEN cooling[p] - 1 ELSE 0]
        /\ told' = [p \in Products |-> UpTo(Cooldown, told[p])]
    BY <1>5 DEF Tick
  <2>2. cooling' \in [Products -> 0 .. Cooldown] /\ told' \in [Products -> 0 .. Cooldown]
    BY <2>1, AlerterAssumption DEF UpTo
  <2>3. ASSUME NEW i \in Slots
        PROVE  /\ win'[i] \in WindowRecords \cup {None}
               /\ win'[i] # None => /\ win'[i].age <= Window
                                    /\ win'[i].rating \in RatingsOf[win'[i].product]
    <3>1. CASE win[i] = None \/ win[i].age = Window  BY <2>1, <3>1 DEF Aged
    <3>2. CASE win[i] # None /\ win[i].age # Window
      <4>1. win[i] \in WindowRecords  BY <3>2
      <4>2. win'[i] = [win[i] EXCEPT !.age = @ + 1]  BY <2>1, <3>2 DEF Aged
      <4>3. win[i].age \in Nat /\ win[i].age <= Window  BY <3>2, <4>1 DEF WindowRecords
      <4>4. win[i].age + 1 <= Window  BY <3>2, <4>3, AlerterAssumption
      <4>5. /\ win'[i] \in WindowRecords /\ win'[i].age = win[i].age + 1
            /\ win'[i].product = win[i].product /\ win'[i].rating = win[i].rating
        BY <4>1, <4>2, WindowAged
      <4> QED  BY <3>2, <4>4, <4>5
    <3> QED  BY <3>1, <3>2
  <2>4. win' \in [Slots -> WindowRecords \cup {None}]
    <3>1. win' = [i \in Slots |-> win'[i]]  BY <2>1 DEF Aged
    <3> QED  BY <2>3, <3>1
  <2>5. /\ spent' \in 0 .. Sending + 1
        /\ at # "check"
        /\ at = "wait" => spent' <= 1
        /\ at = "send" => spent' <= Sending
    BY <2>1, AlerterAssumption DEF Passes
  <2> QED  BY <2>1, <2>2, <2>3, <2>4, <2>5
<1>6. CASE UNCHANGED vars  BY <1>6 DEF vars
<1> QED  BY <1>1, <1>2, <1>3, <1>4, <1>5, <1>6 DEF Next, SendOk, SendFails

LEMMA PlacedAlways == Spec => []Placed
BY PlacedInit, PlacedNext, PTL DEF Spec

(* Type correctness. *)
THEOREM TypeCorrect == Spec => []TypeOK
<1>1. Placed => TypeOK  BY DEF Placed
<1> QED  BY <1>1, PlacedAlways, PTL

-----------------------------------------------------------------------------
(* The cooldown counts from the check *)

(***************************************************************************)
(* A cooldown has at most the sending less to go than the time since the   *)
(* last message; while a product is among the messages of a check its      *)
(* cooldown has just begun, and the last message is that old or of now.    *)
(***************************************************************************)
Spaced ==
    /\ \A p \in Products : cooling[p] + told[p] >= Cooldown - Sending
    /\ at = "send" => \A n \in DOMAIN outbox :
           LET p == outbox[n].product
           IN  /\ cooling[p] >= Cooldown - spent
               /\ told[p] >= Cooldown - Sending \/ told[p] <= spent

LEMMA SpacedNext == Placed /\ Spaced /\ [Next]_vars => Spaced'
<1> SUFFICES ASSUME Placed, Spaced, [Next]_vars PROVE Spaced'  OBVIOUS
<1>0. /\ cooling \in [Products -> 0 .. Cooldown] /\ told \in [Products -> 0 .. Cooldown]
      /\ spent \in 0 .. Sending + 1 /\ Cooldown \in Nat \ {0}
      /\ Sending \in Nat /\ (at = "send" => spent <= Sending)
      /\ outbox \in Seq([product : Products, condition : Conditions])
  BY AlerterAssumption DEF Placed, TypeOK
<1>00. (\A n \in DOMAIN outbox : outbox[n].product \in Products) /\ (outbox # <<>> => 1 \in DOMAIN outbox)
  BY <1>0, AlertedType
<1>1. ASSUME UNCHANGED <<cooling, told, outbox, at, spent>> PROVE Spaced'
  BY <1>1 DEF Spaced
<1>2. CASE Check
  <2> DEFINE S == {p \in Products : cooling[p] = 0 /\ Anomalies(p) # {}}
  <2>1. outbox' \in Texts(S) /\ spent' = 0 /\ told' = told  BY <1>2 DEF Check
  <2>2. cooling' = [p \in Products |-> IF p \in S THEN Cooldown ELSE cooling[p]]  BY <1>2 DEF Check
  <2>3. S \in SUBSET Products /\ \A p \in S : cooling[p] = 0  OBVIOUS
  <2> HIDE DEF S
  <2>4. \A n \in DOMAIN outbox' : outbox'[n].product \in S  BY <2>1, <2>3, TextsAreAlerts
  <2>5. \A p \in Products : cooling'[p] + told'[p] >= Cooldown - Sending
    BY <1>0, <2>1, <2>2, <2>3 DEF Spaced
  <2>6. \A p \in S : cooling'[p] = Cooldown /\ told'[p] >= Cooldown - Sending
    BY <1>0, <2>1, <2>2, <2>3 DEF Spaced
  <2>7. \A p \in S : cooling'[p] >= Cooldown - spent'
    BY <1>0, <2>1, <2>6
  <2> QED  BY <2>4, <2>5, <2>6, <2>7 DEF Spaced
<1>3. ASSUME SendEnds, NEW q \in Products, UNCHANGED told \/ (outbox[1].product = q /\ told' = [told EXCEPT ![q] = 0])
      PROVE  Spaced'
  <2>1. at = "send" /\ outbox # <<>> /\ outbox' = Tail(outbox) /\ cooling' = cooling
    BY <1>3 DEF SendEnds, Placed
  <2>2. at' = "send" => spent' = spent  BY <1>3 DEF SendEnds
  <2>3. \A n \in DOMAIN outbox' : n + 1 \in DOMAIN outbox /\ outbox'[n] = outbox[n + 1]
    BY <1>0, <2>1
  <2>4. 1 \in DOMAIN outbox  BY <1>0, <2>1
  <2>5. told' # told => cooling[q] >= Cooldown - spent
    BY <1>3, <2>1, <2>4 DEF Spaced
  <2>6. \A p \in Products : told'[p] = told[p] \/ (p = q /\ told'[p] = 0 /\ told' # told)
    BY <1>0, <1>3
  <2>7. \A p \in Products : cooling'[p] + told'[p] >= Cooldown - Sending
    <3> TAKE p \in Products
    <3>1. CASE told'[p] = told[p]  BY <2>1, <3>1 DEF Spaced
    <3>2. CASE p = q /\ told'[p] = 0 /\ told' # told  BY <1>0, <2>1, <2>5, <3>2
    <3> QED  BY <2>6, <3>1, <3>2
  <2>8. ASSUME at' = "send", NEW n \in DOMAIN outbox'
        PROVE  LET p == outbox'[n].product
               IN  /\ cooling'[p] >= Cooldown - spent'
                   /\ told'[p] >= Cooldown - Sending \/ told'[p] <= spent'
    <3> DEFINE p == outbox'[n].product
    <3>1. n + 1 \in DOMAIN outbox /\ p = outbox[n + 1].product /\ p \in Products
      BY <1>00, <2>3, <2>8
    <3>2. cooling[p] >= Cooldown - spent /\ (told[p] >= Cooldown - Sending \/ told[p] <= spent)
      BY <2>1, <3>1 DEF Spaced
    <3> HIDE DEF p
    <3>3. told'[p] >= Cooldown - Sending \/ told'[p] <= spent'
      <4>1. p \in Products /\ spent' = spent /\ spent >= 0  BY <1>0, <2>2, <2>8, <3>1
      <4>2. told'[p] = told[p] \/ told'[p] = 0  BY <2>6, <4>1
      <4> QED  BY <3>2, <4>1, <4>2
    <3> QED  BY <2>1, <2>2, <2>8, <3>2, <3>3 DEF p
  <2> QED  BY <2>7, <2>8 DEF Spaced
<1>4. CASE Wake
  <2>1. UNCHANGED <<cooling, told, outbox>> /\ at' = "check"  BY <1>4 DEF Wake
  <2> QED  BY <2>1 DEF Spaced
<1>5. CASE Tick
  <2>1. /\ Passes /\ spent' = spent + 1 /\ UNCHANGED <<outbox, at>>
        /\ cooling' = [p \in Products |-> IF cooling[p] > 0 THEN cooling[p] - 1 ELSE 0]
        /\ told' = [p \in Products |-> UpTo(Cooldown, told[p])]
    BY <1>5 DEF Tick
  <2>2. \A p \in Products : cooling'[p] + told'[p] >= Cooldown - Sending
    BY <1>0, <2>1 DEF Spaced, UpTo
  <2>3. \A p \in Products :
            /\ cooling[p] >= Cooldown - spent => cooling'[p] >= Cooldown - spent'
            /\ told[p] >= Cooldown - Sending => told'[p] >= Cooldown - Sending
            /\ told[p] <= spent => told'[p] <= spent'
    BY <1>0, <2>1 DEF UpTo
  <2> QED  BY <1>00, <2>1, <2>2, <2>3 DEF Spaced
<1>6. ASSUME NEW p \in Products, SendOk(p) PROVE Spaced'
  BY <1>3, <1>6 DEF SendOk
<1>7. CASE SendFails
  <2>1. PICK p \in Products : outbox[1].product = p
    BY <1>00, <1>7 DEF SendFails, SendEnds, Placed
  <2> QED  BY <1>3, <1>7, <2>1 DEF SendFails
<1> QED  BY <1>1, <1>2, <1>4, <1>5, <1>6, <1>7 DEF Next, Put, vars

LEMMA SpacedInit == Init => Spaced
BY AlerterAssumption DEF Init, Spaced

(* A chat is not told of a product more often than the cooldown says, less the sending. *)
THEOREM MessagesApart == Spec => ToldApart
<1>1. Placed /\ Spaced => [\A p \in Products : SendOk(p) => told[p] <= Sending \/ told[p] >= Cooldown - Sending]_vars
  <2> SUFFICES ASSUME Placed, Spaced, NEW p \in Products, SendOk(p)
               PROVE  told[p] <= Sending \/ told[p] >= Cooldown - Sending
    OBVIOUS
  <2>1. at = "send" /\ outbox # <<>> /\ outbox[1].product = p  BY DEF SendOk, SendEnds, Placed
  <2>2. outbox \in Seq([product : Products, condition : Conditions])  BY DEF Placed, TypeOK
  <2>3. 1 \in DOMAIN outbox  BY <2>1, <2>2
  <2>4. told[p] >= Cooldown - Sending \/ told[p] <= spent  BY <2>1, <2>3 DEF Spaced
  <2>5. spent \in 0 .. Sending + 1 /\ told[p] \in 0 .. Cooldown /\ Cooldown \in Nat
        /\ Sending \in Nat /\ spent <= Sending
    BY <2>1, AlerterAssumption DEF Placed, TypeOK
  <2> QED  BY <2>4, <2>5
<1> QED  BY <1>1, PlacedAlways, SpacedInit, SpacedNext, PTL DEF Spec, ToldApart

-----------------------------------------------------------------------------
(* Alerts come in time *)

\* Intervals until the next check, at most.
Ahead == IF at = "check" THEN 0 ELSE IF at = "wait" THEN 1 - spent ELSE Sending + 1 - spent

\* The windows of which AlertedInTime speaks.
BadWindow(i) == win[i] # None /\ Bad(win[i].product)

(***************************************************************************)
(* A window of a bad product without an alert waits for the cooldown it    *)
(* came into, or for the next check; with one it is as old as a cooldown   *)
(* and the checks around it allow.                                         *)
(***************************************************************************)
Timely(i) ==
    LET w == win[i]
        c == cooling[w.product]
    IN  /\ w.alerts = 0 /\ c > 0 => w.age + c <= w.ready
        /\ w.alerts = 0 /\ c = 0 => w.age + Ahead <= w.ready + Sending
        /\ w.alerts = 1 /\ c > 0 => w.age + c <= w.ready + Sending + Cooldown
        /\ w.alerts = 1 /\ c = 0 => w.age + Ahead <= w.ready + Sending + Cooldown + Sending

InTime == \A i \in Slots : BadWindow(i) => Timely(i)

LEMMA InTimeNext == Placed /\ InTime /\ [Next]_vars => InTime'
<1> SUFFICES ASSUME Placed, InTime, [Next]_vars, NEW i \in Slots, BadWindow(i)'
             PROVE  Timely(i)'
  BY DEF InTime
<1>0. /\ cooling \in [Products -> 0 .. Cooldown] /\ spent \in 0 .. Sending + 1 /\ at \in {"check", "send", "wait"}
      /\ Sending \in Nat /\ Cooldown \in Nat \ {0} /\ win \in [Slots -> WindowRecords \cup {None}]
      /\ at = "check" => spent = 0
      /\ at = "wait" => spent <= 1
      /\ at = "send" => spent <= Sending
  BY AlerterAssumption DEF Placed, TypeOK
<1>1. win[i] # None =>
        /\ win[i] \in WindowRecords /\ win[i].product \in Products
        /\ win[i].age \in Nat /\ win[i].ready \in Nat /\ win[i].alerts \in 0 .. 2
  BY <1>0 DEF WindowRecords
<1>2. BadWindow(i) => Timely(i)  BY DEF InTime
<1>3. ASSUME win'[i] = win[i], cooling' = cooling, Ahead' <= Ahead PROVE Timely(i)'
  <2>1. BadWindow(i)  BY <1>3 DEF BadWindow, Bad
  <2>2. Timely(i) /\ win[i].age \in Nat /\ win[i].ready \in Nat  BY <1>1, <1>2, <2>1 DEF BadWindow
  <2>3. spent' \in 0 .. Sending + 1 /\ at' \in {"check", "send", "wait"}  BY PlacedNext DEF Placed, TypeOK
  <2>4. Ahead \in Nat /\ Ahead' \in Int  BY <1>0, <2>3, AlerterAssumption DEF Ahead
  <2> QED  BY <1>0, <1>3, <2>2, <2>4 DEF Timely
<1>4. ASSUME NEW j \in Slots, NEW p \in Products, NEW r \in RatingsOf[p], NEW a \in Ages, Put(j, p, r, a)
      PROVE  Timely(i)'
  <2>1. UNCHANGED <<cooling, at, spent>>  BY <1>4 DEF Put
  <2>2. Ahead' = Ahead /\ Ahead \in 0 .. Sending + 1  BY <1>0, <2>1 DEF Ahead
  <2>3. CASE i # j
    <3>1. win'[i] = win[i]  BY <1>0, <1>4, <2>3 DEF Put
    <3> QED  BY <1>3, <2>1, <2>2, <3>1
  <2>4. CASE i = j
    <3> DEFINE w == [place |-> "queue", product |-> p, age |-> a, rating |-> r,
                     ready |-> a + (IF cooling[p] > 0 THEN cooling[p] ELSE 1), alerts |-> 0]
    <3>1. win'[i] = w  BY <1>0, <1>4, <2>4 DEF Put
    <3>2. /\ w.product = p /\ w.age = a /\ w.alerts = 0
          /\ w.ready = a + (IF cooling[p] > 0 THEN cooling[p] ELSE 1)
      OBVIOUS
    <3> HIDE DEF w
    <3>3. cooling[p] \in 0 .. Cooldown /\ a \in Nat  BY <1>0, AlerterAssumption
    <3> QED  BY <1>0, <2>1, <2>2, <3>1, <3>2, <3>3 DEF Timely
  <2> QED  BY <2>3, <2>4
<1>5. CASE Check
  <2> DEFINE S == {p \in Products : cooling[p] = 0 /\ Anomalies(p) # {}}
             w == win[i]
             v == win'[i]
             a == IF w.product \in S THEN UpTo(2, w.alerts) ELSE w.alerts
  <2>1. /\ win' = Drained(S) /\ at = "check"
        /\ cooling' = [p \in Products |-> IF p \in S THEN Cooldown ELSE cooling[p]]
        /\ at' = (IF S = {} THEN "wait" ELSE "send") /\ spent' = 0
    BY <1>5 DEF Check
  <2>2. w # None
    <3>1. win[i] = None => win'[i] = None  BY <2>1 DEF Drained
    <3> QED  BY <3>1 DEF BadWindow
  <2>3. w \in WindowRecords /\ w.product \in Products /\ w.age \in Nat
        /\ w.ready \in Nat /\ w.alerts \in 0 .. 2
    BY <1>1, <2>2
  <2>4. v = [w EXCEPT !.place = "buffer", !.alerts = a]  BY <2>1, <2>2 DEF Drained
  <2>5. a \in 0 .. 2  BY <2>3 DEF UpTo
  <2>6. v.alerts = a /\ v.product = w.product /\ v.age = w.age /\ v.ready = w.ready
    <3> HIDE DEF a, v, w
    <3> QED  BY <2>3, <2>4, <2>5 DEF WindowRecords
  <2>7. Bad(w.product)
    <3>1. Bad(v.product)  BY DEF BadWindow, Bad
    <3> QED  BY <2>6, <3>1
  <2>8. Timely(i)  BY <1>2, <2>2, <2>7 DEF BadWindow
  <2>9. cooling[w.product] = 0 => w.product \in S
    <3>1. i \in Group(w.product)  BY <2>2 DEF Group
    <3>2. \A j \in Group(w.product) : win[j].rating < 3
      BY <2>3, <2>7 DEF Group, Bad, Placed
    <3>3. Anomalies(w.product) # {}  BY <2>3, <3>1, <3>2, BadIsAnomaly
    <3> QED  BY <2>3, <3>3
  <2>10. cooling[w.product] # 0 => w.product \notin S  OBVIOUS
  <2>11. Ahead = 0 /\ Ahead' \in Nat  BY <1>0, <2>1 DEF Ahead
  <2>12. /\ cooling[w.product] = 0 => a = UpTo(2, w.alerts) /\ cooling'[w.product] = Cooldown
         /\ cooling[w.product] # 0 => a = w.alerts /\ cooling'[w.product] = cooling[w.product]
    BY <2>1, <2>3, <2>9, <2>10
  <2> HIDE DEF S, a, v
  <2>13. CASE cooling[w.product] = 0
    <3>1. w.alerts = 0 => a = 1 /\ w.age + Cooldown <= w.ready + Sending + Cooldown
      BY <1>0, <2>3, <2>8, <2>11, <2>12, <2>13 DEF Timely, UpTo
    <3>2. w.alerts # 0 => a = 2  BY <2>3, <2>12, <2>13 DEF UpTo
    <3> QED  BY <1>0, <2>3, <2>6, <2>12, <2>13, <3>1, <3>2 DEF Timely, v
  <2>14. CASE cooling[w.product] # 0
    <3>1. /\ w.alerts = 0 => w.age + cooling[w.product] <= w.ready
          /\ w.alerts = 1 => w.age + cooling[w.product] <= w.ready + Sending + Cooldown
      BY <1>0, <2>3, <2>8, <2>14 DEF Timely
    <3> QED  BY <1>0, <2>3, <2>6, <2>12, <2>14, <3>1 DEF Timely, v
  <2> QED  BY <2>13, <2>14
<1>6. CASE SendEnds
  <2>1. UNCHANGED <<win, cooling>> /\ at = "send"
        /\ (UNCHANGED <<at, spent>> \/ (at' = "wait" /\ spent' = 0))
    BY <1>6 DEF SendEnds
  <2>2. Ahead' <= Ahead  BY <1>0, <2>1 DEF Ahead
  <2> QED  BY <1>3, <2>1, <2>2
<1>7. CASE Wake
  <2>1. UNCHANGED <<win, cooling>> /\ at = "wait" /\ spent = 1 /\ at' = "check"
    BY <1>7 DEF Wake
  <2>2. Ahead' <= Ahead  BY <2>1 DEF Ahead
  <2> QED  BY <1>3, <2>1, <2>2
<1>8. CASE Tick
  <2> DEFINE w == win[i]
             v == win'[i]
  <2>1. /\ win' = Aged /\ Passes /\ spent' = spent + 1 /\ at' = at
        /\ cooling' = [p \in Products |-> IF cooling[p] > 0 THEN cooling[p] - 1 ELSE 0]
    BY <1>8 DEF Tick
  <2>2. w # None /\ v = [w EXCEPT !.age = @ + 1]
    <3>1. v = (IF w = None \/ w.age = Window THEN None ELSE [w EXCEPT !.age = @ + 1])
      BY <2>1 DEF Aged
    <3>2. v # None  BY DEF BadWindow
    <3> QED  BY <3>1, <3>2
  <2>3. w \in WindowRecords /\ w.product \in Products /\ w.age \in Nat
        /\ w.ready \in Nat /\ w.alerts \in 0 .. 2
    BY <1>1, <2>2
  <2>4. v.ready = w.ready /\ v.alerts = w.alerts /\ v.product = w.product /\ v.age = w.age + 1
    <3> HIDE DEF v, w
    <3> QED  BY <2>2, <2>3, WindowAged
  <2>5. Bad(v.product)  BY DEF BadWindow, Bad
  <2>6. Timely(i)  BY <1>2, <2>2, <2>4, <2>5 DEF BadWindow
  <2>7. Ahead \in 1 .. Sending + 1 /\ Ahead' = Ahead - 1  BY <1>0, <2>1 DEF Ahead, Passes
  <2>8. /\ cooling[w.product] \in 0 .. Cooldown
        /\ cooling[w.product] > 0 => cooling'[w.product] = cooling[w.product] - 1
        /\ cooling[w.product] = 0 => cooling'[w.product] = 0
    BY <1>0, <2>1, <2>3
  <2> HIDE DEF v
  <2> QED  BY <1>0, <2>3, <2>4, <2>6, <2>7, <2>8 DEF Timely, v
<1>9. CASE UNCHANGED vars
  <2>1. UNCHANGED <<win, cooling, at, spent>>  BY <1>9 DEF vars
  <2>2. Ahead' = Ahead /\ Ahead \in Nat  BY <1>0, <2>1 DEF Ahead
  <2> QED  BY <1>3, <2>1, <2>2
<1> QED  BY <1>4, <1>5, <1>6, <1>7, <1>8, <1>9 DEF Next, SendOk, SendFails

(***************************************************************************)
(* Whatever the durations: a window that comes early enough is behind an   *)
(* alert, or two.  With those of the code (ten minutes, a cooldown of      *)
(* five, one interval of sending) two alerts follow a window whose         *)
(* interval, or cooldown, is over at an age of three minutes.              *)
(***************************************************************************)
THEOREM AlertedBeforeTooOld == Spec => AlertedInTime
<1> DEFINE Enough(w) ==
        /\ w.ready + Sending <= Window => w.alerts > 0
        /\ w.ready + Sending + Cooldown + Sending <= Window => w.alerts = 2
<1>1. Placed /\ InTime /\ [Next]_vars =>
        [\A i \in Slots : win[i] # None /\ win'[i] = None /\ Bad(win[i].product) => Enough(win[i])]_vars
  <2> SUFFICES ASSUME Placed, InTime, [Next]_vars, NEW i \in Slots,
                      win[i] # None, win'[i] = None, Bad(win[i].product)
               PROVE  Enough(win[i])
    OBVIOUS
  <2>0. /\ cooling \in [Products -> 0 .. Cooldown] /\ spent \in 0 .. Sending + 1 /\ at \in {"check", "send", "wait"}
        /\ Sending \in Nat /\ Cooldown \in Nat \ {0} /\ Window \in Nat
        /\ win \in [Slots -> WindowRecords \cup {None}]
    BY AlerterAssumption DEF Placed, TypeOK
  <2>1. /\ win[i] \in WindowRecords /\ win[i].product \in Products
        /\ win[i].age \in Nat /\ win[i].ready \in Nat /\ win[i].alerts \in 0 .. 2
    BY <2>0 DEF WindowRecords
  <2>2. Timely(i)  BY DEF InTime, BadWindow
  <2>3. CASE Tick
    <3>1. Passes /\ win' = Aged  BY <2>3 DEF Tick
    <3>2. CASE win[i].age = Window
      <4>1. Ahead \in 1 .. Sending + 1  BY <2>0, <3>1 DEF Ahead, Passes
      <4>2. cooling[win[i].product] \in 0 .. Cooldown  BY <2>0, <2>1
      <4> QED  BY <2>0, <2>1, <2>2, <3>2, <4>1, <4>2 DEF Timely
    <3>3. CASE win[i].age # Window
      <4>1. win'[i] = [win[i] EXCEPT !.age = @ + 1]  BY <3>1, <3>3 DEF Aged
      <4>2. win'[i] \in WindowRecords  BY <2>1, <4>1, WindowAged
      <4> QED  BY <4>2, NoneAssumption
    <3> QED  BY <3>2, <3>3
  <2>4. CASE Check
    <3> DEFINE S == {p \in Products : cooling[p] = 0 /\ Anomalies(p) # {}}
               a == IF win[i].product \in S THEN UpTo(2, win[i].alerts) ELSE win[i].alerts
    <3>1. win' = Drained(S)  BY <2>4 DEF Check
    <3>2. win'[i] = [win[i] EXCEPT !.place = "buffer", !.alerts = a]  BY <3>1 DEF Drained
    <3>3. a \in 0 .. 2  BY <2>1 DEF UpTo
    <3> HIDE DEF a, S
    <3>4. win'[i] \in WindowRecords  BY <2>1, <3>2, <3>3 DEF WindowRecords
    <3> QED  BY <3>4, NoneAssumption
  <2>5. ASSUME NEW j \in Slots, NEW p \in Products, NEW r \in RatingsOf[p], NEW a \in Ages, Put(j, p, r, a)
        PROVE  FALSE
    <3>1. win[j] = None /\ \A k \in Slots : k # j => win'[k] = win[k]  BY <2>0, <2>5 DEF Put
    <3> QED  BY <3>1
  <2>6. ASSUME UNCHANGED win PROVE FALSE  BY <2>6
  <2> QED  BY <2>3, <2>4, <2>5, <2>6 DEF Next, SendOk, SendFails, SendEnds, Wake, vars
<1>2. Init => InTime  BY DEF Init, InTime, BadWindow
<1> QED  BY <1>1, <1>2, PlacedAlways, InTimeNext, PTL DEF Spec, AlertedInTime
=============================================================================
