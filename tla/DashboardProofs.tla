--------------------------- MODULE DashboardProofs ---------------------------
(***************************************************************************)
(* What holds of Dashboard for all tabs, numbers of aggregates, sizes and  *)
(* scenarios.                                                              *)
(***************************************************************************)
EXTENDS Dashboard, SequenceTheorems, TLAPS

-----------------------------------------------------------------------------
(* Type correctness *)

LEMMA SeqHeadTail ==
    ASSUME NEW T, NEW s \in Seq(T), s # <<>>
    PROVE  Head(s) \in T /\ Tail(s) \in Seq(T)
OBVIOUS

LEMMA SeqAppend ==
    ASSUME NEW T, NEW s \in Seq(T), NEW x \in T
    PROVE  Append(s, x) \in Seq(T)
OBVIOUS

LEMMA SeqRange ==
    ASSUME NEW T, NEW s \in Seq(T)
    PROVE  Range(s) \subseteq T
BY DEF Range

(* What the limit keeps was kept before. *)
LEMMA TrimmedType ==
    ASSUME NEW s \in Seq(Messages)
    PROVE  Trimmed(s) \in Seq(Messages) /\ Range(Trimmed(s)) \subseteq Range(s)
<1>1. CASE ~(IsKafka /\ Len(s) > MaxAggregates)  BY <1>1 DEF Trimmed
<1>2. CASE IsKafka /\ Len(s) > MaxAggregates
  <2> DEFINE k == Len(s) - MaxAggregates
             u == SubSeq(s, k + 1, Len(s))
  <2>1. MaxAggregates \in Nat /\ Len(s) \in Nat  BY DashboardAssumption
  <2>2. Trimmed(s) = u  BY <1>2 DEF Trimmed
  <2>3. k + 1 \in 1 .. Len(s) + 1 /\ k \in Nat  BY <1>2, <2>1, DashboardAssumption
  <2>4. u \in Seq(Messages) /\ Len(u) = Len(s) - k
    BY <2>1, <2>3
  <2>5. \A i \in 1 .. Len(u) : u[i] = s[k + i]  BY <2>1, <2>3
  <2>6. \A i \in 1 .. Len(u) : k + i \in 1 .. Len(s)
    <3> HIDE DEF k, u
    <3> QED  BY <2>1, <2>3, <2>4
  <2>7. Range(u) \subseteq Range(s)
    <3> HIDE DEF k, u
    <3> QED  BY <2>4, <2>5, <2>6 DEF Range
  <2> QED  BY <2>2, <2>4, <2>7
<1> QED  BY <1>1, <1>2

(***************************************************************************)
(* Inductive strengthening of TypeOK: a listener that makes room or        *)
(* acknowledges has a message at hand, and so has a script that has taken  *)
(* one from the queue.                                                     *)
(***************************************************************************)
AtHand ==
    \A t \in Tabs :
        /\ listener[t] \in {"full", "evict", "ack"} => incoming[t] \in Messages
        /\ script[t] = "took" => held[t] \in Messages

TInv == TypeOK /\ AtHand

LEMMA TypeInit == Init => TInv
<1> SUFFICES ASSUME Init PROVE TInv  OBVIOUS
<1>1. received \in 0 .. Length  BY DashboardAssumption DEF Init
<1>2. kept \in [Tabs -> Seq(Messages)] /\ queue \in [Tabs -> Seq(Messages)]  BY DEF Init
<1>3. TypeOK  BY <1>1, <1>2 DEF Init, TypeOK
<1>4. AtHand  BY DEF Init, AtHand
<1> QED  BY <1>3, <1>4 DEF TInv

(* The aggregates are numbered in the order in which they come. *)
LEMMA ReceivedType ==
    ASSUME TypeOK, NEW m \in Messages, Comes(m)
    PROVE  received' = m /\ m = received + 1 /\ received' \in 0 .. Length /\ received \in Nat
BY DashboardAssumption DEF TypeOK, Comes, Messages

(* A listener without its tab leaves the queue of the tab as an empty one. *)
LEMMA DetachType ==
    ASSUME TypeOK, NEW t \in Tabs, NEW next \in {"none", "poll"}, Detach(t, next)
    PROVE  /\ stray' \in BOOLEAN
           /\ listener' \in [Tabs -> {"none", "poll", "full", "evict", "ack"}]
           /\ queue' \in [Tabs -> Seq(Messages)]
           /\ incoming' \in [Tabs -> Messages \cup {NoMessage}]
<1>1. stray' \in BOOLEAN /\ incoming' \in [Tabs -> Messages \cup {NoMessage}]
  BY DEF TypeOK, Detach
<1>2. listener' \in [Tabs -> {"none", "poll", "full", "evict", "ack"}]  BY DEF TypeOK, Detach
<1>3. queue' \in [Tabs -> Seq(Messages)]
  <2>1. <<>> \in Seq(Messages)  OBVIOUS
  <2> QED  BY <2>1 DEF TypeOK, Detach
<1> QED  BY <1>1, <1>2, <1>3

LEMMA TypeNext == TInv /\ [Next]_vars => TypeOK'
<1> SUFFICES ASSUME TypeOK, AtHand, [Next]_vars PROVE TypeOK'  BY DEF TInv
<1> USE DEF given, topic, session, thread
<1>1. ASSUME NEW t \in Tabs, NEW m \in Messages, Receive(t, m) PROVE TypeOK'
  <2>1. received' \in 0 .. Length  BY <1>1, ReceivedType DEF Receive
  <2>2. Append(queue[t], m) \in Seq(Messages)  BY SeqAppend DEF TypeOK
  <2>3. queue' \in [Tabs -> Seq(Messages)]  BY <1>1, <2>2 DEF Receive, TypeOK
  <2>4. incoming' \in [Tabs -> Messages \cup {NoMessage}]  BY <1>1 DEF Receive, TypeOK
  <2>5. \/ listener' = listener
        \/ listener' = [listener EXCEPT ![t] = "full"]
        \/ listener' = [listener EXCEPT ![t] = "ack"]
    BY <1>1 DEF Receive
  <2>6. listener' \in [Tabs -> {"none", "poll", "full", "evict", "ack"}]  BY <2>5 DEF TypeOK
  <2> QED  BY <1>1, <2>1, <2>3, <2>4, <2>6 DEF Receive, TypeOK
<1>2. ASSUME NEW t \in Tabs, Acknowledge(t) PROVE TypeOK'
  BY <1>2 DEF Acknowledge, TypeOK
<1>3. ASSUME NEW t \in Tabs, MakeRoom(t) PROVE TypeOK'
  <2>1. queue' \in [Tabs -> Seq(Messages)]
    <3>1. Append(queue[t], incoming[t]) \in Seq(Messages)
      BY <1>3, SeqAppend DEF MakeRoom, AtHand, TypeOK
    <3> QED  BY <1>3, <3>1 DEF MakeRoom, TypeOK
  <2> QED  BY <1>3, <2>1 DEF MakeRoom, TypeOK
<1>4. ASSUME NEW t \in Tabs, Evict(t) PROVE TypeOK'
  <2>1. CASE queue[t] = <<>>
    <3>1. gone[t] \cup {incoming[t]} \in SUBSET Messages  BY <1>4 DEF Evict, AtHand, TypeOK
    <3>2. gone' \in [Tabs -> SUBSET Messages]
      <4>1. gone' = [gone EXCEPT ![t] = @ \cup {incoming[t]}]  BY <1>4, <2>1 DEF Evict
      <4> QED  BY <3>1, <4>1 DEF TypeOK
    <3>3. listener' \in [Tabs -> {"none", "poll", "full", "evict", "ack"}]
      <4>1. listener' = [listener EXCEPT ![t] = "poll"]  BY <1>4, <2>1 DEF Evict
      <4> QED  BY <4>1 DEF TypeOK
    <3>4. incoming' \in [Tabs -> Messages \cup {NoMessage}]
      <4>1. incoming' = [incoming EXCEPT ![t] = NoMessage]  BY <1>4, <2>1 DEF Evict
      <4> QED  BY <4>1 DEF TypeOK
    <3>5. UNCHANGED <<given, topic, script, session, queue>>  BY <1>4, <2>1 DEF Evict
    <3> QED  BY <3>2, <3>3, <3>4, <3>5 DEF TypeOK
  <2>2. CASE queue[t] # <<>>
    <3>1. Head(queue[t]) \in Messages /\ Tail(queue[t]) \in Seq(Messages)
      BY <2>2, SeqHeadTail DEF TypeOK
    <3>2. gone[t] \cup {Head(queue[t])} \in SUBSET Messages  BY <3>1 DEF TypeOK
    <3>3. gone' \in [Tabs -> SUBSET Messages]
      <4>1. gone' = [gone EXCEPT ![t] = @ \cup {Head(queue[t])}]  BY <1>4, <2>2 DEF Evict
      <4> QED  BY <3>2, <4>1 DEF TypeOK
    <3>4. queue' \in [Tabs -> Seq(Messages)]  BY <1>4, <2>2, <3>1 DEF Evict, TypeOK
    <3>5. listener' \in [Tabs -> {"none", "poll", "full", "evict", "ack"}]
      <4>1. listener' = [listener EXCEPT ![t] = "full"]  BY <1>4, <2>2 DEF Evict
      <4> QED  BY <4>1 DEF TypeOK
    <3> QED  BY <1>4, <2>2, <3>3, <3>4, <3>5 DEF Evict, TypeOK
  <2> QED  BY <2>1, <2>2
<1>5. ASSUME NEW m \in Messages, ReceiveStray(m) PROVE TypeOK'
  <2>1. received' \in 0 .. Length  BY <1>5, ReceivedType DEF ReceiveStray
  <2> QED  BY <1>5, <2>1 DEF ReceiveStray, TypeOK
<1>6. ASSUME NEW t \in Tabs, Open(t) \/ Break(t) PROVE TypeOK'
  BY <1>6 DEF Open, Break, Enter, TypeOK
<1>7. ASSUME NEW t \in Tabs, Launch(t) PROVE TypeOK'
  BY <1>7, DetachType DEF Launch, Enter, TypeOK
<1>8. ASSUME NEW t \in Tabs, Started(t) PROVE TypeOK'
  <2>1. AlertersAfter(t) \subseteq {"off", "deaf", "on"}  BY DEF AlertersAfter, TypeOK
  <2> QED  BY <1>8, <2>1 DEF Started, Enter, TypeOK
<1>9. ASSUME NEW t \in Tabs, Take(t) PROVE TypeOK'
  <2>1. Head(queue[t]) \in Messages /\ Tail(queue[t]) \in Seq(Messages)
    BY <1>9, SeqHeadTail DEF TypeOK, Take
  <2> QED  BY <1>9, <2>1 DEF Take, Enter, TypeOK
<1>10. ASSUME NEW t \in Tabs, Keep(t) PROVE TypeOK'
  <2>1. Append(kept[t], held[t]) \in Seq(Messages)
    BY <1>10, SeqAppend DEF Keep, AtHand, TypeOK
  <2> QED  BY <1>10, <2>1 DEF Keep, Enter, TypeOK
<1>11. ASSUME NEW t \in Tabs, Draw(t) PROVE TypeOK'
  <2>1. Trimmed(kept[t]) \in Seq(Messages)  BY TrimmedType DEF TypeOK
  <2>2. Range(kept[t]) \subseteq Messages  BY SeqRange DEF TypeOK
  <2> QED  BY <1>11, <2>1, <2>2 DEF Draw, Enter, TypeOK
<1>12. ASSUME NEW t \in Tabs, Clear(t) PROVE TypeOK'
  <2>1. <<>> \in Seq(Messages)  OBVIOUS
  <2>2. Range(kept[t]) \subseteq Messages  BY SeqRange DEF TypeOK
  <2> QED  BY <1>12, <2>1, <2>2 DEF Clear, NewRun, Enter, TypeOK
<1>13. ASSUME NEW t \in Tabs, Rerun(t) PROVE TypeOK'
  BY <1>13 DEF Rerun, NewRun, Enter, TypeOK
<1>14. ASSUME NEW t \in Tabs, Interrupt(t) PROVE TypeOK'
  BY <1>14 DEF Interrupt, NewRun, Enter, TypeOK
<1>15. ASSUME NEW t \in Tabs, Close(t) PROVE TypeOK'
  <2>1. <<>> \in Seq(Messages)  OBVIOUS
  <2> QED  BY <1>15, <2>1, DetachType DEF Close, Enter, TypeOK
<1>16. CASE UNCHANGED vars  BY <1>16 DEF vars, TypeOK
<1> QED  BY <1>1, <1>2, <1>3, <1>4, <1>5, <1>6, <1>7, <1>8, <1>9, <1>10, <1>11, <1>12, <1>13,
            <1>14, <1>15, <1>16 DEF Next

LEMMA AtHandNext == TInv /\ [Next]_vars => AtHand'
<1> SUFFICES ASSUME TypeOK, AtHand, [Next]_vars, NEW u \in Tabs
    PROVE  /\ (listener[u] \in {"full", "evict", "ack"} => incoming[u] \in Messages)'
           /\ (script[u] = "took" => held[u] \in Messages)'
  BY DEF TInv, AtHand
<1> DEFINE Q == /\ listener'[u] \in {"full", "evict", "ack"} => incoming'[u] \in Messages
                /\ script'[u] = "took" => held'[u] \in Messages
<1> USE DEF given, topic, session, thread
<1>0. /\ listener \in [Tabs -> {"none", "poll", "full", "evict", "ack"}]
      /\ incoming \in [Tabs -> Messages \cup {NoMessage}]
  BY DEF TypeOK
<1>1. ASSUME NEW t \in Tabs, NEW m \in Messages, Receive(t, m) PROVE Q
  <2>1. UNCHANGED <<script, held>>  BY <1>1 DEF Receive
  <2>2. \/ UNCHANGED <<listener, incoming>>
        \/ /\ \E to \in {"full", "ack"} : listener' = [listener EXCEPT ![t] = to]
           /\ incoming' = [incoming EXCEPT ![t] = m]
    BY <1>1 DEF Receive
  <2> QED  BY <1>0, <2>1, <2>2 DEF AtHand
<1>2. ASSUME NEW t \in Tabs, Acknowledge(t) \/ MakeRoom(t) PROVE Q
  <2>1. UNCHANGED <<script, held>>  BY <1>2 DEF Acknowledge, MakeRoom
  <2>2. \/ listener' = [listener EXCEPT ![t] = "poll"] /\ incoming' = [incoming EXCEPT ![t] = NoMessage]
        \/ listener[t] = "full" /\ listener' = [listener EXCEPT ![t] = "evict"] /\ incoming' = incoming
    BY <1>2 DEF Acknowledge, MakeRoom
  <2> QED  BY <1>0, <2>1, <2>2 DEF AtHand
<1>3. ASSUME NEW t \in Tabs, Evict(t) PROVE Q
  <2>1. UNCHANGED <<script, held>>  BY <1>3 DEF Evict
  <2>2. \/ listener' = [listener EXCEPT ![t] = "poll"] /\ incoming' = [incoming EXCEPT ![t] = NoMessage]
        \/ listener[t] = "evict" /\ listener' = [listener EXCEPT ![t] = "full"] /\ incoming' = incoming
    BY <1>3 DEF Evict
  <2> QED  BY <1>0, <2>1, <2>2 DEF AtHand
<1>4. ASSUME NEW m \in Messages, ReceiveStray(m) PROVE Q
  BY <1>4 DEF ReceiveStray, AtHand
<1>5. ASSUME NEW t \in Tabs, Open(t) \/ Break(t) \/ Rerun(t) PROVE Q
  BY <1>5 DEF Open, Break, Rerun, NewRun, Enter, AtHand, TypeOK
<1>6. ASSUME NEW t \in Tabs, Launch(t) PROVE Q
  BY <1>6 DEF Launch, Detach, Enter, AtHand, TypeOK
<1>7. ASSUME NEW t \in Tabs, Started(t) PROVE Q
  BY <1>7 DEF Started, Enter, AtHand, TypeOK
<1>8. ASSUME NEW t \in Tabs, Take(t) PROVE Q
  <2>1. Head(queue[t]) \in Messages  BY <1>8, SeqHeadTail DEF TypeOK, Take
  <2> QED  BY <1>8, <2>1 DEF Take, Enter, AtHand, TypeOK
<1>9. ASSUME NEW t \in Tabs, Keep(t) PROVE Q
  BY <1>9 DEF Keep, Enter, AtHand, TypeOK
<1>10. ASSUME NEW t \in Tabs, Draw(t) PROVE Q
  BY <1>10 DEF Draw, Enter, AtHand, TypeOK
<1>11. ASSUME NEW t \in Tabs, Clear(t) PROVE Q
  BY <1>11 DEF Clear, NewRun, Enter, AtHand, TypeOK
<1>12. ASSUME NEW t \in Tabs, Interrupt(t) PROVE Q
  BY <1>12 DEF Interrupt, NewRun, Enter, AtHand, TypeOK
<1>13. ASSUME NEW t \in Tabs, Close(t) PROVE Q
  BY <1>13 DEF Close, Detach, Enter, AtHand, TypeOK
<1>14. CASE UNCHANGED vars  BY <1>14 DEF vars, AtHand
<1> QED  BY <1>1, <1>2, <1>3, <1>4, <1>5, <1>6, <1>7, <1>8, <1>9, <1>10, <1>11, <1>12, <1>13,
            <1>14 DEF Next

LEMMA TInvInvariant == Spec => []TInv
<1>1. TInv /\ [Next]_vars => TInv'  BY TypeNext, AtHandNext DEF TInv
<1> QED  BY TypeInit, <1>1, PTL DEF Spec

(* Every variable keeps its type: what is in a queue, taken or shown is an aggregate. *)
THEOREM TypeCorrect == Spec => []TypeOK
<1>1. TInv => TypeOK  BY DEF TInv
<1> QED  BY TInvInvariant, <1>1, PTL

-----------------------------------------------------------------------------
(* The dashboards as they are written *)

(***************************************************************************)
(* Inductive strengthening of FrozenAsWritten: unless queues outlive a     *)
(* run, a tab that has drawn has set its flag, and the queue of its        *)
(* listener belongs to the run that is about to end.                       *)
(***************************************************************************)
Parted ==
    \A t \in Tabs :
        ~Lasting /\ drawn[t] =>
            /\ started[t]
            /\ script[t] \notin {"took", "flag"}
            /\ own[t] => script[t] = "view"

\* What Parted needs to know of a run that has not drawn yet.
Running ==
    \A t \in Tabs :
        /\ script[t] \in {"drain", "took", "view"} => started[t]
        /\ ~Lasting /\ script[t] \in {"away", "boot"} => ~own[t]

FInv == Parted /\ Running

\* The dashboard, its tabs and its repair do not change.
LEMMA ScenarioKept == [Next]_vars => scenario' = scenario
<1> SUFFICES ASSUME [Next]_vars PROVE scenario' = scenario  OBVIOUS
<1> USE DEF given
<1>1. ASSUME NEW t \in Tabs, NEW m \in Messages, Receive(t, m)
      PROVE  scenario' = scenario
  BY <1>1 DEF Receive
<1>2. ASSUME NEW t \in Tabs, Acknowledge(t) \/ MakeRoom(t) \/ Evict(t)
      PROVE  scenario' = scenario
  BY <1>2 DEF Acknowledge, MakeRoom, Evict
<1>3. ASSUME NEW t \in Tabs, Open(t) \/ Break(t) \/ Launch(t) \/ Started(t) \/ Close(t)
      PROVE  scenario' = scenario
  BY <1>3 DEF Open, Break, Launch, Started, Close
<1>4. ASSUME NEW t \in Tabs,
             Take(t) \/ Keep(t) \/ Draw(t) \/ Clear(t) \/ Rerun(t) \/ Interrupt(t)
      PROVE  scenario' = scenario
  BY <1>4 DEF Take, Keep, Draw, Clear, Rerun, Interrupt
<1>5. ASSUME NEW m \in Messages, ReceiveStray(m) PROVE scenario' = scenario
  BY <1>5 DEF ReceiveStray
<1>6. CASE UNCHANGED vars  BY <1>6 DEF vars
<1> QED  BY <1>1, <1>2, <1>3, <1>4, <1>5, <1>6 DEF Next

LEMMA FInvNext == TInv /\ FInv /\ [Next]_vars => FInv'
<1> SUFFICES ASSUME TypeOK, Parted, Running, [Next]_vars, NEW u \in Tabs
    PROVE  /\ (~Lasting /\ drawn[u] =>
                /\ started[u]
                /\ script[u] \notin {"took", "flag"}
                /\ own[u] => script[u] = "view")'
           /\ (script[u] \in {"drain", "took", "view"} => started[u])'
           /\ (~Lasting /\ script[u] \in {"away", "boot"} => ~own[u])'
  BY DEF TInv, FInv, Parted, Running
<1> DEFINE Q == /\ ~Lasting' /\ drawn'[u] =>
                    /\ started'[u]
                    /\ script'[u] \notin {"took", "flag"}
                    /\ own'[u] => script'[u] = "view"
                /\ script'[u] \in {"drain", "took", "view"} => started'[u]
                /\ ~Lasting' /\ script'[u] \in {"away", "boot"} => ~own'[u]
<1> USE DEF given, session, thread
<1>0. scenario' = scenario  BY ScenarioKept
<1>00. Lasting' = Lasting  BY <1>0 DEF Lasting
<1>1. ASSUME NEW t \in Tabs, NEW m \in Messages, Receive(t, m) PROVE Q
  BY <1>1, <1>00 DEF Receive, Parted, Running
<1>2. ASSUME NEW t \in Tabs, Acknowledge(t) \/ MakeRoom(t) \/ Evict(t) PROVE Q
  BY <1>2, <1>00 DEF Acknowledge, MakeRoom, Evict, Parted, Running
<1>3. ASSUME NEW m \in Messages, ReceiveStray(m) PROVE Q
  BY <1>3, <1>00 DEF ReceiveStray, Parted, Running
<1>4. ASSUME NEW t \in Tabs, Open(t) \/ Break(t) PROVE Q
  BY <1>4, <1>00 DEF Open, Break, Boots, Enter, Parted, Running, TypeOK
<1>5. ASSUME NEW t \in Tabs, Launch(t) PROVE Q
  BY <1>5, <1>00 DEF Launch, Boots, Enter, Parted, Running, TypeOK
<1>6. ASSUME NEW t \in Tabs, Started(t) PROVE Q
  BY <1>6, <1>00 DEF Started, Boots, Enter, Parted, Running, TypeOK
<1>7. ASSUME NEW t \in Tabs, Take(t) \/ Keep(t) PROVE Q
  BY <1>7, <1>00 DEF Take, Keep, Enter, Parted, Running, TypeOK
<1>8. ASSUME NEW t \in Tabs, Draw(t) PROVE Q
  BY <1>8, <1>00 DEF Draw, Drained, Enter, Parted, Running, TypeOK
<1>9. ASSUME NEW t \in Tabs, Clear(t) \/ Rerun(t) \/ Interrupt(t) PROVE Q
  <2>1. NewRun(t) /\ UNCHANGED <<started, drawn>>  BY <1>9 DEF Clear, Rerun, Interrupt
  <2>2. drawn[t] /\ ~Lasting => started[t]  BY DEF Parted
  <2> QED  BY <2>1, <2>2, <1>00 DEF NewRun, Enter, Parted, Running, TypeOK
<1>10. ASSUME NEW t \in Tabs, Close(t) PROVE Q
  BY <1>10, <1>00 DEF Close, Enter, Parted, Running, TypeOK
<1>11. CASE UNCHANGED vars  BY <1>11, <1>00 DEF vars, Parted, Running
<1> QED  BY <1>1, <1>2, <1>3, <1>4, <1>5, <1>6, <1>7, <1>8, <1>9, <1>10, <1>11 DEF Next

LEMMA FInvInvariant == Spec => [](TInv /\ FInv)
<1>1. Init => FInv  BY DEF Init, FInv, Parted, Running
<1> QED  BY <1>1, TInvInvariant, FInvNext, PTL DEF Spec

(* A step shows nothing new in a tab that has drawn, and starts no alerter that hears. *)
LEMMA FrozenNext ==
    ASSUME TypeOK, Parted, [Next]_vars, NEW u \in Tabs,
           ~Lasting, drawn[u], script'[u] # "away"
    PROVE  /\ Range(kept'[u]) \subseteq Range(kept[u])
           /\ alerter[u] = "off" => alerter'[u] # "on"
<1> DEFINE Q == /\ Range(kept'[u]) \subseteq Range(kept[u])
                /\ alerter[u] = "off" => alerter'[u] # "on"
<1> USE DEF given, session, thread
<1>1. ASSUME UNCHANGED <<kept, alerter>> PROVE Q  BY <1>1
<1>2. ASSUME NEW t \in Tabs, NEW m \in Messages, Receive(t, m) PROVE Q
  BY <1>1, <1>2 DEF Receive
<1>3. ASSUME NEW t \in Tabs, Acknowledge(t) \/ MakeRoom(t) \/ Evict(t) PROVE Q
  BY <1>1, <1>3 DEF Acknowledge, MakeRoom, Evict
<1>4. ASSUME NEW m \in Messages, ReceiveStray(m) PROVE Q  BY <1>1, <1>4 DEF ReceiveStray
<1>5. ASSUME NEW t \in Tabs, Open(t) \/ Break(t) \/ Launch(t) PROVE Q
  BY <1>1, <1>5 DEF Open, Break, Launch
<1>6. ASSUME NEW t \in Tabs, Take(t) \/ Rerun(t) \/ Interrupt(t) PROVE Q
  BY <1>1, <1>6 DEF Take, Rerun, Interrupt
<1>7. ASSUME NEW t \in Tabs, Started(t) PROVE Q
  <2>1. CASE t = u
    <3>1. ~own[u]  BY <1>7, <2>1 DEF Started, Boots, Parted
    <3>2. alerter[u] = "off" => AlertersAfter(u) \subseteq {"off", "deaf"}
      BY <3>1 DEF AlertersAfter
    <3>3. PICK a \in AlertersAfter(u) : alerter' = [alerter EXCEPT ![u] = a]
      BY <1>7, <2>1 DEF Started
    <3>4. alerter'[u] = a  BY <3>3 DEF TypeOK
    <3> QED  BY <1>7, <3>2, <3>3, <3>4 DEF Started
  <2>2. CASE t # u  BY <1>7, <2>2 DEF Started, TypeOK
  <2> QED  BY <2>1, <2>2
<1>8. ASSUME NEW t \in Tabs, Keep(t) PROVE Q
  <2>1. t # u  BY <1>8 DEF Keep, Parted
  <2> QED  BY <1>8, <2>1 DEF Keep, TypeOK
<1>9. ASSUME NEW t \in Tabs, Draw(t) PROVE Q
  <2>1. Range(Trimmed(kept[t])) \subseteq Range(kept[t])  BY TrimmedType DEF TypeOK
  <2>2. kept'[u] = IF t = u THEN Trimmed(kept[u]) ELSE kept[u]  BY <1>9 DEF Draw, TypeOK
  <2> QED  BY <1>9, <2>1, <2>2 DEF Draw
<1>10. ASSUME NEW t \in Tabs, Clear(t) PROVE Q
  <2>1. kept'[u] = IF t = u THEN <<>> ELSE kept[u]  BY <1>10 DEF Clear, TypeOK
  <2>2. Range(<<>>) = {}  BY DEF Range
  <2> QED  BY <1>10, <2>1, <2>2 DEF Clear
<1>11. ASSUME NEW t \in Tabs, Close(t) PROVE Q
  <2>1. t # u  BY <1>11 DEF Close, Enter, TypeOK
  <2> QED  BY <1>11, <2>1 DEF Close, TypeOK
<1>12. CASE UNCHANGED vars  BY <1>1, <1>12 DEF vars
<1> QED  BY <1>2, <1>3, <1>4, <1>5, <1>6, <1>7, <1>8, <1>9, <1>10, <1>11, <1>12 DEF Next

(***************************************************************************)
(* As the code is, a tab that has drawn once shows nothing new until it is *)
(* closed, whatever the listener receives and however often the user       *)
(* clicks: get_nowait reads the queue of the current run.                  *)
(***************************************************************************)
THEOREM Frozen == Spec => FrozenAsWritten
<1>1. TInv /\ FInv /\ [Next]_vars =>
        \A t \in Tabs :
            ~Lasting /\ drawn[t] /\ script'[t] # "away" =>
                /\ Range(kept'[t]) \subseteq Range(kept[t])
                /\ alerter[t] = "off" => alerter'[t] # "on"
  BY FrozenNext DEF TInv, FInv
<1> QED  BY <1>1, FInvInvariant, PTL DEF Spec, FrozenAsWritten

-----------------------------------------------------------------------------
(***************************************************************************)
(* The order of the aggregates of a Kafka dashboard.  Four parts make up   *)
(* the line of a tab: what it shows, what its script has taken, what waits *)
(* in the queue and what the listener has at hand; a step moves an         *)
(* aggregate from the end of one to the beginning of the next, drops one,  *)
(* or receives one that is newer than all of them.                         *)
(***************************************************************************)
Increasing(s) == \A i, j \in DOMAIN s : i < j => s[i] < s[j]
Below(A, B) == \A a \in A, b \in B : a < b
Only(m) == {m} \ {NoMessage}

Ordered(k, h, q, i) ==
    /\ Increasing(k) /\ Increasing(q)
    /\ Below(Range(k), Only(h) \cup Range(q) \cup Only(i))
    /\ Below(Only(h), Range(q) \cup Only(i))
    /\ Below(Range(q), Only(i))

\* A newer element at the end of an increasing sequence.
LEMMA IncreasingAppend ==
    ASSUME NEW s \in Seq(Messages), NEW m \in Messages, Increasing(s), Below(Range(s), {m})
    PROVE  /\ Append(s, m) \in Seq(Messages) /\ Increasing(Append(s, m))
           /\ Range(Append(s, m)) = Range(s) \cup {m}
<1> DEFINE u == Append(s, m)
<1>1. /\ u \in Seq(Messages) /\ Len(u) = Len(s) + 1 /\ Len(s) \in Nat
      /\ \A i \in 1 .. Len(s) : u[i] = s[i]
      /\ u[Len(s) + 1] = m
  BY AppendProperties, LenProperties
<1> HIDE DEF u
<1>2. ASSUME NEW i \in DOMAIN u
      PROVE  \/ i \in DOMAIN s /\ u[i] = s[i] /\ u[i] \in Range(s)
             \/ i = Len(s) + 1 /\ u[i] = m
  BY <1>1 DEF Range
<1>3. ASSUME NEW i \in DOMAIN u, NEW j \in DOMAIN u, i < j PROVE u[i] < u[j]
  <2>1. i \in DOMAIN s /\ u[i] = s[i] /\ u[i] \in Range(s)  BY <1>1, <1>2, <1>3
  <2> QED  BY <1>2, <1>3, <2>1 DEF Increasing, Below
<1>4. Range(u) = Range(s) \cup {m}
  <2>1. \A i \in DOMAIN s : i \in DOMAIN u  BY <1>1
  <2>2. Len(s) + 1 \in DOMAIN u  BY <1>1
  <2> QED  BY <1>1, <1>2, <2>1, <2>2 DEF Range
<1> QED  BY <1>1, <1>3, <1>4 DEF u, Increasing

\* The first element of an increasing sequence is below the others.
LEMMA IncreasingTail ==
    ASSUME NEW s \in Seq(Messages), s # <<>>, Increasing(s)
    PROVE  /\ Head(s) \in Messages /\ Tail(s) \in Seq(Messages) /\ Increasing(Tail(s))
           /\ Range(s) = {Head(s)} \cup Range(Tail(s))
           /\ Below({Head(s)}, Range(Tail(s)))
<1> DEFINE u == Tail(s)
<1>1. /\ Head(s) \in Messages /\ u \in Seq(Messages) /\ Len(u) = Len(s) - 1
      /\ \A i \in 1 .. Len(u) : u[i] = s[i + 1]
      /\ Head(s) = s[1] /\ Len(s) \in Nat /\ Len(s) > 0
  BY HeadTailProperties, LenProperties, EmptySeq
<1> HIDE DEF u
<1>2. ASSUME NEW i \in DOMAIN u
      PROVE  i \in Nat /\ i + 1 \in DOMAIN s /\ u[i] = s[i + 1] /\ s[1] < u[i] /\ u[i] \in Range(s)
  <2>1. i \in Nat /\ i + 1 \in DOMAIN s /\ u[i] = s[i + 1] /\ 1 \in DOMAIN s /\ 1 < i + 1  BY <1>1
  <2> QED  BY <2>1 DEF Increasing, Range
<1>3. \A i, j \in DOMAIN u : i < j => u[i] < u[j]  BY <1>2 DEF Increasing
<1>4. ASSUME NEW i \in DOMAIN s PROVE s[i] \in {Head(s)} \cup Range(u)
  <2>1. CASE i = 1  BY <1>1, <2>1
  <2>2. CASE i # 1
    <3>1. i - 1 \in DOMAIN u /\ u[i - 1] = s[i]  BY <1>1, <2>2
    <3> QED  BY <3>1 DEF Range
  <2> QED  BY <2>1, <2>2
<1>5. Head(s) \in Range(s)
  <2>1. 1 \in DOMAIN s  BY <1>1
  <2> QED  BY <1>1, <2>1 DEF Range
<1>6. Range(u) \subseteq Range(s) /\ Below({Head(s)}, Range(u))
  BY <1>1, <1>2 DEF Range, Below
<1>7. Range(s) \subseteq {Head(s)} \cup Range(u)  BY <1>4 DEF Range
<1> QED  BY <1>1, <1>3, <1>5, <1>6, <1>7 DEF u, Increasing

\* The last MaxAggregates of an increasing sequence.
LEMMA IncreasingTrimmed ==
    ASSUME NEW s \in Seq(Messages), Increasing(s)
    PROVE  Increasing(Trimmed(s))
<1>1. CASE ~(IsKafka /\ Len(s) > MaxAggregates)  BY <1>1 DEF Trimmed
<1>2. CASE IsKafka /\ Len(s) > MaxAggregates
  <2> DEFINE k == Len(s) - MaxAggregates
             u == SubSeq(s, k + 1, Len(s))
  <2>1. MaxAggregates \in Nat /\ Len(s) \in Nat  BY DashboardAssumption
  <2>2. Trimmed(s) = u  BY <1>2 DEF Trimmed
  <2>3. k + 1 \in 1 .. Len(s) + 1 /\ k \in Nat  BY <1>2, <2>1, DashboardAssumption
  <2>4. u \in Seq(Messages) /\ Len(u) = Len(s) - k  BY <2>1, <2>3
  <2>5. \A i \in 1 .. Len(u) : u[i] = s[k + i]  BY <2>1, <2>3
  <2> HIDE DEF k, u
  <2>6. ASSUME NEW i \in DOMAIN u, NEW j \in DOMAIN u, i < j PROVE u[i] < u[j]
    <3>1. k + i \in DOMAIN s /\ k + j \in DOMAIN s /\ k + i < k + j  BY <2>1, <2>3, <2>4, <2>6
    <3> QED  BY <2>4, <2>5, <3>1 DEF Increasing
  <2> QED  BY <2>2, <2>6 DEF Increasing
<1> QED  BY <1>1, <1>2

\* Two sequences one after the other.
LEMMA IncreasingConcat ==
    ASSUME NEW s \in Seq(Messages), NEW u \in Seq(Messages),
           Increasing(s), Increasing(u), Below(Range(s), Range(u))
    PROVE  s \o u \in Seq(Messages) /\ Increasing(s \o u) /\ Range(s \o u) \subseteq Range(s) \cup Range(u)
<1> DEFINE v == s \o u
<1>1. /\ v \in Seq(Messages) /\ Len(v) = Len(s) + Len(u) /\ Len(s) \in Nat /\ Len(u) \in Nat
      /\ \A i \in 1 .. Len(s) + Len(u) : v[i] = IF i <= Len(s) THEN s[i] ELSE u[i - Len(s)]
  BY ConcatProperties, LenProperties
<1> HIDE DEF v
<1>2. ASSUME NEW i \in DOMAIN v
      PROVE  /\ i <= Len(s) => i \in DOMAIN s /\ v[i] = s[i] /\ v[i] \in Range(s)
             /\ i > Len(s) => i - Len(s) \in DOMAIN u /\ v[i] = u[i - Len(s)] /\ v[i] \in Range(u)
             /\ i \in Nat
  <2>1. i \in 1 .. Len(s) + Len(u)  BY <1>1
  <2>2. i <= Len(s) => i \in DOMAIN s /\ v[i] = s[i]  BY <1>1, <2>1
  <2>3. i > Len(s) => i - Len(s) \in DOMAIN u /\ v[i] = u[i - Len(s)]  BY <1>1, <2>1
  <2> QED  BY <2>1, <2>2, <2>3 DEF Range
<1>3. ASSUME NEW i \in DOMAIN v, NEW j \in DOMAIN v, i < j PROVE v[i] < v[j]
  <2>0. i \in Nat /\ j \in Nat  BY <1>2
  <2>1. CASE j <= Len(s)
    <3>1. i <= Len(s)  BY <1>1, <1>3, <2>0, <2>1
    <3> QED  BY <1>2, <1>3, <2>1, <3>1 DEF Increasing
  <2>2. CASE i <= Len(s) /\ j > Len(s)
    <3>1. v[i] \in Range(s) /\ v[j] \in Range(u)  BY <1>2, <2>2
    <3> QED  BY <3>1 DEF Below
  <2>3. CASE i > Len(s)
    <3>1. j > Len(s) /\ i - Len(s) < j - Len(s)  BY <1>1, <1>3, <2>0, <2>3
    <3>2. /\ i - Len(s) \in DOMAIN u /\ v[i] = u[i - Len(s)]
          /\ j - Len(s) \in DOMAIN u /\ v[j] = u[j - Len(s)]
      BY <1>2, <2>3, <3>1
    <3> QED  BY <3>1, <3>2 DEF Increasing
  <2> QED  BY <1>1, <2>0, <2>1, <2>2, <2>3
<1>4. Range(v) \subseteq Range(s) \cup Range(u)
  <2>1. \A i \in DOMAIN v : i <= Len(s) \/ i > Len(s)  BY <1>1, <1>2
  <2> QED  BY <1>2, <2>1 DEF Range
<1> QED  BY <1>1, <1>3, <1>4 DEF v, Increasing

\* A part of one aggregate or none.
LEMMA OneIs ==
    ASSUME NEW m \in Messages \cup {NoMessage}
    PROVE  One(m) \in Seq(Messages) /\ Increasing(One(m)) /\ Range(One(m)) = Only(m)
<1>1. CASE m = NoMessage
  <2>1. <<>> \in Seq(Messages) /\ DOMAIN <<>> = {} /\ Range(<<>>) = {}  BY EmptySeq DEF Range
  <2> QED  BY <1>1, <2>1 DEF One, Only, Increasing
<1>2. CASE m # NoMessage
  <2>1. <<m>> \in Seq(Messages) /\ Len(<<m>>) = 1 /\ DOMAIN <<m>> = {1} /\ <<m>>[1] = m  BY <1>2
  <2>2. Range(<<m>>) = {m}  BY <2>1 DEF Range
  <2>3. Increasing(<<m>>)  BY <2>1 DEF Increasing
  <2> QED  BY <1>2, <2>1, <2>2, <2>3 DEF One, Only
<1> QED  BY <1>1, <1>2

\* The parts in order make a line in order.
LEMMA OrderedLine ==
    ASSUME NEW k \in Seq(Messages), NEW q \in Seq(Messages),
           NEW h \in Messages \cup {NoMessage}, NEW i \in Messages \cup {NoMessage},
           Ordered(k, h, q, i)
    PROVE  Increasing(k \o One(h) \o q \o One(i))
<1>1. /\ One(h) \in Seq(Messages) /\ Increasing(One(h)) /\ Range(One(h)) = Only(h)
      /\ One(i) \in Seq(Messages) /\ Increasing(One(i)) /\ Range(One(i)) = Only(i)
  BY OneIs
<1> DEFINE a == k \o One(h)
           b == a \o q
           c == b \o One(i)
<1>2. /\ a \in Seq(Messages) /\ Increasing(a) /\ Range(a) \subseteq Range(k) \cup Only(h)
  <2>1. Below(Range(k), Range(One(h)))  BY <1>1 DEF Ordered, Below
  <2> QED  BY <1>1, <2>1, IncreasingConcat DEF Ordered
<1> HIDE DEF a
<1>3. /\ b \in Seq(Messages) /\ Increasing(b) /\ Range(b) \subseteq Range(k) \cup Only(h) \cup Range(q)
  <2>1. Below(Range(a), Range(q))  BY <1>2 DEF Ordered, Below
  <2>2. /\ b \in Seq(Messages) /\ Increasing(b) /\ Range(b) \subseteq Range(a) \cup Range(q)
    BY <1>2, <2>1, IncreasingConcat DEF Ordered
  <2> QED  BY <1>2, <2>2
<1> HIDE DEF b
<1>4. Increasing(c)
  <2>1. Below(Range(b), Range(One(i)))  BY <1>1, <1>3 DEF Ordered, Below
  <2> QED  BY <1>1, <1>3, <2>1, IncreasingConcat
<1> QED  BY <1>4 DEF a, b, c

\* A step moves an aggregate on, or drops parts: the order stays.
LEMMA OrderedMoves ==
    ASSUME NEW k \in Seq(Messages), NEW q \in Seq(Messages),
           NEW h \in Messages \cup {NoMessage}, NEW i \in Messages \cup {NoMessage},
           Ordered(k, h, q, i)
    PROVE  /\ Ordered(k, NoMessage, q, i) /\ Ordered(k, h, q, NoMessage)
           /\ Ordered(<<>>, h, q, i) /\ Ordered(k, h, <<>>, NoMessage)
           /\ Ordered(<<>>, NoMessage, <<>>, NoMessage)
           /\ Ordered(Trimmed(k), h, q, i)
<1>1. Only(NoMessage) = {} /\ Range(<<>>) = {} /\ Increasing(<<>>)  BY DEF Only, Range, Increasing
<1>2. /\ Ordered(k, NoMessage, q, i) /\ Ordered(k, h, q, NoMessage)
      /\ Ordered(<<>>, h, q, i) /\ Ordered(k, h, <<>>, NoMessage)
      /\ Ordered(<<>>, NoMessage, <<>>, NoMessage)
  BY <1>1 DEF Ordered, Below
<1>3. Ordered(Trimmed(k), h, q, i)
  <2>1. Increasing(Trimmed(k)) /\ Range(Trimmed(k)) \subseteq Range(k)
    BY IncreasingTrimmed, TrimmedType DEF Ordered
  <2> QED  BY <2>1 DEF Ordered, Below
<1> QED  BY <1>2, <1>3

\* The message at hand goes to the end of the queue, the first one of the queue is taken or dropped.
LEMMA OrderedQueue ==
    ASSUME NEW k \in Seq(Messages), NEW q \in Seq(Messages),
           NEW h \in Messages \cup {NoMessage}, NEW i \in Messages \cup {NoMessage},
           Ordered(k, h, q, i)
    PROVE  /\ i # NoMessage => Ordered(k, h, Append(q, i), NoMessage)
           /\ q # <<>> => Ordered(k, h, Tail(q), i)
           /\ q # <<>> /\ h = NoMessage => Ordered(k, Head(q), Tail(q), i)
           /\ h # NoMessage => Ordered(Append(k, h), NoMessage, q, i)
<1>1. Only(NoMessage) = {} /\ \A m \in Messages : Only(m) = {m}  BY DashboardAssumption DEF Only
<1>2. ASSUME i # NoMessage PROVE Ordered(k, h, Append(q, i), NoMessage)
  <2>1. i \in Messages /\ Only(i) = {i}  BY <1>1, <1>2
  <2>2. Increasing(Append(q, i)) /\ Range(Append(q, i)) = Range(q) \cup {i}
    BY <2>1, IncreasingAppend DEF Ordered
  <2> QED  BY <1>1, <2>1, <2>2 DEF Ordered, Below
<1>3. ASSUME q # <<>>
      PROVE  Ordered(k, h, Tail(q), i) /\ (h = NoMessage => Ordered(k, Head(q), Tail(q), i))
  <2>1. /\ Head(q) \in Messages /\ Increasing(Tail(q)) /\ Range(q) = {Head(q)} \cup Range(Tail(q))
        /\ Below({Head(q)}, Range(Tail(q)))
    BY <1>3, IncreasingTail DEF Ordered
  <2>2. Only(Head(q)) = {Head(q)}  BY <1>1, <2>1
  <2>3. Ordered(k, h, Tail(q), i)  BY <2>1 DEF Ordered, Below
  <2>4. ASSUME h = NoMessage PROVE Ordered(k, Head(q), Tail(q), i)
    BY <1>1, <2>1, <2>2, <2>4 DEF Ordered, Below
  <2> QED  BY <2>3, <2>4
<1>4. ASSUME h # NoMessage PROVE Ordered(Append(k, h), NoMessage, q, i)
  <2>1. h \in Messages /\ Only(h) = {h}  BY <1>1, <1>4
  <2>2. Below(Range(k), {h})  BY <2>1 DEF Ordered, Below
  <2>3. Increasing(Append(k, h)) /\ Range(Append(k, h)) = Range(k) \cup {h}
    BY <2>1, <2>2, IncreasingAppend DEF Ordered
  <2> QED  BY <1>1, <2>1, <2>3 DEF Ordered, Below
<1> QED  BY <1>2, <1>3, <1>4

\* One that is newer than the whole line is received.
LEMMA OrderedReceive ==
    ASSUME NEW k \in Seq(Messages), NEW q \in Seq(Messages), NEW h \in Messages \cup {NoMessage},
           NEW m \in Messages, Ordered(k, h, q, NoMessage),
           Below(Range(k) \cup Only(h) \cup Range(q), {m})
    PROVE  Ordered(k, h, q, m) /\ Ordered(k, h, Append(q, m), NoMessage)
<1>1. m # NoMessage /\ Only(m) = {m}  BY DashboardAssumption DEF Only
<1>2. Ordered(k, h, q, m)
  BY <1>1 DEF Ordered, Below
<1> QED  BY <1>1, <1>2, OrderedQueue

Items(t) == Range(kept[t]) \cup Only(held[t]) \cup Range(queue[t]) \cup Only(Pending(t))

\* The line of a tab, and where two of its parts are empty.
InLine(t) ==
    /\ listener[t] \in {"full", "evict"} => IsKafka
    /\ listener[t] = "ack" => ~IsKafka
    /\ listener[t] \in {"none", "poll"} => incoming[t] = NoMessage
    /\ script[t] # "took" => held[t] = NoMessage
    /\ \A m \in Items(t) : m <= received
    /\ Ordered(kept[t], held[t], queue[t], Pending(t))

LineInv == \A t \in Tabs : InLine(t)

LEMMA LineInit == Init => LineInv
<1> SUFFICES ASSUME Init, NEW t \in Tabs PROVE InLine(t)  BY DEF LineInv
<1>1. Only(NoMessage) = {} /\ Range(<<>>) = {} /\ Increasing(<<>>)  BY DEF Only, Range, Increasing
<1>2. Ordered(<<>>, NoMessage, <<>>, NoMessage)  BY <1>1 DEF Ordered, Below
<1>3. Pending(t) = NoMessage  BY DEF Init, Pending
<1> QED  BY <1>1, <1>2, <1>3 DEF Init, InLine, Items

LEMMA ItemsTyped ==
    ASSUME TypeOK, NEW u \in Tabs
    PROVE  /\ kept[u] \in Seq(Messages) /\ queue[u] \in Seq(Messages)
           /\ held[u] \in Messages \cup {NoMessage} /\ Pending(u) \in Messages \cup {NoMessage}
           /\ Items(u) \subseteq Messages
<1>1. /\ kept[u] \in Seq(Messages) /\ queue[u] \in Seq(Messages)
      /\ held[u] \in Messages \cup {NoMessage} /\ Pending(u) \in Messages \cup {NoMessage}
  BY DEF TypeOK, Pending
<1>2. Range(kept[u]) \subseteq Messages /\ Range(queue[u]) \subseteq Messages  BY <1>1, SeqRange
<1> QED  BY <1>1, <1>2 DEF Items, Only

\* A step that leaves the line of a tab alone.
LEMMA InLineKept ==
    ASSUME TypeOK, NEW u \in Tabs, InLine(u),
           kept'[u] = kept[u], held'[u] = held[u], queue'[u] = queue[u],
           incoming'[u] = incoming[u], listener'[u] = listener[u],
           script'[u] # "took" => script[u] # "took",
           IsKafka' = IsKafka, received \in Nat, received' \in Nat, received <= received'
    PROVE  InLine(u)'
<1>1. Pending(u)' = Pending(u)  BY DEF Pending
<1>2. Items(u)' = Items(u) /\ Items(u) \subseteq Messages  BY <1>1, ItemsTyped DEF Items
<1>3. \A m \in Items(u)' : m <= received'
  <2>1. \A m \in Messages : m \in Nat  BY DEF Messages
  <2>2. \A m \in Items(u) : m \in Nat /\ m <= received  BY <1>2, <2>1 DEF InLine
  <2> QED  BY <1>2, <2>2
<1> QED  BY <1>1, <1>3 DEF InLine

\* The actions of a tab and of its listener, but for what it receives.
Steps(t) ==
    \/ Acknowledge(t) \/ MakeRoom(t) \/ Evict(t)
    \/ Open(t) \/ Break(t) \/ Launch(t) \/ Started(t) \/ Take(t) \/ Keep(t) \/ Draw(t)
    \/ Clear(t) \/ Rerun(t) \/ Interrupt(t) \/ Close(t)

LEMMA OtherTabs ==
    ASSUME TypeOK, NEW t \in Tabs, NEW u \in Tabs, u # t, Steps(t) \/ \E m \in Messages : Receive(t, m)
    PROVE  /\ kept'[u] = kept[u] /\ held'[u] = held[u] /\ queue'[u] = queue[u]
           /\ incoming'[u] = incoming[u] /\ listener'[u] = listener[u] /\ script'[u] = script[u]
<1> DEFINE Q == /\ kept'[u] = kept[u] /\ held'[u] = held[u] /\ queue'[u] = queue[u]
                /\ incoming'[u] = incoming[u] /\ listener'[u] = listener[u] /\ script'[u] = script[u]
<1> USE DEF given, topic, session, thread, TypeOK
<1>1. ASSUME NEW m \in Messages, Receive(t, m) PROVE Q  BY <1>1 DEF Receive
<1>2. CASE Acknowledge(t) \/ MakeRoom(t) \/ Evict(t)  BY <1>2 DEF Acknowledge, MakeRoom, Evict
<1>3. CASE Open(t) \/ Break(t) \/ Launch(t) \/ Started(t)
  BY <1>3 DEF Open, Break, Launch, Started, Enter, Detach
<1>4. CASE Take(t) \/ Keep(t) \/ Draw(t)  BY <1>4 DEF Take, Keep, Draw, Enter
<1>5. CASE Clear(t) \/ Rerun(t) \/ Interrupt(t)  BY <1>5 DEF Clear, Rerun, Interrupt, NewRun, Enter
<1>6. CASE Close(t)  BY <1>6 DEF Close, Enter, Detach
<1> QED  BY <1>1, <1>2, <1>3, <1>4, <1>5, <1>6 DEF Steps

LEMMA InLineStep ==
    ASSUME TInv, NEW t \in Tabs, InLine(t), IsKafka' = IsKafka, Steps(t)
    PROVE  InLine(t)' /\ UNCHANGED received
<1> DEFINE k == kept[t]
           h == held[t]
           q == queue[t]
           i == Pending(t)
<1>1. /\ k \in Seq(Messages) /\ q \in Seq(Messages)
      /\ h \in Messages \cup {NoMessage} /\ i \in Messages \cup {NoMessage}
      /\ Ordered(k, h, q, i)
  BY ItemsTyped DEF TInv, InLine
<1>2. Only(NoMessage) = {} /\ Range(<<>>) = {} /\ \A m \in Messages : Only(m) = {m}
  BY DashboardAssumption DEF Only, Range
<1>3. TypeOK /\ AtHand  BY DEF TInv
<1>4. UNCHANGED received
  BY DEF Steps, InLine, Acknowledge, MakeRoom, Evict, Open, Break, Launch, Started, Take, Keep, Draw,
         Clear, Rerun, Interrupt, Close, topic
<1>16. /\ incoming'[t] = incoming[t] => Pending(t)' = i
       /\ incoming'[t] = NoMessage => Pending(t)' = NoMessage
  BY DEF Pending
<1>5. CASE Acknowledge(t)
  <2>1. /\ listener'[t] = "poll" /\ incoming'[t] = NoMessage /\ ~IsKafka /\ i = NoMessage
        /\ UNCHANGED <<kept, held, queue, script>>
    BY <1>3, <1>5 DEF Acknowledge, InLine, session, TypeOK, Pending
  <2> QED  BY <1>4, <1>16, <2>1 DEF InLine, Items
<1>6. CASE MakeRoom(t)
  <2>1. CASE Len(queue[t]) >= Capacity
    <3>1. listener'[t] = "evict" /\ UNCHANGED <<kept, held, queue, incoming, script>>
      BY <1>3, <1>6, <2>1 DEF MakeRoom, session, TypeOK
    <3>2. IsKafka  BY <1>6 DEF MakeRoom, InLine
    <3> QED  BY <1>4, <1>16, <3>1, <3>2 DEF InLine, Items
  <2>2. CASE ~(Len(queue[t]) >= Capacity)
    <3>1. /\ listener'[t] = "poll" /\ incoming'[t] = NoMessage /\ queue'[t] = Append(q, i)
          /\ UNCHANGED <<kept, held, script>> /\ i \in Messages
      BY <1>3, <1>6, <2>2 DEF MakeRoom, session, TypeOK, AtHand, InLine, Pending
    <3>2. Ordered(k, h, Append(q, i), NoMessage)  BY <1>1, <3>1, DashboardAssumption, OrderedQueue
    <3>3. Items(t)' = Items(t)
      <4>1. Range(Append(q, i)) = Range(q) \cup {i}
        <5>1. Increasing(q) /\ Below(Range(q), {i})  BY <1>1, <1>2, <3>1 DEF Ordered
        <5> QED  BY <1>1, <3>1, <5>1, IncreasingAppend
      <4> QED  BY <1>2, <1>16, <3>1, <4>1 DEF Items
    <3> QED  BY <1>4, <1>16, <3>1, <3>2, <3>3 DEF InLine
  <2> QED  BY <2>1, <2>2
<1>7. CASE Evict(t)
  <2>1. CASE q = <<>>
    <3>1. /\ listener'[t] = "poll" /\ incoming'[t] = NoMessage /\ UNCHANGED <<kept, held, queue, script>>
      BY <1>3, <1>7, <2>1 DEF Evict, session, TypeOK
    <3>2. Ordered(k, h, q, NoMessage)  BY <1>1, OrderedMoves
    <3>3. Items(t)' \subseteq Items(t)  BY <1>2, <1>16, <3>1 DEF Items
    <3> QED  BY <1>4, <1>16, <3>1, <3>2, <3>3 DEF InLine
  <2>2. CASE q # <<>>
    <3>1. /\ listener'[t] = "full" /\ queue'[t] = Tail(q) /\ UNCHANGED <<kept, held, incoming, script>>
      BY <1>3, <1>7, <2>2 DEF Evict, session, TypeOK
    <3>2. Ordered(k, h, Tail(q), i)  BY <1>1, <2>2, OrderedQueue
    <3>3. Items(t)' \subseteq Items(t)
      <4>1. Range(Tail(q)) \subseteq Range(q)  BY <1>1, <2>2, IncreasingTail DEF Ordered
      <4> QED  BY <1>16, <3>1, <4>1 DEF Items
    <3>4. IsKafka  BY <1>7 DEF Evict, InLine
    <3> QED  BY <1>4, <1>16, <3>1, <3>2, <3>3, <3>4 DEF InLine
  <2> QED  BY <2>1, <2>2
<1>8. CASE Open(t) \/ Break(t) \/ Started(t) \/ Rerun(t)
  <2>1. /\ UNCHANGED <<kept, held, queue, incoming, listener>> /\ script[t] # "took"
    BY <1>8 DEF Open, Break, Boots, Started, Rerun, session, thread
  <2>2. received \in Nat /\ received' = received  BY <1>3, <1>4, DashboardAssumption DEF TypeOK
  <2> QED  BY <1>3, <2>1, <2>2, InLineKept
<1>9. CASE Launch(t)
  <2>1. /\ listener'[t] = "poll" /\ incoming'[t] = NoMessage /\ queue'[t] = <<>>
        /\ UNCHANGED <<kept, held>> /\ script[t] # "took"
    BY <1>3, <1>9 DEF Launch, Boots, Detach, TypeOK
  <2>2. Ordered(k, h, <<>>, NoMessage)  BY <1>1, OrderedMoves
  <2>3. Items(t)' \subseteq Items(t)  BY <1>2, <1>16, <2>1 DEF Items
  <2> QED  BY <1>4, <1>16, <2>1, <2>2, <2>3 DEF InLine
<1>10. CASE Take(t)
  <2>1. /\ q # <<>> /\ script'[t] = "took" /\ held'[t] = Head(q) /\ queue'[t] = Tail(q)
        /\ UNCHANGED <<kept, incoming, listener>> /\ h = NoMessage
    BY <1>3, <1>10 DEF Take, Enter, TypeOK, InLine
  <2>2. Ordered(k, Head(q), Tail(q), i)  BY <1>1, <2>1, OrderedQueue
  <2>3. Items(t)' \subseteq Items(t)
    <3>1. Head(q) \in Messages /\ Range(q) = {Head(q)} \cup Range(Tail(q))
      BY <1>1, <2>1, IncreasingTail DEF Ordered
    <3> QED  BY <1>2, <1>16, <2>1, <3>1 DEF Items
  <2> QED  BY <1>4, <1>16, <2>1, <2>2, <2>3 DEF InLine
<1>11. CASE Keep(t)
  <2>1. /\ h \in Messages /\ kept'[t] = Append(k, h) /\ held'[t] = NoMessage /\ script'[t] = "drain"
        /\ UNCHANGED <<queue, incoming, listener>>
    BY <1>3, <1>11 DEF Keep, Enter, AtHand, TypeOK, thread
  <2>2. Ordered(Append(k, h), NoMessage, q, i)  BY <1>1, <2>1, DashboardAssumption, OrderedQueue
  <2>3. Items(t)' \subseteq Items(t)
    <3>1. Increasing(k) /\ Below(Range(k), {h})  BY <1>1, <1>2, <2>1 DEF Ordered, Below
    <3>2. Range(Append(k, h)) = Range(k) \cup {h}  BY <1>1, <2>1, <3>1, IncreasingAppend
    <3> QED  BY <1>2, <1>16, <2>1, <3>2 DEF Items
  <2> QED  BY <1>4, <1>16, <2>1, <2>2, <2>3 DEF InLine
<1>12. CASE Draw(t)
  <2>1. /\ kept'[t] = Trimmed(k) /\ UNCHANGED <<held, queue, incoming, listener>> /\ script[t] # "took"
    BY <1>3, <1>12 DEF Draw, Drained, TypeOK, thread
  <2>2. Ordered(Trimmed(k), h, q, i)  BY <1>1, OrderedMoves
  <2>3. Items(t)' \subseteq Items(t)  BY <1>1, <1>16, <2>1, TrimmedType DEF Items
  <2> QED  BY <1>4, <1>16, <2>1, <2>2, <2>3 DEF InLine
<1>13. CASE Clear(t)
  <2>1. /\ kept'[t] = <<>> /\ UNCHANGED <<held, queue, incoming, listener>> /\ script[t] # "took"
    BY <1>3, <1>13 DEF Clear, Drained, Boots, TypeOK, thread
  <2>2. Ordered(<<>>, h, q, i)  BY <1>1, OrderedMoves
  <2>3. Items(t)' \subseteq Items(t)  BY <1>2, <1>16, <2>1 DEF Items
  <2> QED  BY <1>4, <1>16, <2>1, <2>2, <2>3 DEF InLine
<1>14. CASE Interrupt(t)
  <2>1. /\ held'[t] = NoMessage /\ UNCHANGED <<kept, queue, incoming, listener>>
    BY <1>3, <1>14 DEF Interrupt, TypeOK, thread
  <2>2. Ordered(k, NoMessage, q, i)  BY <1>1, OrderedMoves
  <2>3. Items(t)' \subseteq Items(t)  BY <1>2, <1>16, <2>1 DEF Items
  <2> QED  BY <1>4, <1>16, <2>1, <2>2, <2>3 DEF InLine
<1>15. CASE Close(t)
  <2>1. /\ kept'[t] = <<>> /\ held'[t] = NoMessage /\ queue'[t] = <<>> /\ incoming'[t] = NoMessage
        /\ listener'[t] = "none"
    BY <1>3, <1>15 DEF Close, Detach, TypeOK
  <2>2. Ordered(<<>>, NoMessage, <<>>, NoMessage)  BY <1>1, OrderedMoves
  <2>3. Items(t)' \subseteq Items(t)  BY <1>2, <1>16, <2>1 DEF Items
  <2> QED  BY <1>4, <1>16, <2>1, <2>2, <2>3 DEF InLine
<1> QED
  BY <1>4, <1>5, <1>6, <1>7, <1>8, <1>9, <1>10, <1>11, <1>12, <1>13, <1>14, <1>15 DEF Steps

\* The next aggregate has a higher number than all that this tab has had.
LEMMA InLineReceive ==
    ASSUME TInv, NEW t \in Tabs, InLine(t), IsKafka' = IsKafka, NEW m \in Messages, Receive(t, m)
    PROVE  InLine(t)'
<1> DEFINE k == kept[t]
           h == held[t]
           q == queue[t]
<1>0. TypeOK /\ AtHand  BY DEF TInv
<1>1. /\ k \in Seq(Messages) /\ q \in Seq(Messages) /\ h \in Messages \cup {NoMessage}
      /\ listener[t] = "poll" /\ incoming[t] = NoMessage /\ Pending(t) = NoMessage
      /\ Ordered(k, h, q, NoMessage)
  BY <1>0, ItemsTyped DEF InLine, Receive, Pending
<1>2. received' = m /\ m = received + 1 /\ received \in Nat  BY <1>0, ReceivedType DEF Receive
<1>3. \A x \in Items(t) : x \in Nat /\ x <= received
  BY <1>0, ItemsTyped DEF InLine, Messages
<1>4. Ordered(k, h, q, m) /\ Ordered(k, h, Append(q, m), NoMessage)
  <2>1. Below(Range(k) \cup Only(h) \cup Range(q), {m})
    BY <1>2, <1>3 DEF Items, Below
  <2> QED  BY <1>1, <2>1, OrderedReceive
<1>5. Only(NoMessage) = {} /\ Only(m) = {m}  BY DashboardAssumption DEF Only
<1>6. \A x \in Items(t) \cup {m} : x <= received'  BY <1>2, <1>3
<1>7. UNCHANGED <<kept, held, script>>  BY DEF Receive, session
<1>8. CASE IsFull(t)
  <2>1. listener'[t] = "full" /\ incoming'[t] = m /\ queue' = queue /\ IsKafka
    BY <1>0, <1>8 DEF Receive, TypeOK, IsFull
  <2>2. Pending(t)' = m  BY <2>1 DEF Pending
  <2>3. Items(t)' = Items(t) \cup {m}  BY <1>1, <1>5, <1>7, <2>1, <2>2 DEF Items
  <2> QED  BY <1>1, <1>4, <1>6, <1>7, <2>1, <2>2, <2>3 DEF InLine
<1>9. CASE ~IsFull(t)
  <2>1. /\ queue'[t] = Append(q, m)
        /\ \/ IsKafka /\ UNCHANGED <<listener, incoming>>
           \/ ~IsKafka /\ listener'[t] = "ack"
    BY <1>0, <1>9 DEF Receive, TypeOK
  <2>2. Pending(t)' = NoMessage  BY <1>1, <2>1 DEF Pending
  <2>3. Items(t)' = Items(t) \cup {m}
    <3>1. Increasing(q) /\ Below(Range(q), {m})  BY <1>1, <1>2, <1>3 DEF Ordered, Items, Below
    <3>2. Range(Append(q, m)) = Range(q) \cup {m}  BY <1>1, <3>1, IncreasingAppend
    <3> QED  BY <1>1, <1>7, <2>1, <2>2, <3>2 DEF Items
  <2> QED  BY <1>1, <1>4, <1>6, <1>7, <2>1, <2>2, <2>3, <1>0 DEF InLine
<1> QED  BY <1>8, <1>9

LEMMA LineNext == TInv /\ LineInv /\ [Next]_vars => LineInv'
<1> SUFFICES ASSUME TInv, LineInv, [Next]_vars PROVE LineInv'  OBVIOUS
<1>1. IsKafka' = IsKafka  BY ScenarioKept DEF IsKafka
<1>2. TypeOK /\ \A t \in Tabs : InLine(t)  BY DEF TInv, LineInv
<1>3. received \in Nat  BY <1>2, DashboardAssumption DEF TypeOK
<1>4. ASSUME NEW t \in Tabs, NEW u \in Tabs, u # t, Steps(t) \/ \E m \in Messages : Receive(t, m),
             received' \in Nat, received <= received'
      PROVE  InLine(u)'
  <2>1. /\ kept'[u] = kept[u] /\ held'[u] = held[u] /\ queue'[u] = queue[u]
        /\ incoming'[u] = incoming[u] /\ listener'[u] = listener[u] /\ script'[u] = script[u]
    BY <1>2, <1>4, OtherTabs
  <2> QED  BY <1>1, <1>2, <1>3, <1>4, <2>1, InLineKept
<1>5. ASSUME NEW t \in Tabs, NEW m \in Messages, Receive(t, m) PROVE LineInv'
  <2>1. received' \in Nat /\ received <= received'
    <3>1. received' = received + 1  BY <1>2, <1>5, ReceivedType DEF Receive
    <3> QED  BY <1>3, <3>1
  <2>2. InLine(t)'  BY <1>1, <1>2, <1>5, InLineReceive
  <2> QED  BY <1>4, <1>5, <2>1, <2>2 DEF LineInv
<1>6. ASSUME NEW t \in Tabs, Steps(t) PROVE LineInv'
  <2>1. InLine(t)' /\ UNCHANGED received  BY <1>1, <1>2, <1>6, InLineStep
  <2> QED  BY <1>3, <1>4, <1>6, <2>1 DEF LineInv
<1>7. ASSUME NEW m \in Messages, ReceiveStray(m) PROVE LineInv'
  <2>1. UNCHANGED <<script, session, thread>> /\ received' = received + 1
    BY <1>2, <1>7, ReceivedType DEF ReceiveStray
  <2> QED  BY <1>1, <1>2, <1>3, <2>1, InLineKept DEF LineInv, session, thread
<1>8. CASE UNCHANGED vars
  <2>1. UNCHANGED <<received, kept, held, queue, incoming, listener, script>>
    BY <1>8 DEF vars, topic, session, thread
  <2> QED  BY <1>1, <1>2, <1>3, <2>1, InLineKept DEF LineInv
<1> QED  BY <1>5, <1>6, <1>7, <1>8 DEF Next, Steps

(***************************************************************************)
(* In every tab of either dashboard what is shown, taken, waiting and at   *)
(* hand is in the order in which its listener got it, and there once,      *)
(* whoever wins the races of the full queue, whatever the brokers give     *)
(* again and for whichever tab.                                            *)
(***************************************************************************)
THEOREM LineOrder == Spec => []InOrder
<1>1. TInv /\ LineInv => InOrder
  <2> SUFFICES ASSUME TInv, LineInv, NEW t \in Tabs PROVE Increasing(Line(t))
    BY DEF InOrder, Increasing
  <2>1. Ordered(kept[t], held[t], queue[t], Pending(t))  BY DEF LineInv, InLine
  <2> QED  BY <2>1, ItemsTyped, OrderedLine DEF TInv, Line
<1> QED  BY <1>1, LineInit, LineNext, TInvInvariant, PTL DEF Spec
=============================================================================
