------------------------ MODULE KafkaAnalyzerProofs ------------------------
(***************************************************************************)
(* What holds of KafkaAnalyzer for every number of consumers and           *)
(* partitions, every content of reviews.raw and every length of the window *)
(* and of the slide, with the file patched or not.                         *)
(***************************************************************************)
EXTENDS KafkaAnalyzer, TLAPS

-----------------------------------------------------------------------------
(* Type correctness *)
GroupTypeOK ==
    /\ members \subseteq Consumers /\ balanced \in BOOLEAN
    /\ assigned \in [Consumers -> SUBSET Partitions]
    /\ committed \in [Partitions -> 0 .. Size]
    /\ position \in [Consumers -> [Partitions -> 0 .. Size]]

LEMMA TypeInit == Init => TypeOK
<1> SUFFICES ASSUME Init PROVE TypeOK  OBVIOUS
<1>1. 0 \in 0 .. Size /\ 0 \in 0 .. Slide /\ Gone \in 0 .. Gone
  BY KafkaAssumption DEF Gone
<1>2. Window \div Slide \in Nat  BY KafkaAssumption
<1>3. 0 \in 0 .. Window \div Slide  BY <1>2
<1>4. age \in [Consumers -> [Messages -> 0 .. Gone]]  BY <1>1 DEF Init
<1>5. missed \in [Consumers -> [Messages -> 0 .. Window \div Slide]]  BY <1>3 DEF Init
<1> QED  BY <1>1, <1>4, <1>5 DEF Init, TypeOK

LEMMA LeaveGroupType ==
    ASSUME TypeOK, NEW c \in Consumers, LeaveGroup(c), committed' \in [Partitions -> 0 .. Size]
    PROVE  GroupTypeOK'
<1>1. 0 \in 0 .. Size  BY KafkaAssumption
<1> QED  BY <1>1 DEF TypeOK, LeaveGroup, GroupTypeOK

LEMMA CommitLastType ==
    ASSUME TypeOK, NEW c \in Consumers, CommitLast(c)
    PROVE  committed' \in [Partitions -> 0 .. Size]
BY DEF TypeOK, CommitLast

LEMMA BatchType ==
    ASSUME TypeOK, NEW c \in Consumers, NEW upto \in Batches(c)
    PROVE  Batch(c, upto) \subseteq Messages
<1>1. ASSUME NEW tp \in assigned[c], NEW i \in position[c][tp] + 1 .. upto[tp]
      PROVE  <<tp, i>> \in Messages
  <2>1. position[c][tp] \in 0 .. Size /\ upto[tp] \in 0 .. Size /\ tp \in Partitions
    BY DEF Batches, TypeOK
  <2>2. i \in 1 .. Size  BY <2>1, KafkaAssumption
  <2> QED  BY <2>1, <2>2 DEF Messages
<1> QED  BY <1>1 DEF Batch

LEMMA HandleType ==
    ASSUME TypeOK, NEW c \in Consumers, NEW upto \in Batches(c), Handle(c, upto)
    PROVE  /\ age' \in [Consumers -> [Messages -> 0 .. Gone]]
           /\ missed' \in [Consumers -> [Messages -> 0 .. Window \div Slide]]
           /\ handled' \subseteq Messages
           /\ position' \in [Consumers -> [Partitions -> 0 .. Size]]
           /\ last' \in [Consumers -> [Partitions -> 0 .. Size]]
<1>1. upto \in [assigned[c] -> 0 .. Size]  BY DEF Batches
<1>2. 0 \in 0 .. Gone /\ 0 \in 0 .. Window \div Slide
  <2>1. Window \div Slide \in Nat  BY KafkaAssumption
  <2> QED  BY <2>1, KafkaAssumption DEF Gone
<1>3. Batch(c, upto) \subseteq Messages  BY BatchType
<1>4. age' \in [Consumers -> [Messages -> 0 .. Gone]]  BY <1>2 DEF Handle, Add, TypeOK
<1>5. missed' \in [Consumers -> [Messages -> 0 .. Window \div Slide]]
  <2>1. missed \in [Consumers -> [Messages -> 0 .. Window \div Slide]]  BY DEF TypeOK
  <2>2. \E added : missed' = [missed EXCEPT ![c] = [m \in Messages |-> IF m \in added THEN 0 ELSE missed[c][m]]]
    BY DEF Handle, Add
  <2> QED  BY <1>2, <2>1, <2>2
<1>6. position' \in [Consumers -> [Partitions -> 0 .. Size]]
  <2>1. position \in [Consumers -> [Partitions -> 0 .. Size]]  BY DEF TypeOK
  <2>2. position' = [position EXCEPT ![c] =
            [tp \in Partitions |-> IF tp \in assigned[c] THEN upto[tp] ELSE position[c][tp]]]
    BY DEF Handle, Add
  <2> QED  BY <1>1, <2>1, <2>2
<1>7. last' \in [Consumers -> [Partitions -> 0 .. Size]]  BY <1>1 DEF Handle, Noted, TypeOK
<1> QED  BY <1>3, <1>4, <1>5, <1>6, <1>7 DEF Handle, Add, TypeOK

LEMMA VanishType ==
    ASSUME TypeOK, NEW c \in Consumers, NEW end \in {"ended", "failed", "crashed"}, Vanish(c, end),
           GroupTypeOK', reported' \subseteq Messages, excused' \subseteq Messages
    PROVE  TypeOK'
<1>1. 0 \in 0 .. Size /\ 0 \in 0 .. Slide /\ Gone \in 0 .. Gone
  BY KafkaAssumption DEF Gone
<1>2. Window \div Slide \in Nat  BY KafkaAssumption
<1>3. 0 \in 0 .. Window \div Slide  BY <1>2
<1>4. age' \in [Consumers -> [Messages -> 0 .. Gone]]  BY <1>1 DEF Vanish, TypeOK
<1>5. missed' \in [Consumers -> [Messages -> 0 .. Window \div Slide]]  BY <1>3 DEF Vanish, TypeOK
<1>6. last' \in [Consumers -> [Partitions -> 0 .. Size]] /\ timer' \in [Consumers -> 0 .. Slide]
  BY <1>1 DEF Vanish, TypeOK
<1> QED  BY <1>4, <1>5, <1>6 DEF Vanish, TypeOK, GroupTypeOK, given

LEMMA TypeNext == TypeOK /\ [Next]_vars => TypeOK'
<1> SUFFICES ASSUME TypeOK, [Next]_vars PROVE TypeOK'  OBVIOUS
<1> USE DEF given, groupVars, windowVars, pastVars
<1>0. 0 \in 0 .. Size /\ 0 \in 0 .. Slide  BY KafkaAssumption
<1>1. CASE UNCHANGED vars  BY <1>1 DEF vars, TypeOK
<1>2. CASE Rebalance
  <2>1. PICK f \in [Partitions -> IF members = {} THEN {"nobody"} ELSE members] :
          assigned' = [c \in Consumers |-> {tp \in Partitions : f[tp] = c}]
    BY <1>2 DEF Rebalance
  <2>2. assigned' \in [Consumers -> SUBSET Partitions]  BY <2>1
  <2>3. position' \in [Consumers -> [Partitions -> 0 .. Size]]  BY <1>0, <1>2 DEF Rebalance, TypeOK
  <2> QED  BY <1>2, <2>2, <2>3 DEF Rebalance, TypeOK
<1>3. CASE Tick
  <2>1. timer' \in [Consumers -> 0 .. Slide]
    <3>1. ASSUME NEW c \in Consumers
          PROVE  (IF c \in sliding THEN timer[c] + 1 ELSE timer[c]) \in 0 .. Slide
      BY <1>3, KafkaAssumption DEF Tick, TypeOK
    <3> QED  BY <1>3, <3>1 DEF Tick
  <2>2. age' \in [Consumers -> [Messages -> 0 .. Gone]]
    <3>1. ASSUME NEW c \in Consumers, NEW m \in Messages
          PROVE  (IF age[c][m] = Gone THEN Gone ELSE age[c][m] + 1) \in 0 .. Gone
      <4>1. age[c][m] \in 0 .. Gone  BY DEF TypeOK
      <4>2. Gone \in Nat  BY KafkaAssumption DEF Gone
      <4> QED  BY <4>1, <4>2
    <3> QED  BY <1>3, <3>1 DEF Tick
  <2> QED  BY <1>3, <2>1, <2>2 DEF Tick, TypeOK
<1>4. ASSUME NEW c \in Consumers, Evict(c) PROVE TypeOK'
  <2>1. GroupTypeOK'  BY <1>4, LeaveGroupType DEF Evict, TypeOK
  <2> QED  BY <1>4, <2>1 DEF Evict, TypeOK, GroupTypeOK
<1>5. ASSUME NEW c \in Consumers, StartRaises(c) \/ StartFails(c) \/ Start(c) PROVE TypeOK'
  BY <1>5 DEF StartRaises, StartFails, Start, TypeOK
<1>6. ASSUME NEW c \in Consumers, Poll(c) \/ PollRaises(c) PROVE TypeOK'
  <2>1. PICK upto \in Batches(c) : Handle(c, upto)  BY <1>6 DEF Poll, PollRaises
  <2>2. timer' \in [Consumers -> 0 .. Slide]  BY <1>0, <1>6 DEF Poll, PollRaises, TypeOK
  <2> QED  BY <1>6, <2>1, <2>2, HandleType DEF Poll, PollRaises, TypeOK
<1>7. ASSUME NEW c \in Consumers, CommitOk(c) PROVE TypeOK'
  <2>1. committed' \in [Partitions -> 0 .. Size]  BY <1>7, CommitLastType DEF CommitOk
  <2> QED  BY <1>7, <2>1 DEF CommitOk, Resume, TypeOK
<1>8. ASSUME NEW c \in Consumers, CommitFails(c) \/ LoopEnds(c) PROVE TypeOK'
  BY <1>8 DEF CommitFails, LoopEnds, Resume, TypeOK
<1>9. ASSUME NEW c \in Consumers, SlideOk(c) PROVE TypeOK'
  BY <1>0, <1>9 DEF SlideOk, SlideDue, Results, InWindow, TypeOK
<1>10. ASSUME NEW c \in Consumers, SlideFails(c) PROVE TypeOK'
  <2>1. Window \div Slide \in Nat  BY KafkaAssumption
  <2>2. missed' \in [Consumers -> [Messages -> 0 .. Window \div Slide]]
    <3>1. ASSUME NEW m \in Messages, missed[c][m] < Window \div Slide
          PROVE  missed[c][m] + 1 \in 0 .. Window \div Slide
      BY <2>1, <3>1 DEF TypeOK
    <3>2. \E unsent : missed' = [missed EXCEPT ![c] = [m \in Messages |->
              IF m \in unsent \ reported /\ missed[c][m] < Window \div Slide
              THEN missed[c][m] + 1 ELSE missed[c][m]]]
      BY <1>10 DEF SlideFails
    <3>3. missed \in [Consumers -> [Messages -> 0 .. Window \div Slide]]  BY DEF TypeOK
    <3> QED  BY <3>1, <3>2, <3>3
  <2>3. reported' \subseteq Messages  BY <1>10 DEF SlideFails, Results, InWindow, TypeOK
  <2> QED  BY <1>0, <1>10, <2>2, <2>3 DEF SlideFails, SlideDue, TypeOK
<1>11. ASSUME NEW c \in Consumers, Stop(c) PROVE TypeOK'  BY <1>0, <1>11 DEF Stop, TypeOK
<1>12. ASSUME NEW c \in Consumers, FinalCommit(c) PROVE TypeOK'
  <2>1. committed' \in [Partitions -> 0 .. Size]
    BY <1>12, CommitLastType DEF FinalCommit, TypeOK
  <2>2. GroupTypeOK'  BY <1>12, <2>1, LeaveGroupType DEF FinalCommit
  <2> QED  BY <1>12, <2>2 DEF FinalCommit, TypeOK, GroupTypeOK
<1>13. ASSUME NEW c \in Consumers, FinalPublish(c) PROVE TypeOK'
  <2>1. GroupTypeOK'  BY <1>13 DEF FinalPublish, TypeOK, GroupTypeOK
  <2>2. reported' \subseteq Messages /\ excused' \subseteq Messages
    BY <1>13 DEF FinalPublish, Results, InWindow, TypeOK
  <2> QED  BY <1>13, <2>1, <2>2, VanishType DEF FinalPublish
<1>14. ASSUME NEW c \in Consumers, Crash(c) PROVE TypeOK'
  <2>1. GroupTypeOK'  BY <1>14 DEF Crash, TypeOK, GroupTypeOK
  <2>2. reported' \subseteq Messages /\ excused' \subseteq Messages
    BY <1>14 DEF Crash, InWindow, TypeOK
  <2> QED  BY <1>14, <2>1, <2>2, VanishType DEF Crash
<1>15. CASE Next
  BY <1>2, <1>3, <1>4, <1>5, <1>6, <1>7, <1>8, <1>9, <1>10, <1>11, <1>12, <1>13, <1>14, <1>15
     DEF Next, Runs, Slides, Stops
<1> QED  BY <1>1, <1>15

(* Every variable keeps its type in every behaviour: no offset passes the end of its partition, *)
(* no wait of a window loop passes the slide interval. *)
THEOREM TypeCorrect == Spec => []TypeOK
BY TypeInit, TypeNext, PTL DEF Spec
-----------------------------------------------------------------------------
(***************************************************************************)
(* At least once.  The invariant: whatever is before a position, before an *)
(* offset noted and before the group's offset was handled.  A rebalance    *)
(* sets positions back to the group's offsets, a batch is handled up to    *)
(* the offset noted for it, a commit takes over what was noted.            *)
(***************************************************************************)
AllHandled(tp, n) == \A i \in 1 .. n : <<tp, i>> \in handled

HandledInv ==
    /\ \A tp \in Partitions : AllHandled(tp, committed[tp])
    /\ \A c \in Consumers, tp \in Partitions :
        AllHandled(tp, position[c][tp]) /\ AllHandled(tp, last[c][tp])

LEMMA HandledInit == Init => HandledInv
BY DEF Init, HandledInv, AllHandled

LEMMA HandledMore ==
    ASSUME handled \subseteq handled', NEW tp, NEW n, AllHandled(tp, n)
    PROVE  \A i \in 1 .. n : <<tp, i>> \in handled'
BY DEF AllHandled

LEMMA HandledQuiet ==
    ASSUME HandledInv, UNCHANGED <<committed, position, last, handled>>
    PROVE  HandledInv'
BY DEF HandledInv, AllHandled

LEMMA HandledCommit ==
    ASSUME TypeOK, HandledInv, NEW c \in Consumers, CommitLast(c), UNCHANGED handled
    PROVE  \A tp \in Partitions : AllHandled(tp, committed[tp])'
BY DEF TypeOK, CommitLast, HandledInv, AllHandled

LEMMA HandledLeaves ==
    ASSUME TypeOK, HandledInv, NEW c \in Consumers, LeaveGroup(c), UNCHANGED <<last, handled>>,
           \A tp \in Partitions : AllHandled(tp, committed[tp])'
    PROVE  HandledInv'
BY DEF TypeOK, LeaveGroup, HandledInv, AllHandled

LEMMA HandledBatch ==
    ASSUME TypeOK, HandledInv, NEW c \in Consumers, NEW upto \in Batches(c), Handle(c, upto),
           UNCHANGED committed
    PROVE  HandledInv'
<1>1. handled' = handled \cup Batch(c, upto)  BY DEF Handle, Add
<1>2. ASSUME NEW tp \in Partitions, tp \in assigned[c], NEW i \in 1 .. upto[tp]
      PROVE  <<tp, i>> \in handled'
  <2>1. position[c][tp] \in Nat /\ upto[tp] \in Nat /\ i \in Nat
    <3>1. upto[tp] \in 0 .. Size /\ position[c][tp] \in 0 .. Size  BY <1>2 DEF Batches, TypeOK
    <3> QED  BY <3>1, KafkaAssumption
  <2>2. CASE i <= position[c][tp]
    <3>1. i \in 1 .. position[c][tp]  BY <2>1, <2>2
    <3> QED  BY <1>1, <3>1 DEF HandledInv, AllHandled
  <2>3. CASE ~(i <= position[c][tp])
    <3>1. i \in position[c][tp] + 1 .. upto[tp]  BY <1>2, <2>1, <2>3
    <3>2. <<tp, i>> \in Batch(c, upto)  BY <1>2, <3>1 DEF Batch
    <3> QED  BY <1>1, <3>2
  <2> QED  BY <2>2, <2>3
<1>3. \A d \in Consumers, tp \in Partitions :
        \/ position'[d][tp] = position[d][tp]
        \/ d = c /\ tp \in assigned[c] /\ position'[d][tp] = upto[tp]
  BY DEF Handle, Add, TypeOK
<1>4. \A d \in Consumers, tp \in Partitions :
        \/ last'[d][tp] = last[d][tp]
        \/ d = c /\ tp \in assigned[c] /\ last'[d][tp] = upto[tp]
  BY DEF Handle, Noted, TypeOK
<1>5. ASSUME NEW tp \in Partitions PROVE AllHandled(tp, committed[tp])'
  BY <1>1, <1>5 DEF HandledInv, AllHandled
<1>6. ASSUME NEW d \in Consumers, NEW tp \in Partitions PROVE AllHandled(tp, position[d][tp])'
  BY <1>1, <1>2, <1>3, <1>6 DEF HandledInv, AllHandled
<1>7. ASSUME NEW d \in Consumers, NEW tp \in Partitions PROVE AllHandled(tp, last[d][tp])'
  BY <1>1, <1>2, <1>4, <1>7 DEF HandledInv, AllHandled
<1> QED  BY <1>5, <1>6, <1>7 DEF HandledInv

LEMMA HandledVanishes ==
    ASSUME TypeOK, HandledInv, NEW c \in Consumers, NEW end \in {"ended", "failed", "crashed"},
           Vanish(c, end), UNCHANGED groupVars
    PROVE  HandledInv'
BY DEF TypeOK, Vanish, groupVars, HandledInv, AllHandled

LEMMA HandledNext == TypeOK /\ HandledInv /\ [Next]_vars => HandledInv'
<1> SUFFICES ASSUME TypeOK, HandledInv, [Next]_vars PROVE HandledInv'  OBVIOUS
<1>1. CASE UNCHANGED vars  BY <1>1, HandledQuiet DEF vars, groupVars, pastVars
<1>2. CASE Rebalance
  <2>1. UNCHANGED <<committed, last, handled>>  BY <1>2 DEF Rebalance, pastVars
  <2>2. \A c \in Consumers, tp \in Partitions : position'[c][tp] \in {committed[tp], 0}
    BY <1>2 DEF Rebalance
  <2>3. ASSUME NEW c \in Consumers, NEW tp \in Partitions PROVE AllHandled(tp, position[c][tp])'
    BY <2>1, <2>2, <2>3 DEF HandledInv, AllHandled
  <2>4. \A tp \in Partitions : AllHandled(tp, committed[tp])'  BY <2>1 DEF HandledInv, AllHandled
  <2>5. \A c \in Consumers, tp \in Partitions : AllHandled(tp, last[c][tp])'
    BY <2>1 DEF HandledInv, AllHandled
  <2> QED  BY <2>3, <2>4, <2>5 DEF HandledInv
<1>3. CASE Tick  BY <1>3, HandledQuiet DEF Tick, groupVars
<1>4. ASSUME NEW c \in Consumers, Evict(c) PROVE HandledInv'
  <2>1. \A tp \in Partitions : AllHandled(tp, committed[tp])'
    BY <1>4 DEF Evict, pastVars, HandledInv, AllHandled
  <2> QED  BY <1>4, <2>1, HandledLeaves DEF Evict, pastVars
<1>5. ASSUME NEW c \in Consumers,
             \/ StartRaises(c) \/ StartFails(c) \/ Start(c) \/ CommitFails(c) \/ LoopEnds(c)
             \/ SlideOk(c) \/ SlideFails(c) \/ Stop(c)
      PROVE  HandledInv'
  BY <1>5, HandledQuiet DEF StartRaises, StartFails, Start, CommitFails, LoopEnds, SlideOk, SlideFails,
                            SlideDue, Stop, groupVars, pastVars
<1>6. ASSUME NEW c \in Consumers, Poll(c) \/ PollRaises(c) PROVE HandledInv'
  BY <1>6, HandledBatch DEF Poll, PollRaises
<1>7. ASSUME NEW c \in Consumers, CommitOk(c) PROVE HandledInv'
  <2>1. UNCHANGED <<position, last, handled>>  BY <1>7 DEF CommitOk, pastVars
  <2>2. \A tp \in Partitions : AllHandled(tp, committed[tp])'
    BY <1>7, <2>1, HandledCommit DEF CommitOk
  <2> QED  BY <2>1, <2>2 DEF HandledInv, AllHandled
<1>8. ASSUME NEW c \in Consumers, FinalCommit(c) PROVE HandledInv'
  <2>1. UNCHANGED <<last, handled>>  BY <1>8 DEF FinalCommit, pastVars
  <2>2. \A tp \in Partitions : AllHandled(tp, committed[tp])'
    <3>1. CASE CommitLast(c)  BY <2>1, <3>1, HandledCommit
    <3>2. CASE UNCHANGED committed  BY <2>1, <3>2 DEF HandledInv, AllHandled
    <3> QED  BY <1>8, <3>1, <3>2 DEF FinalCommit
  <2> QED  BY <1>8, <2>1, <2>2, HandledLeaves DEF FinalCommit
<1>9. ASSUME NEW c \in Consumers, FinalPublish(c) \/ Crash(c) PROVE HandledInv'
  BY <1>9, HandledVanishes DEF FinalPublish, Crash
<1>10. CASE Next
  BY <1>2, <1>3, <1>4, <1>5, <1>6, <1>7, <1>8, <1>9, <1>10 DEF Next, Runs, Slides, Stops
<1> QED  BY <1>1, <1>10

(* No offset is committed beyond a message that was not handled, in any interleaving of polls, *)
(* commits that fail, rebalances, evictions, stops and crashes. *)
THEOREM HandledBeforeCommit == Spec => []CommittedWereHandled
<1>1. HandledInv => CommittedWereHandled  BY DEF HandledInv, AllHandled, CommittedWereHandled
<1> QED  BY <1>1, TypeInit, TypeNext, HandledInit, HandledNext, PTL DEF Spec
-----------------------------------------------------------------------------
(***************************************************************************)
(* Every review handled is accounted for.  The window loop of a running    *)
(* consumer slides unless its run is dead, a consumer that has not started *)
(* has an empty window, and PublishedOrMissed: a review that no            *)
(* publication reported is no older than the publications missed since it  *)
(* was added allow, and the wait for the next one.  So a review that       *)
(* leaves the window unreported missed Window \div Slide publications.     *)
(***************************************************************************)
RunningSlides == \A c \in Consumers : life[c] = "running" /\ loop[c] # "dead" => c \in sliding

NewIsEmpty == \A c \in Consumers, m \in Messages : life[c] = "new" => age[c][m] = Gone

MissedAll(c, m) == missed[c][m] = Window \div Slide

PublishedOrMissed ==
    \A c \in sliding, m \in Messages :
        \/ age[c][m] = Gone \/ m \in reported \/ MissedAll(c, m)
        \/ age[c][m] <= missed[c][m] * Slide + timer[c]

Accounted(m) == m \in reported \cup excused \/ \E c \in Consumers : Alive(c) /\ m \in InWindow(c)

HandledAccounted == \A m \in handled : scenario.log[m] = "valid" => Accounted(m)

LEMMA LoopsInit == Init => RunningSlides /\ NewIsEmpty /\ PublishedOrMissed /\ HandledAccounted
<1> SUFFICES ASSUME Init PROVE RunningSlides /\ NewIsEmpty /\ PublishedOrMissed /\ HandledAccounted  OBVIOUS
<1> QED  BY DEF Init, RunningSlides, NewIsEmpty, PublishedOrMissed, HandledAccounted

LEMMA RunningSlidesNext == TypeOK /\ RunningSlides /\ [Next]_vars => RunningSlides'
<1> SUFFICES ASSUME TypeOK, RunningSlides, [Next]_vars PROVE RunningSlides'  OBVIOUS
<1> USE DEF windowVars
<1>0. /\ life \in [Consumers -> {"new", "running", "committing", "flushing", "ended", "failed", "crashed"}]
      /\ loop \in [Consumers -> {"off", "poll", "commit", "dead"}]
  BY DEF TypeOK
<1>1. ASSUME UNCHANGED <<life, loop, sliding>> PROVE RunningSlides'  BY <1>1 DEF RunningSlides
<1>2. ASSUME NEW c \in Consumers, StartRaises(c) \/ StartFails(c) \/ Start(c) PROVE RunningSlides'
  BY <1>0, <1>2 DEF StartRaises, StartFails, Start, RunningSlides
<1>3. ASSUME NEW c \in Consumers, Poll(c) \/ CommitOk(c) \/ CommitFails(c) \/ LoopEnds(c)
      PROVE  RunningSlides'
  <2>1. UNCHANGED <<life, sliding>> /\ loop[c] # "dead"
    BY <1>3 DEF Poll, CanPoll, CommitOk, CommitFails, LoopEnds
  <2>2. \A d \in Consumers : d # c => loop'[d] = loop[d]
    BY <1>0, <1>3 DEF Poll, CommitOk, CommitFails, LoopEnds, Resume
  <2> QED  BY <2>1, <2>2 DEF RunningSlides
<1>4. ASSUME NEW c \in Consumers, PollRaises(c) PROVE RunningSlides'
  BY <1>0, <1>4 DEF PollRaises, RunningSlides
<1>5. ASSUME NEW c \in Consumers, Stop(c) \/ FinalCommit(c) PROVE RunningSlides'
  <2>1. /\ UNCHANGED loop /\ life'[c] # "running"
        /\ \A d \in Consumers : d # c => life'[d] = life[d] /\ (d \in sliding => d \in sliding')
    BY <1>0, <1>5 DEF Stop, FinalCommit
  <2> QED  BY <2>1 DEF RunningSlides
<1>6. ASSUME NEW c \in Consumers, NEW end \in {"ended", "failed", "crashed"}, Vanish(c, end)
      PROVE  RunningSlides'
  BY <1>0, <1>6 DEF Vanish, RunningSlides
<1>7. ASSUME NEW c \in Consumers, FinalPublish(c) \/ Crash(c) PROVE RunningSlides'
  BY <1>6, <1>7 DEF FinalPublish, Crash
<1>8. ASSUME NEW c \in Consumers, Evict(c) \/ SlideOk(c) \/ SlideFails(c) PROVE RunningSlides'
  BY <1>1, <1>8 DEF Evict, SlideOk, SlideFails, SlideDue
<1>9. CASE Rebalance \/ Tick \/ UNCHANGED vars  BY <1>1, <1>9 DEF Rebalance, Tick, vars
<1> QED
  BY <1>2, <1>3, <1>4, <1>5, <1>7, <1>8, <1>9 DEF Next, Runs, Slides, Stops

LEMMA NewIsEmptyNext == TypeOK /\ NewIsEmpty /\ [Next]_vars => NewIsEmpty'
<1> SUFFICES ASSUME TypeOK, NewIsEmpty, [Next]_vars PROVE NewIsEmpty'  OBVIOUS
<1> USE DEF windowVars
<1>0. /\ life \in [Consumers -> {"new", "running", "committing", "flushing", "ended", "failed", "crashed"}]
      /\ age \in [Consumers -> [Messages -> 0 .. Gone]]
  BY DEF TypeOK
<1>1. ASSUME UNCHANGED age, \A d \in Consumers : life'[d] = "new" => life[d] = "new"
      PROVE  NewIsEmpty'
  BY <1>1 DEF NewIsEmpty, Gone
<1>2. ASSUME NEW c \in Consumers, StartRaises(c) \/ StartFails(c) \/ Start(c) PROVE NewIsEmpty'
  BY <1>0, <1>1, <1>2 DEF StartRaises, StartFails, Start
<1>3. ASSUME NEW c \in Consumers, Poll(c) \/ PollRaises(c) PROVE NewIsEmpty'
  <2>1. PICK upto \in Batches(c) : Add(c, upto)  BY <1>3 DEF Poll, PollRaises, Handle
  <2>2. life' = life /\ life[c] # "new"  BY <1>3 DEF Poll, PollRaises, CanPoll
  <2>3. \A d \in Consumers : d # c => age'[d] = age[d]  BY <1>0, <2>1 DEF Add
  <2> QED  BY <2>2, <2>3 DEF NewIsEmpty, Gone
<1>4. ASSUME NEW c \in Consumers,
             \/ CommitOk(c) \/ CommitFails(c) \/ LoopEnds(c) \/ SlideOk(c) \/ SlideFails(c)
             \/ Stop(c) \/ FinalCommit(c) \/ Evict(c)
      PROVE  NewIsEmpty'
  BY <1>0, <1>1, <1>4 DEF CommitOk, CommitFails, LoopEnds, SlideOk, SlideFails, SlideDue, Stop,
                          FinalCommit, Evict
<1>5. ASSUME NEW c \in Consumers, NEW end \in {"ended", "failed", "crashed"}, Vanish(c, end)
      PROVE  NewIsEmpty'
  BY <1>0, <1>5 DEF Vanish, NewIsEmpty, Gone
<1>6. ASSUME NEW c \in Consumers, FinalPublish(c) \/ Crash(c) PROVE NewIsEmpty'
  BY <1>5, <1>6 DEF FinalPublish, Crash
<1>7. CASE Tick
  <2>1. life' = life  BY <1>7 DEF Tick
  <2>2. \A d \in Consumers, m \in Messages : age[d][m] = Gone => age'[d][m] = Gone
    BY <1>7 DEF Tick
  <2> QED  BY <2>1, <2>2 DEF NewIsEmpty, Gone
<1>8. CASE Rebalance \/ UNCHANGED vars  BY <1>1, <1>8 DEF Rebalance, vars
<1> QED
  BY <1>2, <1>3, <1>4, <1>6, <1>7, <1>8 DEF Next, Runs, Slides, Stops

LEMMA Floor ==
    ASSUME NEW k \in Nat, Window < k * Slide + Slide
    PROVE  Window \div Slide <= k
BY KafkaAssumption

LEMMA PublishedOrMissedNext ==
    TypeOK /\ NewIsEmpty /\ PublishedOrMissed /\ [Next]_vars => PublishedOrMissed'
<1> SUFFICES ASSUME TypeOK, NewIsEmpty, PublishedOrMissed, [Next]_vars,
                    NEW d \in sliding', NEW m \in Messages
             PROVE  \/ age'[d][m] = Gone \/ m \in reported' \/ missed'[d][m] = Window \div Slide
                    \/ age'[d][m] <= missed'[d][m] * Slide + timer'[d]
  BY DEF PublishedOrMissed, MissedAll, Gone
<1> DEFINE Q == \/ age'[d][m] = Gone \/ m \in reported' \/ missed'[d][m] = Window \div Slide
                \/ age'[d][m] <= missed'[d][m] * Slide + timer'[d]
<1> USE DEF windowVars, pastVars, given
<1>0. /\ sliding \subseteq Consumers
      /\ timer \in [Consumers -> 0 .. Slide]
      /\ age \in [Consumers -> [Messages -> 0 .. Gone]]
      /\ missed \in [Consumers -> [Messages -> 0 .. Window \div Slide]]
      /\ Window \div Slide \in Nat
      /\ Slide \in Nat /\ Window \in Nat /\ Gone = Window + 1
  BY KafkaAssumption DEF TypeOK, Gone
<1>1. ASSUME d \in sliding, age'[d] = age[d], missed'[d] = missed[d], timer'[d] = timer[d],
             reported \subseteq reported'
      PROVE  Q
  BY <1>1 DEF PublishedOrMissed, MissedAll
<1>2. ASSUME NEW c \in Consumers, StartRaises(c) \/ StartFails(c) PROVE Q
  BY <1>1, <1>2 DEF StartRaises, StartFails
<1>3. ASSUME NEW c \in Consumers, Start(c) PROVE Q
  <2>1. UNCHANGED <<age, missed, timer, reported>> /\ life[c] = "new" /\ sliding' = sliding \cup {c}
    BY <1>3 DEF Start
  <2>2. CASE d = c  BY <2>1, <2>2 DEF NewIsEmpty
  <2>3. CASE d # c  BY <1>1, <2>1, <2>3
  <2> QED  BY <2>2, <2>3
<1>4. ASSUME NEW c \in Consumers, NEW upto \in Batches(c), Add(c, upto),
             d \in sliding, timer'[d] = timer[d], UNCHANGED reported
      PROVE  Q
  <2>1. d \in Consumers /\ timer[d] \in Nat  BY <1>0, <1>4
  <2>2. CASE age'[d][m] = 0 /\ missed'[d][m] = 0
    <3>1. 0 * Slide = 0  BY <1>0
    <3> QED  BY <1>4, <2>1, <2>2, <3>1
  <2>3. CASE age'[d][m] = age[d][m] /\ missed'[d][m] = missed[d][m]
    BY <1>4, <2>3 DEF PublishedOrMissed, MissedAll
  <2>4. \/ age'[d][m] = 0 /\ missed'[d][m] = 0
        \/ age'[d][m] = age[d][m] /\ missed'[d][m] = missed[d][m]
    BY <1>0, <1>4, <2>1 DEF Add
  <2> QED  BY <2>2, <2>3, <2>4
<1>5. ASSUME NEW c \in Consumers, Poll(c) \/ PollRaises(c) PROVE Q
  <2>1. PICK upto \in Batches(c) : Add(c, upto)  BY <1>5 DEF Poll, PollRaises, Handle
  <2>2. d \in sliding /\ timer'[d] = timer[d] /\ UNCHANGED reported
    BY <1>0, <1>5 DEF Poll, PollRaises
  <2> QED  BY <1>4, <2>1, <2>2
<1>6. ASSUME NEW c \in Consumers,
             CommitOk(c) \/ CommitFails(c) \/ LoopEnds(c) \/ FinalCommit(c) \/ Evict(c)
      PROVE  Q
  BY <1>1, <1>6 DEF CommitOk, CommitFails, LoopEnds, FinalCommit, Evict
<1>7. ASSUME NEW c \in Consumers, SlideOk(c) PROVE Q
  <2>1. UNCHANGED <<sliding, age, missed>> /\ reported' = reported \cup Results(c)
    BY <1>7 DEF SlideOk, SlideDue
  <2>2. CASE d = c
    <3>1. age[c][m] = Gone \/ m \in Results(c)
      <4>1. age[c][m] \in 0 .. Gone  BY <1>0
      <4>2. age[c][m] # Gone => age[c][m] <= Window  BY <4>1, KafkaAssumption DEF Gone
      <4> QED  BY <4>2 DEF Results, InWindow
    <3> QED  BY <2>1, <2>2, <3>1
  <2>3. CASE d # c
    <3>1. timer'[d] = timer[d]  BY <1>0, <1>7, <2>1, <2>3 DEF SlideOk, SlideDue
    <3> QED  BY <1>1, <2>1, <3>1
  <2> QED  BY <2>2, <2>3
<1>8. ASSUME NEW c \in Consumers, SlideFails(c) PROVE Q
  <2>0. PICK unsent \in SUBSET Results(c) :
          /\ reported' = reported \cup (Results(c) \ unsent)
          /\ missed' = [missed EXCEPT ![c] = [n \in Messages |->
                IF n \in unsent \ reported /\ missed[c][n] < Window \div Slide
                THEN missed[c][n] + 1 ELSE missed[c][n]]]
    BY <1>8 DEF SlideFails
  <2>1. UNCHANGED <<sliding, age>> /\ reported \subseteq reported' /\ timer[c] = Slide /\ d \in sliding
    BY <1>8, <2>0 DEF SlideFails, SlideDue
  <2>2. timer' = [timer EXCEPT ![c] = 0]  BY <1>8 DEF SlideFails, SlideDue
  <2>3. missed' = [missed EXCEPT ![c] = [n \in Messages |->
            IF n \in unsent \ reported /\ missed[c][n] < Window \div Slide
            THEN missed[c][n] + 1 ELSE missed[c][n]]]
    BY <2>0
  <2>4. CASE d = c
    <3>1. CASE age[c][m] = Gone \/ m \in reported'  BY <2>1, <2>4, <3>1
    <3>2. CASE age[c][m] # Gone /\ m \notin reported'
      <4>1. age[c][m] \in 0 .. Gone /\ missed[c][m] \in 0 .. Window \div Slide  BY <1>0
      <4>2. m \in unsent \ reported
        <5>1. age[c][m] <= Window  BY <3>2, <4>1, KafkaAssumption DEF Gone
        <5>2. m \in Results(c)  BY <5>1 DEF Results, InWindow
        <5> QED  BY <2>0, <3>2, <5>2
      <4>3. CASE missed[c][m] = Window \div Slide
        <5>1. missed'[c][m] = missed[c][m]  BY <1>0, <2>3, <4>3
        <5> QED  BY <2>4, <4>3, <5>1
      <4>4. CASE missed[c][m] # Window \div Slide
        <5>1. missed'[c][m] = missed[c][m] + 1
          <6>1. missed[c][m] < Window \div Slide
            <7> DEFINE n == Window \div Slide
            <7>1. n \in Nat /\ missed[c][m] \in 0 .. n /\ missed[c][m] # n  BY <1>0, <4>1, <4>4
            <7> HIDE DEF n
            <7>2. missed[c][m] < n  BY <7>1
            <7> QED  BY <7>2 DEF n
          <6>2. missed'[c] = [n \in Messages |->
                    IF n \in unsent \ reported /\ missed[c][n] < Window \div Slide
                    THEN missed[c][n] + 1 ELSE missed[c][n]]
            BY <1>0, <2>3
          <6> QED  BY <3>2, <4>2, <6>1, <6>2
        <5>2. age[c][m] <= missed[c][m] * Slide + Slide
          BY <2>1, <2>4, <3>2, <4>2, <4>4 DEF PublishedOrMissed, MissedAll
        <5>3. missed[c][m] \in Nat  BY <1>0, <4>1
        <5>4. (missed[c][m] + 1) * Slide = missed[c][m] * Slide + Slide  BY <1>0, <5>3
        <5>5. timer'[c] = 0 /\ (missed[c][m] + 1) * Slide \in Nat  BY <1>0, <2>2, <5>3
        <5> QED  BY <1>0, <2>1, <2>4, <5>1, <5>2, <5>4, <5>5
      <4> QED  BY <4>3, <4>4
    <3> QED  BY <3>1, <3>2
  <2>5. CASE d # c
    <3>1. timer'[d] = timer[d] /\ missed'[d] = missed[d]  BY <1>0, <2>1, <2>2, <2>3, <2>5
    <3> QED  BY <1>1, <2>1, <3>1
  <2> QED  BY <2>4, <2>5
<1>9. CASE Tick
  <2>1. UNCHANGED <<sliding, missed, reported>> /\ d \in sliding /\ d \in Consumers
    BY <1>0, <1>9 DEF Tick
  <2>2. timer'[d] = timer[d] + 1  BY <1>0, <1>9, <2>1 DEF Tick
  <2>3. age'[d][m] = IF age[d][m] = Gone THEN Gone ELSE age[d][m] + 1  BY <1>9, <2>1 DEF Tick
  <2>4. timer[d] \in Nat /\ age[d][m] \in Nat /\ missed[d][m] \in Nat  BY <1>0, <2>1
  <2>5. missed[d][m] * Slide \in Nat  BY <1>0, <2>4
  <2>6. CASE age[d][m] <= missed[d][m] * Slide + timer[d]
    BY <2>1, <2>2, <2>3, <2>4, <2>5, <2>6
  <2>7. CASE age[d][m] = Gone \/ m \in reported \/ missed[d][m] = Window \div Slide
    BY <2>1, <2>3, <2>7
  <2> QED  BY <2>1, <2>6, <2>7 DEF PublishedOrMissed, MissedAll
<1>10. ASSUME NEW c \in Consumers, Stop(c) PROVE Q
  <2>1. d \in sliding /\ d # c /\ UNCHANGED <<age, missed, reported>>  BY <1>10 DEF Stop
  <2>2. timer'[d] = timer[d]  BY <1>0, <1>10, <2>1 DEF Stop
  <2> QED  BY <1>1, <2>1, <2>2
<1>11. ASSUME NEW c \in Consumers, NEW end \in {"ended", "failed", "crashed"}, Vanish(c, end),
              reported \subseteq reported'
       PROVE  Q
  <2>1. d \in sliding /\ d # c  BY <1>11 DEF Vanish
  <2>2. age'[d] = age[d] /\ missed'[d] = missed[d] /\ timer'[d] = timer[d]
    BY <1>0, <1>11, <2>1 DEF Vanish
  <2> QED  BY <1>1, <1>11, <2>1, <2>2
<1>12. ASSUME NEW c \in Consumers, FinalPublish(c) \/ Crash(c) PROVE Q
  BY <1>11, <1>12 DEF FinalPublish, Crash
<1>13. CASE Rebalance \/ UNCHANGED vars  BY <1>1, <1>13 DEF Rebalance, vars
<1> QED
  BY <1>2, <1>3, <1>5, <1>6, <1>7, <1>8, <1>9, <1>10, <1>12, <1>13 DEF Next, Runs, Slides, Stops

LEMMA HandledAccountedNext ==
    /\ TypeOK /\ RunningSlides /\ PublishedOrMissed /\ HandledAccounted
    /\ [Next]_vars
    => HandledAccounted'
<1> SUFFICES ASSUME TypeOK, RunningSlides, PublishedOrMissed, HandledAccounted, [Next]_vars,
                    NEW m \in handled', scenario'.log[m] = "valid"
             PROVE  Accounted(m)'
  BY DEF HandledAccounted
<1> USE DEF windowVars, pastVars, given
<1>0. /\ life \in [Consumers -> {"new", "running", "committing", "flushing", "ended", "failed", "crashed"}]
      /\ age \in [Consumers -> [Messages -> 0 .. Gone]]
      /\ handled \subseteq Messages
  BY DEF TypeOK
<1>1. ASSUME m \in handled, scenario' = scenario,
             reported \subseteq reported', excused \subseteq excused',
             \A c \in Consumers : Alive(c) /\ m \in InWindow(c) =>
                 m \in reported' \cup excused' \/ (Alive(c)' /\ m \in InWindow(c)')
      PROVE  Accounted(m)'
  BY <1>1 DEF HandledAccounted, Accounted
<1>2. ASSUME m \in handled, UNCHANGED <<scenario, age>>,
             reported \subseteq reported', excused \subseteq excused',
             \A c \in Consumers : Alive(c) => Alive(c)'
      PROVE  Accounted(m)'
  BY <1>1, <1>2 DEF InWindow
<1>3. ASSUME NEW c \in Consumers, StartRaises(c) \/ StartFails(c) \/ Start(c) PROVE Accounted(m)'
  <2>1. life[c] = "new" /\ \A d \in Consumers : d # c => life'[d] = life[d]
    BY <1>0, <1>3 DEF StartRaises, StartFails, Start
  <2>2. \A d \in Consumers : Alive(d) => Alive(d)'  BY <2>1 DEF Alive
  <2> QED  BY <1>2, <1>3, <2>2 DEF StartRaises, StartFails, Start
<1>4. ASSUME NEW c \in Consumers, Poll(c) \/ PollRaises(c) PROVE Accounted(m)'
  <2>1. PICK upto \in Batches(c) : Add(c, upto)  BY <1>4 DEF Poll, PollRaises, Handle
  <2>2. UNCHANGED <<scenario, life, reported, excused>> /\ Alive(c)
    BY <1>4 DEF Poll, PollRaises, CanPoll, Alive
  <2>3. handled' = handled \cup Batch(c, upto)  BY <2>1 DEF Add
  <2>4. \A d \in Consumers : age'[d] = age[d] \/
            (d = c /\ \A n \in Messages : age'[d][n] \in {0, age[d][n]})
    BY <1>0, <2>1 DEF Add
  <2>5. \A d \in Consumers : InWindow(d) \subseteq InWindow(d)'
    BY <2>4, KafkaAssumption DEF InWindow
  <2>6. CASE m \in handled  BY <1>1, <2>2, <2>5, <2>6 DEF Alive
  <2>7. CASE m \in Batch(c, upto)
    <3>1. m \in Messages  BY <2>1, <2>7, BatchType
    <3>2. age'[c][m] = 0  BY <1>0, <2>1, <2>2, <2>7, <3>1 DEF Add
    <3>3. m \in InWindow(c)'  BY <3>1, <3>2, KafkaAssumption DEF InWindow
    <3> QED  BY <2>2, <3>3 DEF Accounted, Alive
  <2> QED  BY <2>3, <2>6, <2>7
<1>5. ASSUME NEW c \in Consumers,
             \/ CommitOk(c) \/ CommitFails(c) \/ LoopEnds(c) \/ Evict(c)
             \/ SlideOk(c) \/ SlideFails(c)
      PROVE  Accounted(m)'
  <2>1. UNCHANGED <<scenario, handled, age, life, excused>> /\ reported \subseteq reported'
    BY <1>5 DEF CommitOk, CommitFails, LoopEnds, Evict, SlideOk, SlideFails, SlideDue
  <2> QED  BY <1>2, <2>1 DEF Alive
<1>6. ASSUME NEW c \in Consumers, Stop(c) \/ FinalCommit(c) PROVE Accounted(m)'
  <2>1. UNCHANGED <<scenario, handled, age, reported, excused>>  BY <1>6 DEF Stop, FinalCommit
  <2>2. \A d \in Consumers : life'[d] = life[d] \/ life'[d] \in {"committing", "flushing"}
    BY <1>0, <1>6 DEF Stop, FinalCommit
  <2> QED  BY <1>2, <2>1, <2>2 DEF Alive
<1>7. ASSUME NEW c \in Consumers, NEW end \in {"ended", "failed", "crashed"}, Vanish(c, end),
             reported \subseteq reported', excused \subseteq excused',
             InWindow(c) \subseteq reported' \cup excused'
      PROVE  Accounted(m)'
  <2>1. \A d \in Consumers : d # c => life'[d] = life[d] /\ age'[d] = age[d]
    BY <1>0, <1>7 DEF Vanish
  <2>2. scenario' = scenario /\ handled' = handled  BY <1>7 DEF Vanish
  <2>3. \A d \in Consumers : Alive(d) /\ m \in InWindow(d) =>
            m \in reported' \cup excused' \/ (Alive(d)' /\ m \in InWindow(d)')
    BY <1>7, <2>1 DEF Alive, InWindow
  <2> QED  BY <1>1, <1>7, <2>2, <2>3
<1>8. ASSUME NEW c \in Consumers, FinalPublish(c) \/ Crash(c) PROVE Accounted(m)'
  BY <1>7, <1>8 DEF FinalPublish, Crash, Results
<1>9. CASE Tick
  <2>1. UNCHANGED <<scenario, handled, life, reported>> /\ excused \subseteq excused' /\ m \in handled
    BY <1>9 DEF Tick
  <2>2. m \in Messages  BY <1>0, <2>1
  <2>3. ASSUME NEW c \in Consumers, Alive(c), m \in InWindow(c)
        PROVE  m \in reported' \cup excused' \/ (Alive(c)' /\ m \in InWindow(c)')
    <3>1. age[c][m] \in Nat /\ age[c][m] <= Window /\ Window \in Nat /\ Slide \in Nat \ {0}
      BY <1>0, <2>2, <2>3, KafkaAssumption DEF InWindow, Gone
    <3>2. CASE age[c][m] # Window
      <4>1. age'[c][m] = age[c][m] + 1  BY <1>9, <2>2, <3>1 DEF Tick, Gone
      <4>2. age'[c][m] <= Window  BY <3>1, <3>2, <4>1
      <4> QED  BY <2>1, <2>2, <2>3, <4>2 DEF Alive, InWindow
    <3>3. CASE age[c][m] = Window
      <4>1. m \in excused' \/ (loop[c] # "dead" /\ missed[c][m] # Window \div Slide)
        BY <1>9, <2>2, <3>3 DEF Tick
      <4>2. CASE loop[c] # "dead" /\ missed[c][m] # Window \div Slide
        <5>1. life[c] = "running"  BY <1>9, <2>3 DEF Tick, Alive, Shutdown
        <5>2. c \in sliding  BY <4>2, <5>1 DEF RunningSlides
        <5>3. timer[c] < Slide  BY <1>9, <5>2 DEF Tick
        <5>4. m \in reported \/ Window <= missed[c][m] * Slide + timer[c]
          BY <2>2, <3>1, <3>3, <4>2, <5>2 DEF PublishedOrMissed, MissedAll, Gone
        <5>5. CASE m \in reported  BY <2>1, <5>5
        <5>6. CASE Window <= missed[c][m] * Slide + timer[c]
          <6>1. missed[c][m] \in 0 .. Window \div Slide /\ Window \div Slide \in Nat
                /\ timer[c] \in 0 .. Slide
            BY <2>2, KafkaAssumption DEF TypeOK
          <6>2. missed[c][m] \in Nat /\ missed[c][m] * Slide \in Nat  BY <3>1, <6>1
          <6>3. Window < missed[c][m] * Slide + Slide  BY <3>1, <5>3, <5>6, <6>1, <6>2
          <6>4. Window \div Slide <= missed[c][m]  BY <6>2, <6>3, Floor
          <6> QED  BY <4>2, <6>1, <6>4
        <5> QED  BY <5>4, <5>5, <5>6
      <4> QED  BY <4>1, <4>2
    <3> QED  BY <3>2, <3>3
  <2> QED  BY <1>1, <2>1, <2>3
<1>10. CASE Rebalance \/ UNCHANGED vars  BY <1>2, <1>10 DEF Rebalance, vars, Alive
<1> QED
  BY <1>3, <1>4, <1>5, <1>6, <1>8, <1>9, <1>10 DEF Next, Runs, Slides, Stops

(* A valid review that is committed is published, or in the window of a consumer that is alive, or *)
(* its consumer was killed, met a poison message, or failed in every publication of its window. *)
THEOREM CommittedAccounted == Spec => []CommittedReported
<1> DEFINE I == TypeOK /\ HandledInv /\ RunningSlides /\ NewIsEmpty /\ PublishedOrMissed /\ HandledAccounted
<1>1. Init => I  BY TypeInit, HandledInit, LoopsInit
<1>2. I /\ [Next]_vars => I'
  BY TypeNext, HandledNext, RunningSlidesNext, NewIsEmptyNext, PublishedOrMissedNext, HandledAccountedNext
<1>3. I => CommittedReported
  <2> SUFFICES ASSUME I, NEW m \in Messages, m[2] <= committed[m[1]], scenario.log[m] = "valid"
               PROVE  m \in reported \cup excused \/ \E c \in Consumers : Alive(c) /\ m \in InWindow(c)
    BY DEF CommittedReported
  <2>1. m[1] \in Partitions /\ m[2] \in 1 .. Size /\ m = <<m[1], m[2]>>  BY DEF Messages
  <2>2. m[2] \in 1 .. committed[m[1]]
    <3>1. committed[m[1]] \in 0 .. Size  BY <2>1 DEF TypeOK
    <3> QED  BY <2>1, <3>1, KafkaAssumption
  <2>3. m \in handled  BY <2>1, <2>2 DEF HandledInv, AllHandled
  <2> QED  BY <2>3 DEF HandledAccounted, Accounted
<1> QED  BY <1>1, <1>2, <1>3, PTL DEF Spec
=============================================================================
