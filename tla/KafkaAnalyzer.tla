--------------------------- MODULE KafkaAnalyzer ---------------------------
(***************************************************************************)
(* deploy/helm/review-pipeline/analyzer/analyzer_kafka.py: consumers of    *)
(* one Kafka group read reviews.raw, keep the reviews of the last Window   *)
(* ticks and publish aggregates of them every Slide ticks.  A consumer is  *)
(* one run of one process, one asyncio thread: main (start, stop), run and *)
(* _window_loop take turns at their awaits.  The group (who reads which    *)
(* partition, positions, committed offsets) is Kafka and aiokafka, as the  *)
(* code uses them.                                                         *)
(*                                                                         *)
(* The file as it stands does not start; `patched' tells the file with the *)
(* two names of line 347 corrected, of which all the rest is said.         *)
(***************************************************************************)
EXTENDS Naturals, FiniteSets

CONSTANTS
    Consumers, Partitions,
    Size,        \* messages a partition of reviews.raw may have
    Window,      \* window_size, in ticks (300 s)
    Slide,       \* slide_interval, in ticks (60 s)
    Scenarios,   \* pairs of a content of reviews.raw and a set of Events
    Endangered   \* consumers that may be killed or get SIGTERM

(***************************************************************************)
(* "valid": a review with a rating of 1 .. 5; "skipped": no JSON, or a     *)
(* rating outside 1 .. 5; "poison": JSON that record cannot handle (no     *)
(* object, a rating that is no number), a TypeError or AttributeError;     *)
(* "none": the partition ends before.                                      *)
(***************************************************************************)
Kinds == {"valid", "skipped", "poison", "none"}

\* What may befall a behaviour.
Events == {"no start", "no commit", "no publication", "crash", "stop"}

Messages == Partitions \X (1 .. Size)

ASSUME KafkaAssumption ==
    /\ Size \in Nat
    /\ Scenarios \subseteq [log : [Messages -> Kinds], events : SUBSET Events]
    /\ Slide \in Nat \ {0} /\ Window \in Nat /\ Slide <= Window
    /\ IsFiniteSet(Partitions) /\ IsFiniteSet(Consumers)

VARIABLES
    patched,     \* whether start runs beyond line 347
    scenario,    \* one of Scenarios; its log[<<tp, i>>]: the i-th message of tp
    members,     \* the consumers in the group
    balanced,    \* whether the partitions have been distributed among them
    assigned,    \* assigned[c]: partitions of c
    position,    \* position[c][tp]: messages of tp given to c, or before them
    committed,   \* committed[tp]: the group's offset
    life,        \* life[c]: where async_main is
    loop,        \* loop[c]: where run is: "off", "poll", "commit", "dead" once it has raised
    last,        \* last[c][tp]: _last_offsets, 0 if there is no entry
    sliding,     \* the consumers whose _window_loop runs
    timer,       \* timer[c]: ticks it has waited
    age,         \* age[c][m]: ticks since c added m to its window, beyond Window if it is not there
    handled,     \* history: messages some consumer handled without raising
    reported,    \* history: reviews in an aggregate that was published
    missed,      \* history: missed[c][m]: publications with m that failed since c added m
    excused      \* history: reviews lost by a crash, a dead run or failed publications

given == <<patched, scenario>>
groupVars == <<members, balanced, assigned, position, committed>>
windowVars == <<sliding, timer, age>>
pastVars == <<handled, reported, missed, excused>>
vars == <<given, groupVars, life, loop, last, windowVars, pastVars>>

Gone == Window + 1

TypeOK ==
    /\ patched \in BOOLEAN /\ scenario \in Scenarios
    /\ members \subseteq Consumers /\ balanced \in BOOLEAN
    /\ assigned \in [Consumers -> SUBSET Partitions]
    /\ committed \in [Partitions -> 0 .. Size]
    /\ position \in [Consumers -> [Partitions -> 0 .. Size]]
    /\ last \in [Consumers -> [Partitions -> 0 .. Size]]
    /\ life \in [Consumers -> {"new", "running", "committing", "flushing", "ended", "failed", "crashed"}]
    /\ loop \in [Consumers -> {"off", "poll", "commit", "dead"}]
    /\ sliding \subseteq Consumers
    /\ timer \in [Consumers -> 0 .. Slide]
    /\ age \in [Consumers -> [Messages -> 0 .. Gone]]
    /\ missed \in [Consumers -> [Messages -> 0 .. Window \div Slide]]
    /\ handled \subseteq Messages /\ reported \subseteq Messages /\ excused \subseteq Messages

Init ==
    /\ patched \in BOOLEAN /\ scenario \in Scenarios
    /\ members = {} /\ balanced = TRUE
    /\ assigned = [c \in Consumers |-> {}]
    /\ position = [c \in Consumers |-> [tp \in Partitions |-> 0]]
    /\ committed = [tp \in Partitions |-> 0]
    /\ life = [c \in Consumers |-> "new"]
    /\ loop = [c \in Consumers |-> "off"]
    /\ last = [c \in Consumers |-> [tp \in Partitions |-> 0]]
    /\ sliding = {}
    /\ timer = [c \in Consumers |-> 0]
    /\ age = [c \in Consumers |-> [m \in Messages |-> Gone]]
    /\ missed = [c \in Consumers |-> [m \in Messages |-> 0]]
    /\ handled = {} /\ reported = {} /\ excused = {}
-----------------------------------------------------------------------------
Occurs(event) == event \in scenario.events

Alive(c) == life[c] \in {"running", "committing", "flushing"}
Shutdown(c) == life[c] \in {"committing", "flushing"}

\* Mutant of InWindow: the limit itself is pruned.
InWindowMutant(c) == {m \in Messages : age[c][m] < Window}

\* What prune leaves in _buffer.
InWindow(c) == {m \in Messages : age[c][m] <= Window}

\* compute: the reviews that the aggregates of all products count.
Results(c) == InWindow(c)

(***************************************************************************)
(* The group.  Every rebalance makes all members start again at the        *)
(* committed offsets; a commit underway takes effect before it, or fails.  *)
(***************************************************************************)
Even(f) ==
    \A c, d \in members :
        Cardinality({tp \in Partitions : f[tp] = c}) <=
            Cardinality({tp \in Partitions : f[tp] = d}) + 1

Rebalance ==
    /\ ~balanced
    /\ \A c \in members : loop[c] # "commit" /\ life[c] # "committing"
    /\ balanced' = TRUE
    /\ \E f \in [Partitions -> IF members = {} THEN {"nobody"} ELSE members] :
        /\ Even(f)
        /\ assigned' = [c \in Consumers |-> {tp \in Partitions : f[tp] = c}]
    /\ position' = [c \in Consumers |-> [tp \in Partitions |->
            IF tp \in assigned'[c] THEN committed[tp] ELSE 0]]
    /\ UNCHANGED <<given, members, committed, life, loop, last, windowVars, pastVars>>

LeaveGroup(c) ==
    /\ members' = members \ {c}
    /\ balanced' = (balanced /\ c \notin members)
    /\ assigned' = [assigned EXCEPT ![c] = {}]
    /\ position' = [position EXCEPT ![c] = [tp \in Partitions |-> 0]]

(* A member that was killed no longer sends heartbeats; one whose run has raised no longer polls. *)
Evict(c) ==
    /\ c \in members /\ (~Alive(c) \/ loop[c] = "dead")
    /\ LeaveGroup(c)
    /\ UNCHANGED <<given, committed, life, loop, last, windowVars, pastVars>>
-----------------------------------------------------------------------------
(* start prints window_size, which is no name there: NameError before anything is opened. *)
StartRaises(c) ==
    /\ life[c] = "new" /\ ~patched
    /\ life' = [life EXCEPT ![c] = "failed"]
    /\ UNCHANGED <<given, groupVars, loop, last, windowVars, pastVars>>

(* Kafka cannot be reached: async_main logs and raises.  The consumer is started before the producer: *)
(* it may have joined the group by then, which evicts it later. *)
StartFails(c) ==
    /\ Occurs("no start") /\ life[c] = "new" /\ patched
    /\ life' = [life EXCEPT ![c] = "failed"]
    /\ \/ UNCHANGED <<members, balanced>>
       \/ members' = members \cup {c} /\ balanced' = FALSE
    /\ UNCHANGED <<given, assigned, position, committed, loop, last, windowVars, pastVars>>

(* The consumer joins the group; run and its tasks are created. *)
Start(c) ==
    /\ life[c] = "new" /\ patched
    /\ life' = [life EXCEPT ![c] = "running"]
    /\ loop' = [loop EXCEPT ![c] = "poll"]
    /\ sliding' = sliding \cup {c}
    /\ members' = members \cup {c}
    /\ balanced' = FALSE
    /\ UNCHANGED <<given, assigned, position, committed, last, timer, age, pastVars>>

(***************************************************************************)
(* What getmany may hand out and run handle before it stops at a poison    *)
(* message, if there is one: all messages up to `upto'.                    *)
(***************************************************************************)
Batches(c) ==
    {upto \in [assigned[c] -> 0 .. Size] :
        \A tp \in assigned[c] :
            /\ position[c][tp] <= upto[tp]
            /\ \A i \in position[c][tp] + 1 .. upto[tp] : scenario.log[<<tp, i>>] \notin {"poison", "none"}}

Batch(c, upto) == UNION {{<<tp, i>> : i \in position[c][tp] + 1 .. upto[tp]} : tp \in assigned[c]}

\* The offsets noted message by message; a partition without new messages keeps its entry.
Noted(c, upto) ==
    [tp \in Partitions |->
        IF tp \in assigned[c] /\ upto[tp] > position[c][tp] THEN upto[tp] ELSE last[c][tp]]

\* record, and add if the rating is valid.
Add(c, upto) ==
    LET added == {m \in Batch(c, upto) : scenario.log[m] = "valid"} IN
    /\ age' = [age EXCEPT ![c] = [m \in Messages |-> IF m \in added THEN 0 ELSE age[c][m]]]
    /\ missed' = [missed EXCEPT ![c] = [m \in Messages |-> IF m \in added THEN 0 ELSE missed[c][m]]]
    /\ handled' = handled \cup Batch(c, upto)
    /\ position' = [position EXCEPT ![c] =
            [tp \in Partitions |-> IF tp \in assigned[c] THEN upto[tp] ELSE position[c][tp]]]

Handle(c, upto) == Add(c, upto) /\ last' = [last EXCEPT ![c] = Noted(c, upto)]

CanPoll(c) == loop[c] = "poll" /\ c \in members /\ life[c] \in {"running", "committing"}

(* A batch is handled without an await; its commit is next. *)
Poll(c) ==
    /\ CanPoll(c)
    /\ \E upto \in Batches(c) : Batch(c, upto) # {} /\ Handle(c, upto)
    /\ loop' = [loop EXCEPT ![c] = "commit"]
    /\ UNCHANGED <<given, members, balanced, assigned, committed, life, sliding, timer, reported,
                   excused>>

\* Mutant of PollRaises: the offsets are noted before the messages are handled.
PollRaisesMutant(c) ==
    /\ CanPoll(c)
    /\ \E upto \in Batches(c) : \E tp \in assigned[c] :
        /\ upto[tp] < Size /\ scenario.log[<<tp, upto[tp] + 1>>] = "poison"
        /\ Add(c, upto)
        /\ last' = [last EXCEPT ![c] = [Noted(c, upto) EXCEPT ![tp] = upto[tp] + 1]]
    /\ loop' = [loop EXCEPT ![c] = "dead"]
    /\ sliding' = sliding \ {c}
    /\ timer' = [timer EXCEPT ![c] = 0]
    /\ UNCHANGED <<given, members, balanced, assigned, committed, life, reported, excused>>

(* The batch has a poison message: the exception leaves run, which cancels its tasks.  Main goes on *)
(* waiting for a signal. *)
PollRaises(c) ==
    /\ CanPoll(c)
    /\ \E upto \in Batches(c) :
        /\ \E tp \in assigned[c] : upto[tp] < Size /\ scenario.log[<<tp, upto[tp] + 1>>] = "poison"
        /\ Handle(c, upto)
    /\ loop' = [loop EXCEPT ![c] = "dead"]
    /\ sliding' = sliding \ {c}
    /\ timer' = [timer EXCEPT ![c] = 0]
    /\ UNCHANGED <<given, members, balanced, assigned, committed, life, reported, excused>>

(* aiokafka refuses offsets of a partition that is not assigned. *)
CanCommit(c) == c \in members /\ {tp \in Partitions : last[c][tp] > 0} \subseteq assigned[c]

CommitLast(c) ==
    /\ CanCommit(c)
    /\ committed' = [tp \in Partitions |-> IF last[c][tp] > 0 THEN last[c][tp] ELSE committed[tp]]

\* Mutant of Resume: run does not look at the shutdown.
ResumeMutant(c) == loop' = [loop EXCEPT ![c] = "poll"]

\* The commit is over: run polls again, or sees the shutdown.
Resume(c) == loop' = [loop EXCEPT ![c] = IF Shutdown(c) THEN "off" ELSE "poll"]

CommitOk(c) ==
    /\ loop[c] = "commit"
    /\ CommitLast(c)
    /\ Resume(c)
    /\ UNCHANGED <<given, members, balanced, assigned, position, life, last, windowVars, pastVars>>

(* The error is printed; the next attempt comes with the next batch. *)
CommitFails(c) ==
    /\ loop[c] = "commit"
    /\ ~CanCommit(c) \/ ~balanced \/ Occurs("no commit")
    /\ Resume(c)
    /\ UNCHANGED <<given, groupVars, life, last, windowVars, pastVars>>

(* getmany returns nothing, or raises because the consumer was stopped, and the loop sees the shutdown. *)
LoopEnds(c) ==
    /\ loop[c] = "poll" /\ Shutdown(c)
    /\ Resume(c)
    /\ UNCHANGED <<given, groupVars, life, last, windowVars, pastVars>>
-----------------------------------------------------------------------------
\* The wait of _window_loop is over; the next one begins when the aggregates are published.
SlideDue(c) ==
    /\ c \in sliding /\ timer[c] = Slide
    /\ timer' = [timer EXCEPT ![c] = 0]
    /\ UNCHANGED <<given, groupVars, life, loop, last, age, handled, excused>>

\* Mutant of SlideOk: the loop is left after a publication.
SlideOkMutant(c) ==
    /\ SlideDue(c)
    /\ sliding' = sliding \ {c}
    /\ reported' = reported \cup Results(c)
    /\ UNCHANGED missed

(* prune, compute, publish.  What is added during the publication is left for the next one. *)
SlideOk(c) ==
    /\ SlideDue(c)
    /\ reported' = reported \cup Results(c)
    /\ UNCHANGED <<sliding, missed>>

(* Each aggregate is sent by itself: the error of one is printed, the others go out, and the window *)
(* keeps its reviews. *)
SlideFails(c) ==
    /\ Occurs("no publication")
    /\ SlideDue(c)
    /\ \E unsent \in SUBSET Results(c) :
        /\ reported' = reported \cup (Results(c) \ unsent)
        /\ missed' = [missed EXCEPT ![c] = [m \in Messages |->
                IF m \in unsent \ reported /\ missed[c][m] < Window \div Slide
                THEN missed[c][m] + 1 ELSE missed[c][m]]]
    /\ UNCHANGED sliding

(***************************************************************************)
(* A tick.  What is due runs before it: a publication and a shutdown take  *)
(* less than a tick.                                                       *)
(***************************************************************************)
Tick ==
    /\ \A c \in Consumers :
        /\ ~Shutdown(c)
        /\ c \in sliding => timer[c] < Slide
    /\ sliding # {} \/ \E c \in Consumers : InWindow(c) # {}
    /\ timer' = [c \in Consumers |-> IF c \in sliding THEN timer[c] + 1 ELSE timer[c]]
    /\ age' = [c \in Consumers |-> [m \in Messages |->
            IF age[c][m] = Gone THEN Gone ELSE age[c][m] + 1]]
    /\ excused' = excused \cup {m \in Messages : \E c \in Consumers :
            /\ age[c][m] = Window
            /\ loop[c] = "dead" \/ missed[c][m] = Window \div Slide}
    /\ UNCHANGED <<given, groupVars, life, loop, last, sliding, handled, reported, missed>>
-----------------------------------------------------------------------------
(* SIGTERM: stop sets _shutdown, which ends a wait of _window_loop, and commits what was noted last. *)
Stop(c) ==
    /\ Occurs("stop") /\ c \in Endangered /\ life[c] = "running"
    /\ life' = [life EXCEPT ![c] = "committing"]
    /\ sliding' = sliding \ {c}
    /\ timer' = [timer EXCEPT ![c] = 0]
    /\ UNCHANGED <<given, groupVars, loop, last, age, pastVars>>

(* The last commit; then consumer.stop leaves the group. *)
FinalCommit(c) ==
    /\ life[c] = "committing"
    /\ life' = [life EXCEPT ![c] = "flushing"]
    /\ \/ CommitLast(c)
       \/ (~CanCommit(c) \/ ~balanced \/ Occurs("no commit")) /\ UNCHANGED committed
    /\ LeaveGroup(c)
    /\ UNCHANGED <<given, loop, last, windowVars, pastVars>>

\* The memory of the process is gone.
Vanish(c, end) ==
    /\ life' = [life EXCEPT ![c] = end]
    /\ loop' = [loop EXCEPT ![c] = "off"]
    /\ last' = [last EXCEPT ![c] = [tp \in Partitions |-> 0]]
    /\ sliding' = sliding \ {c}
    /\ timer' = [timer EXCEPT ![c] = 0]
    /\ age' = [age EXCEPT ![c] = [m \in Messages |-> Gone]]
    /\ missed' = [missed EXCEPT ![c] = [m \in Messages |-> 0]]
    /\ UNCHANGED <<given, handled>>

\* Mutant of FinalPublish: stop does not flush the window.
FinalPublishMutant(c) ==
    /\ life[c] = "flushing" /\ loop[c] \in {"off", "dead"}
    /\ UNCHANGED <<reported, excused>>
    /\ Vanish(c, IF loop[c] = "dead" THEN "failed" ELSE "ended")
    /\ UNCHANGED groupVars

(* What is left in the window is published once more; the exception of a dead run is raised when *)
(* main awaits the task. *)
FinalPublish(c) ==
    /\ life[c] = "flushing" /\ loop[c] \in {"off", "dead"}
    /\ \E unsent \in SUBSET Results(c) :
        /\ unsent = {} \/ Occurs("no publication")
        /\ reported' = reported \cup (Results(c) \ unsent)
        /\ excused' = excused \cup unsent
    /\ Vanish(c, IF loop[c] = "dead" THEN "failed" ELSE "ended")
    /\ UNCHANGED groupVars

(* The process is killed. *)
Crash(c) ==
    /\ Occurs("crash") /\ c \in Endangered /\ Alive(c)
    /\ Vanish(c, "crashed")
    /\ excused' = excused \cup InWindow(c)
    /\ UNCHANGED <<groupVars, reported>>
-----------------------------------------------------------------------------
Runs(c) == Poll(c) \/ PollRaises(c) \/ CommitOk(c) \/ CommitFails(c) \/ LoopEnds(c)
Slides(c) == SlideOk(c) \/ SlideFails(c)
Stops(c) == FinalCommit(c) \/ FinalPublish(c)

Next ==
    \/ Rebalance \/ Tick
    \/ \E c \in Consumers :
        \/ Evict(c) \/ StartRaises(c) \/ StartFails(c) \/ Start(c)
        \/ Runs(c) \/ Slides(c) \/ Stop(c) \/ Stops(c) \/ Crash(c)

(***************************************************************************)
(* The event loop runs what is ready, time passes, and the group evicts    *)
(* and rebalances.  Nothing makes a consumer start, stop or crash.         *)
(***************************************************************************)
Fairness ==
    /\ WF_vars(Rebalance \/ \E c \in Consumers : Evict(c)) /\ WF_vars(Tick)
    /\ \A c \in Consumers : WF_vars(Runs(c)) /\ WF_vars(Slides(c) \/ Stops(c))

Spec == Init /\ [][Next]_vars /\ Fairness
-----------------------------------------------------------------------------
(* At least once: no offset is committed beyond a message that was not handled, so a poison message *)
(* is never passed (run notes an offset after its message, and commits after the batch). *)
CommittedWereHandled ==
    \A tp \in Partitions : \A i \in 1 .. committed[tp] : <<tp, i>> \in handled

(* A valid review whose offset is committed, and which the group will not read again, has been in a *)
(* published aggregate, or is still in the window of a consumer that will publish it; if not, its *)
(* consumer was killed, had met a poison message, or every publication of the review's window failed. *)
CommittedReported ==
    \A m \in Messages :
        m[2] <= committed[m[1]] /\ scenario.log[m] = "valid" =>
            m \in reported \cup excused \/ \E c \in Consumers : Alive(c) /\ m \in InWindow(c)

(* While one consumer is the whole group and stays alive, every valid review is published in the end, *)
(* unless it was lost before, or publication failed as long as it was in the window. *)
ReviewsReported ==
    \A c \in Consumers :
        <>[](life[c] = "running" /\ loop[c] # "dead" /\ members = {c}) =>
            <>(\A m \in Messages : scenario.log[m] = "valid" => m \in reported \cup excused)

(* SIGTERM ends the process, whatever fails. *)
StopEnds == \A c \in Consumers : Shutdown(c) ~> ~Alive(c)
=============================================================================
