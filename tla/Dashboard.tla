------------------------------ MODULE Dashboard ------------------------------
(***************************************************************************)
(* The two Streamlit dashboards, dashboard_kafka.py and dashboard.py, and  *)
(* their tabs: a listener thread puts the aggregates it receives into a    *)
(* queue, the script of the tab drains it into the session state, draws    *)
(* and runs again.                                                         *)
(*                                                                         *)
(* Streamlit executes the script of a tab anew for each run, in a new      *)
(* module: the queues of the module are new ones, the threads keep those   *)
(* of the run that started them.  A click of the user ends a run at its    *)
(* next access to the session state.  The listeners of all tabs share one  *)
(* consumer group or durable consumer, and outlive their tab.              *)
(*                                                                         *)
(* An aggregate is numbered when a listener gets it, each time anew:       *)
(* Kafka, committing by itself, gives messages again after a lost session  *)
(* or a failed commit at a rebalance, JetStream those of which the         *)
(* acknowledgement failed.  Which messages come, and come again, is left   *)
(* to them; what becomes of what has come is modelled.  A batch is several *)
(* steps of Receive; the rest of a fetch that a failing acknowledgement    *)
(* drops never came.                                                       *)
(***************************************************************************)
EXTENDS Naturals, Sequences, FiniteSetsExt, SequencesExt

CONSTANTS
    Tabs,         \* browser tabs
    Length,       \* bound: aggregates that the listeners get
    Scenarios,    \* which program, with which repair, in which tabs, with how many aggregates
    Capacity,     \* size of _msg_queue of dashboard_kafka.py (5000)
    MaxAggregates,\* MAX_AGGREGATES (2000)
    NoMessage

Messages == 1 .. Length

ASSUME DashboardAssumption ==
    /\ Length \in Nat /\ Capacity \in Nat \ {0} /\ MaxAggregates \in Nat \ {0}
    /\ NoMessage \notin Messages
    /\ Scenarios \subseteq [program : {"kafka", "nats"}, repair : {"none", "start", "queues"},
                          tabs : SUBSET Tabs, length : 0 .. Length]

VARIABLES
    scenario,     \* program: dashboard_kafka.py or dashboard.py; repair: the code as it is, or
                  \* ("start") with a main of dashboard.py that does not read has_data before it
                  \* is assigned, or ("queues") with queues that outlive a run as well and
                  \* the flag set before the thread is started
    received,     \* aggregates that the listeners have got
    stray,        \* whether a listener runs whose queue no script reads
    script,       \* script[t]: "away", "boot", "flag", "drain", "took", "view", "broken"
    own,          \* own[t]: whether _msg_queue of this run is the queue of the listener
    started,      \* started[t]: listener_started
    kept,         \* kept[t]: aggregates (windows) of the session state
    held,         \* held[t]: the aggregate taken from the queue and not yet appended
    listener,     \* listener[t]: "none", "poll", "full", "evict", "ack"
    queue,        \* queue[t]: the _msg_queue of the listener
    incoming,     \* incoming[t]: the aggregate the listener has at hand
    alerter,      \* alerter[t]: "off", or a thread reads the listener's _alert_queue ("on")
                  \* or another ("deaf"); what it does with it is in Alerter
    gone,         \* history: gone[t]: what was dropped, trimmed or cleared
    drawn         \* history: drawn[t]: a run of the tab has come to its end

given == <<scenario>>
topic == <<received, stray>>
session == <<own, started, kept, held, alerter, drawn>>
thread == <<listener, queue, incoming>>
vars == <<given, topic, script, session, thread, gone>>

TypeOK ==
    /\ scenario \in Scenarios
    /\ received \in 0 .. Length /\ stray \in BOOLEAN
    /\ script \in [Tabs -> {"away", "boot", "flag", "drain", "took", "view", "broken"}]
    /\ own \in [Tabs -> BOOLEAN] /\ started \in [Tabs -> BOOLEAN]
    /\ drawn \in [Tabs -> BOOLEAN]
    /\ listener \in [Tabs -> {"none", "poll", "full", "evict", "ack"}]
    /\ alerter \in [Tabs -> {"off", "deaf", "on"}]
    /\ kept \in [Tabs -> Seq(Messages)] /\ queue \in [Tabs -> Seq(Messages)]
    /\ held \in [Tabs -> Messages \cup {NoMessage}]
    /\ incoming \in [Tabs -> Messages \cup {NoMessage}]
    /\ gone \in [Tabs -> SUBSET Messages]

Init ==
    /\ scenario \in Scenarios
    /\ received = 0 /\ stray = FALSE
    /\ script = [t \in Tabs |-> "away"]
    /\ own = [t \in Tabs |-> FALSE] /\ started = [t \in Tabs |-> FALSE]
    /\ kept = [t \in Tabs |-> <<>>] /\ held = [t \in Tabs |-> NoMessage]
    /\ alerter = [t \in Tabs |-> "off"]
    /\ drawn = [t \in Tabs |-> FALSE]
    /\ listener = [t \in Tabs |-> "none"] /\ queue = [t \in Tabs |-> <<>>]
    /\ incoming = [t \in Tabs |-> NoMessage]
    /\ gone = [t \in Tabs |-> {}]
-----------------------------------------------------------------------------
IsKafka == scenario.program = "kafka"
Lasting == scenario.repair = "queues"

\* The next aggregate, while there are some.
Comes(m) == m = received + 1 /\ m <= scenario.length /\ received' = m

IsFull(t) == IsKafka /\ Len(queue[t]) >= Capacity

(***************************************************************************)
(* The Kafka listener puts the message into the queue, unless it is full;  *)
(* the NATS listener puts it into both queues and acknowledges it.         *)
(***************************************************************************)
Receive(t, m) ==
    /\ listener[t] = "poll" /\ Comes(m)
    /\ IF IsFull(t)
       THEN /\ listener' = [listener EXCEPT ![t] = "full"]
            /\ incoming' = [incoming EXCEPT ![t] = m]
            /\ UNCHANGED queue
       ELSE /\ queue' = [queue EXCEPT ![t] = Append(@, m)]
            /\ IF IsKafka
               THEN UNCHANGED <<listener, incoming>>
               ELSE /\ listener' = [listener EXCEPT ![t] = "ack"]
                    /\ incoming' = [incoming EXCEPT ![t] = m]
    /\ UNCHANGED <<given, stray, script, session, gone>>

(* The acknowledgement succeeds, or raises and the listener goes on after a second. *)
Acknowledge(t) ==
    /\ listener[t] = "ack"
    /\ listener' = [listener EXCEPT ![t] = "poll"]
    /\ incoming' = [incoming EXCEPT ![t] = NoMessage]
    /\ UNCHANGED <<given, topic, script, session, queue, gone>>

(* The test of the loop that makes room: the script may have drained the queue meanwhile. *)
MakeRoom(t) ==
    /\ listener[t] = "full"
    /\ IF Len(queue[t]) >= Capacity
       THEN /\ listener' = [listener EXCEPT ![t] = "evict"]
            /\ UNCHANGED <<queue, incoming>>
       ELSE /\ queue' = [queue EXCEPT ![t] = Append(@, incoming[t])]
            /\ listener' = [listener EXCEPT ![t] = "poll"]
            /\ incoming' = [incoming EXCEPT ![t] = NoMessage]
    /\ UNCHANGED <<given, topic, script, session, gone>>

(***************************************************************************)
(* The oldest aggregate is dropped; if the script has emptied the queue    *)
(* since the test, queue.Empty ends the loop and the new one is dropped.   *)
(***************************************************************************)
Evict(t) ==
    /\ listener[t] = "evict"
    /\ IF queue[t] = <<>>
       THEN /\ gone' = [gone EXCEPT ![t] = @ \cup {incoming[t]}]
            /\ listener' = [listener EXCEPT ![t] = "poll"]
            /\ incoming' = [incoming EXCEPT ![t] = NoMessage]
            /\ UNCHANGED queue
       ELSE /\ gone' = [gone EXCEPT ![t] = @ \cup {Head(queue[t])}]
            /\ queue' = [queue EXCEPT ![t] = Tail(@)]
            /\ listener' = [listener EXCEPT ![t] = "full"]
            /\ UNCHANGED incoming
    /\ UNCHANGED <<given, topic, script, session>>

(* A listener without a tab takes its share as well. *)
ReceiveStray(m) ==
    /\ stray /\ Comes(m)
    /\ UNCHANGED <<given, stray, script, session, thread, gone>>
-----------------------------------------------------------------------------
Enter(t, place) == script' = [script EXCEPT ![t] = place]

(* The page is opened; init_session_state makes an empty session. *)
Open(t) ==
    /\ script[t] = "away" /\ t \in scenario.tabs
    /\ Enter(t, "boot")
    /\ UNCHANGED <<given, topic, session, thread, gone>>

(* main of dashboard.py reads has_data and total before it assigns them: the run fails here. *)
Break(t) ==
    /\ script[t] = "boot" /\ ~IsKafka /\ scenario.repair = "none"
    /\ Enter(t, "broken")
    /\ UNCHANGED <<given, topic, session, thread, gone>>

Boots(t) == script[t] = "boot" /\ (~IsKafka => scenario.repair # "none")

\* The listener of t, if any, goes on without a tab; the tab has another one or none.
Detach(t, next) ==
    /\ stray' = (stray \/ listener[t] # "none")
    /\ listener' = [listener EXCEPT ![t] = next]
    /\ queue' = [queue EXCEPT ![t] = <<>>]
    /\ incoming' = [incoming EXCEPT ![t] = NoMessage]

(***************************************************************************)
(* The thread is started with the queue of this run.  That of an earlier   *)
(* run that was ended before it set the flag goes on with its own queue.   *)
(***************************************************************************)
Launch(t) ==
    /\ Boots(t) /\ ~started[t]
    /\ Enter(t, "flag")
    /\ own' = [own EXCEPT ![t] = TRUE]
    /\ Detach(t, "poll")
    /\ UNCHANGED <<given, received, started, kept, held, alerter, drawn, gone>>

(***************************************************************************)
(* Once the user has typed in token and chat, after the first drawing, the *)
(* alerter is started with the _alert_queue of the run.                    *)
(***************************************************************************)
AlertersAfter(t) ==
    {alerter[t]} \cup
    {a \in {"on", "deaf"} :
        ~IsKafka /\ alerter[t] = "off" /\ (a = "on" <=> own[t])}

\* Mutant of Started: listener_started is not saved.
StartedMutant(t) ==
    /\ script[t] = "flag" \/ (Boots(t) /\ started[t])
    /\ Enter(t, "drain")
    /\ \E a \in AlertersAfter(t) : alerter' = [alerter EXCEPT ![t] = a]
    /\ UNCHANGED <<given, topic, own, started, kept, held, drawn, thread, gone>>

(***************************************************************************)
(* The flag is set, and the alerter may be started: its thread and its     *)
(* flag are one step, the click between them that would make the next run  *)
(* start a second thread is left out.                                      *)
(***************************************************************************)
Started(t) ==
    /\ script[t] = "flag" \/ (Boots(t) /\ started[t])
    /\ Enter(t, "drain")
    /\ started' = [started EXCEPT ![t] = TRUE]
    /\ \E a \in AlertersAfter(t) : alerter' = [alerter EXCEPT ![t] = a]
    /\ UNCHANGED <<given, topic, own, kept, held, drawn, thread, gone>>

(* get_nowait of the drain; the queue of a later run is another, empty one. *)
Take(t) ==
    /\ script[t] = "drain" /\ own[t] /\ queue[t] # <<>>
    /\ Enter(t, "took")
    /\ held' = [held EXCEPT ![t] = Head(queue[t])]
    /\ queue' = [queue EXCEPT ![t] = Tail(@)]
    /\ UNCHANGED <<given, topic, own, started, kept, alerter, drawn,
                   listener, incoming, gone>>

\* Mutant of Keep: the aggregate is only counted.
KeepMutant(t) ==
    /\ script[t] = "took"
    /\ Enter(t, "drain")
    /\ held' = [held EXCEPT ![t] = NoMessage]
    /\ UNCHANGED <<given, topic, own, started, kept, alerter, drawn, thread, gone>>

(* It is appended to the session state. *)
Keep(t) ==
    /\ script[t] = "took"
    /\ Enter(t, "drain")
    /\ kept' = [kept EXCEPT ![t] = Append(@, held[t])]
    /\ held' = [held EXCEPT ![t] = NoMessage]
    /\ UNCHANGED <<given, topic, own, started, alerter, drawn, thread, gone>>

Drained(t) == script[t] = "drain" /\ (own[t] => queue[t] = <<>>)

\* The last MaxAggregates; dashboard.py keeps all.
Trimmed(s) ==
    IF IsKafka /\ Len(s) > MaxAggregates
    THEN SubSeq(s, Len(s) - MaxAggregates + 1, Len(s))
    ELSE s

(* The queue is empty: the session state is trimmed and drawn; the run sleeps until the next one. *)
Draw(t) ==
    /\ Drained(t)
    /\ Enter(t, "view")
    /\ kept' = [kept EXCEPT ![t] = Trimmed(@)]
    /\ gone' = [gone EXCEPT ![t] = @ \cup (Range(kept[t]) \ Range(Trimmed(kept[t])))]
    /\ drawn' = [drawn EXCEPT ![t] = TRUE]
    /\ UNCHANGED <<given, topic, own, started, held, alerter, thread>>

\* A new run of the script has new queues; the user may have typed in the token.
NewRun(t) ==
    /\ Enter(t, "boot")
    /\ own' = [own EXCEPT ![t] = (@ /\ Lasting)]

(* The button empties the session state: before the drain in dashboard.py, after it in the other. *)
Clear(t) ==
    /\ drawn[t]
    /\ IF IsKafka THEN Drained(t) ELSE Boots(t)
    /\ NewRun(t)
    /\ kept' = [kept EXCEPT ![t] = <<>>]
    /\ gone' = [gone EXCEPT ![t] = @ \cup Range(kept[t])]
    /\ UNCHANGED <<given, topic, started, held, alerter, drawn, thread>>

(* The automatic refresh, or a click. *)
Rerun(t) ==
    /\ script[t] = "view"
    /\ NewRun(t)
    /\ UNCHANGED <<given, topic, started, kept, held, alerter, drawn, thread, gone>>

\* Mutant of Interrupt: what was taken is put back into the queue.
InterruptMutant(t) ==
    /\ script[t] \in {"flag", "drain", "took", "broken"}
    /\ Lasting => script[t] # "flag"
    /\ NewRun(t)
    /\ held' = [held EXCEPT ![t] = NoMessage]
    /\ queue' = [queue EXCEPT ![t] = IF held[t] = NoMessage THEN @ ELSE Append(@, held[t])]
    /\ UNCHANGED <<given, topic, started, kept, alerter, drawn, listener, incoming, gone>>

(***************************************************************************)
(* A click while the script runs (or has failed): it ends at the next      *)
(* access to the session state, and with it what was taken from the queue. *)
(***************************************************************************)
Interrupt(t) ==
    /\ script[t] \in {"flag", "drain", "took", "broken"}
    /\ Lasting => script[t] # "flag"
    /\ NewRun(t)
    /\ held' = [held EXCEPT ![t] = NoMessage]
    /\ gone' = [gone EXCEPT ![t] = IF held[t] = NoMessage THEN @ ELSE @ \cup {held[t]}]
    /\ UNCHANGED <<given, topic, started, kept, alerter, drawn, thread>>

(* The tab is closed; nobody stops its listener. *)
Close(t) ==
    /\ script[t] # "away"
    /\ Enter(t, "away")
    /\ Detach(t, "none")
    /\ own' = [own EXCEPT ![t] = FALSE] /\ started' = [started EXCEPT ![t] = FALSE]
    /\ kept' = [kept EXCEPT ![t] = <<>>] /\ held' = [held EXCEPT ![t] = NoMessage]
    /\ alerter' = [alerter EXCEPT ![t] = "off"]
    /\ drawn' = [drawn EXCEPT ![t] = FALSE] /\ gone' = [gone EXCEPT ![t] = {}]
    /\ UNCHANGED <<given, received>>
-----------------------------------------------------------------------------
Next ==
    \/ \E t \in Tabs :
        \/ \E m \in Messages : Receive(t, m)
        \/ Acknowledge(t) \/ MakeRoom(t) \/ Evict(t)
        \/ Open(t) \/ Break(t) \/ Launch(t) \/ Started(t) \/ Take(t) \/ Keep(t) \/ Draw(t)
        \/ Clear(t) \/ Rerun(t) \/ Interrupt(t) \/ Close(t)
    \/ \E m \in Messages : ReceiveStray(m)

Spec == Init /\ [][Next]_vars

(***************************************************************************)
(* The script of an open tab runs and is refreshed; however often the user *)
(* clicks, each step of it is taken in the end.                            *)
(***************************************************************************)
FairSpec ==
    /\ Spec
    /\ \A t \in Tabs :
        /\ SF_vars(Launch(t)) /\ SF_vars(Started(t)) /\ SF_vars(Take(t))
        /\ SF_vars(Keep(t)) /\ SF_vars(Draw(t)) /\ WF_vars(Rerun(t))
-----------------------------------------------------------------------------
(***************************************************************************)
(* What the tab shows, what its script has taken, what waits and what the  *)
(* Kafka listener has at hand (the other one has put it into the queue).   *)
(***************************************************************************)
One(m) == IF m = NoMessage THEN <<>> ELSE <<m>>
Pending(t) == IF IsKafka THEN incoming[t] ELSE NoMessage
Line(t) == kept[t] \o One(held[t]) \o queue[t] \o One(Pending(t))

(***************************************************************************)
(* A tab has the aggregates in the order in which its listener got them,   *)
(* those that it shows before those under way, none twice and none         *)
(* overtaken, however the listener makes room while the script drains and  *)
(* clicks end it.                                                          *)
(***************************************************************************)
InOrder ==
    \A t \in Tabs : \A i, j \in DOMAIN Line(t) : i < j => Line(t)[i] < Line(t)[j]

(***************************************************************************)
(* As they are written the dashboards never show anything new: a tab that  *)
(* has drawn once has another queue than its listener, and an alerter that *)
(* is started then hears nothing.                                          *)
(***************************************************************************)
FrozenAsWritten ==
    [][\A t \in Tabs :
        ~Lasting /\ drawn[t] /\ script'[t] # "away" =>
            /\ Range(kept'[t]) \subseteq Range(kept[t])
            /\ alerter[t] = "off" => alerter'[t] # "on"]_vars

\* What waits for an open tab is shown, if it is not dropped.
Shows(t, m) == script[t] = "view" /\ m \in Range(kept[t])
AllShown ==
    \A t \in Tabs, m \in Messages :
        m \in Range(queue[t]) ~> Shows(t, m) \/ m \in gone[t] \/ script[t] = "away"

(***************************************************************************)
(* The Kafka dashboard "shows charts in real time" (dashboard_kafka.py:6): *)
(* what its listener has put into the queue is shown while the tab is open *)
(* and refreshed.                                                          *)
(***************************************************************************)
ShownInRealTime == IsKafka => AllShown

(***************************************************************************)
(* With queues that outlive a run, what waits for an open tab is shown, if *)
(* it is not dropped.                                                      *)
(***************************************************************************)
ShownInTheEnd == Lasting => AllShown
=============================================================================
