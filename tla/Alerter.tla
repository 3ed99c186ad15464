------------------------------- MODULE Alerter -------------------------------
(***************************************************************************)
(* deploy/helm/review-pipeline/streamlit/alerter.py: a thread drains the   *)
(* windows from its queue into a buffer, looks for anomalies among those   *)
(* of the last ten minutes and sends a Telegram message for each of them.  *)
(*                                                                         *)
(* Time is counted in check intervals (60 s), and as ages: a window has    *)
(* the time since its window_start, a product the time its cooldown still  *)
(* lasts.  A window that is too old for the check (or has no start that    *)
(* can be read, or no product) stays in the buffer and is never looked at  *)
(* again: its slot is free.                                                *)
(*                                                                         *)
(* Left out: a message that is no object ends the thread (w.get raises).   *)
(***************************************************************************)
EXTENDS Integers, Sequences, FiniteSets, FiniteSetsExt, SequencesExt

CONSTANTS
    Products,
    RatingsOf,    \* RatingsOf[p]: the values of avg_rating in the windows of p
    Slots,        \* bound: recent windows that are in the queue and in the buffer
    None,         \* no window
    Ages,         \* bound: the ages in which windows come into the queue
    Window,       \* ALERT_WINDOW_SECONDS (600 s: 10)
    Cooldown,     \* ALERT_COOLDOWN_SECONDS (300 s: 5)
    Sending       \* intervals the messages of one check may take

(***************************************************************************)
(* A check sends up to two messages a product, one after the other, each   *)
(* with a timeout of 10 s, by which the request is taken to have ended.    *)
(***************************************************************************)

ASSUME AlerterAssumption ==
    /\ IsFiniteSet(Slots) /\ IsFiniteSet(Products)
    /\ \A p \in Products : RatingsOf[p] \subseteq Nat
    /\ Window \in Nat /\ Cooldown \in Nat \ {0}
    /\ Ages \subseteq 0 .. Window
    /\ Sending \in Nat /\ Cardinality(Products) <= 3 * Sending

VARIABLES
    win,          \* win[i]: a recent window or None
    cooling,      \* cooling[p]: what is left of the cooldown of p (_last_alert)
    outbox,       \* alerts of this check that are not sent yet
    at,           \* the thread: "check", "send", "wait"
    spent,        \* intervals that have passed while it is there
    told          \* history: told[p]: time since a message about p got through, up to Cooldown

vars == <<win, cooling, outbox, at, spent, told>>

Conditions == {"rating", "negative"}

(***************************************************************************)
(* A window: where it is, its product, age and avg_rating; and its         *)
(* history: ready, the age at which the interval it arrived in is over     *)
(* and, if its product was in a cooldown, the cooldown; and the alerts on  *)
(* its product since it arrived, counted up to two.                        *)
(***************************************************************************)
WindowRecords ==
    [place : {"queue", "buffer"}, product : Products, age : Nat, rating : Nat,
     ready : Nat, alerts : 0 .. 2]

ASSUME NoneAssumption == None \notin WindowRecords

TypeOK ==
    /\ win \in [Slots -> WindowRecords \cup {None}]
    /\ \A i \in Slots : win[i] # None => win[i].age <= Window
    /\ cooling \in [Products -> 0 .. Cooldown]
    /\ outbox \in Seq([product : Products, condition : Conditions])
    /\ at \in {"check", "send", "wait"} /\ spent \in 0 .. Sending + 1
    /\ told \in [Products -> 0 .. Cooldown]

(* The thread is started with a token, a chat and an empty queue; nothing was sent yet. *)
Init ==
    /\ win = [i \in Slots |-> None]
    /\ cooling = [p \in Products |-> 0]
    /\ outbox = <<>>
    /\ at = "check" /\ spent = 0
    /\ told = [p \in Products |-> Cooldown]
-----------------------------------------------------------------------------
\* The next count, up to a limit.
UpTo(limit, n) == IF n < limit THEN n + 1 ELSE n

(***************************************************************************)
(* The listener of the dashboard puts a window into the queue, when its    *)
(* minute is over or later: the aggregator emits it again for late reviews *)
(* until window and watermark have passed, and a topic may be behind.      *)
(***************************************************************************)
Put(i, p, r, a) ==
    /\ win[i] = None
    /\ win' = [win EXCEPT ![i] =
                 [place |-> "queue", product |-> p, age |-> a, rating |-> r,
                  ready |-> a + (IF cooling[p] > 0 THEN cooling[p] ELSE 1), alerts |-> 0]]
    /\ UNCHANGED <<cooling, outbox, at, spent, told>>

Group(p) == {i \in Slots : win[i] # None /\ win[i].product = p}

(***************************************************************************)
(* What check finds for p: a mean of avg_rating below 3.0, more than 30 %  *)
(* of the windows below 3.0.                                               *)
(***************************************************************************)
Anomalies(p) ==
    LET negative == {i \in Group(p) : win[i].rating < 3}
        total    == MapThenSumSet(LAMBDA i : win[i].rating, Group(p))
    IN  {c \in Conditions :
            \/ c = "rating" /\ total < 3 * Cardinality(Group(p))
            \/ c = "negative" /\ 10 * Cardinality(negative) > 3 * Cardinality(Group(p))}

AlertsFor(products) ==
    {a \in [product : products, condition : Conditions] : a.condition \in Anomalies(a.product)}

\* The messages product by product in some order, the one on the rating first.
Texts(products) ==
    {s \in SetToSeqs(AlertsFor(products)) :
        \A i, j \in DOMAIN s : i < j /\ s[i].product = s[j].product
                                    => j = i + 1 /\ s[i].condition = "rating"}

\* The buffer after a check that alerts on the products.
Drained(alerted) ==
    [i \in Slots |->
        IF win[i] = None THEN None
        ELSE [win[i] EXCEPT !.place = "buffer",
                            !.alerts = IF win[i].product \in alerted THEN UpTo(2, @) ELSE @]]

\* Mutant of Check: _last_alert is not assigned.
CheckMutant ==
    /\ at = "check"
    /\ LET alerted == {p \in Products : cooling[p] = 0 /\ Anomalies(p) # {}} IN
        /\ win' = Drained(alerted)
        /\ outbox' \in Texts(alerted)
        /\ at' = IF alerted = {} THEN "wait" ELSE "send"
    /\ spent' = 0
    /\ UNCHANGED <<cooling, told>>

(***************************************************************************)
(* The queue is drained and the buffer checked.  The cooldown of a product *)
(* starts here, before anything is sent.                                   *)
(***************************************************************************)
Check ==
    /\ at = "check"
    /\ LET alerted == {p \in Products : cooling[p] = 0 /\ Anomalies(p) # {}} IN
        /\ win' = Drained(alerted)
        /\ cooling' = [p \in Products |-> IF p \in alerted THEN Cooldown ELSE cooling[p]]
        /\ outbox' \in Texts(alerted)
        /\ at' = IF alerted = {} THEN "wait" ELSE "send"
    /\ spent' = 0
    /\ UNCHANGED told

\* After a message the next one, or the wait.
SendEnds ==
    /\ at = "send"
    /\ outbox' = Tail(outbox)
    /\ IF Len(outbox) > 1
       THEN UNCHANGED <<at, spent>>
       ELSE at' = "wait" /\ spent' = 0
    /\ UNCHANGED <<win, cooling>>

SendOk(p) ==
    /\ SendEnds
    /\ outbox[1].product = p
    /\ told' = [told EXCEPT ![p] = 0]

\* Mutant of SendFails: the exception of the request is not caught, and ends the thread.
SendFailsMutant ==
    /\ at = "send"
    /\ at' = "ended"
    /\ UNCHANGED <<win, cooling, outbox, spent, told>>

(* send_telegram returns False, which the loop ignores. *)
SendFails ==
    /\ SendEnds
    /\ UNCHANGED told

(* The wait for the next check is over; nobody sets stop_event. *)
Wake ==
    /\ at = "wait" /\ spent = 1
    /\ at' = "check" /\ spent' = 0
    /\ UNCHANGED <<win, cooling, outbox, told>>

Aged ==
    [i \in Slots |->
        IF win[i] = None \/ win[i].age = Window THEN None ELSE [win[i] EXCEPT !.age = @ + 1]]

\* An interval may end while the thread sends, and ends while it waits.
Passes ==
    \/ at = "send" /\ spent < Sending
    \/ at = "wait" /\ spent = 0

\* Mutant of Tick: the cooldown does not end.
TickMutant ==
    /\ Passes
    /\ spent' = spent + 1
    /\ win' = Aged
    /\ told' = [p \in Products |-> UpTo(Cooldown, told[p])]
    /\ UNCHANGED <<cooling, outbox, at>>

(* One interval passes. *)
Tick ==
    /\ Passes
    /\ spent' = spent + 1
    /\ win' = Aged
    /\ cooling' = [p \in Products |-> IF cooling[p] > 0 THEN cooling[p] - 1 ELSE 0]
    /\ told' = [p \in Products |-> UpTo(Cooldown, told[p])]
    /\ UNCHANGED <<outbox, at>>
-----------------------------------------------------------------------------
Next ==
    \/ \E i \in Slots, p \in Products : \E r \in RatingsOf[p], a \in Ages : Put(i, p, r, a)
    \/ \E p \in Products : SendOk(p)
    \/ Check \/ SendFails \/ Wake \/ Tick

Spec == Init /\ [][Next]_vars

(***************************************************************************)
(* The thread runs, time passes, and Telegram does not refuse every        *)
(* message on a product.                                                   *)
(***************************************************************************)
FairSpec ==
    /\ Spec
    /\ WF_vars(Check) /\ WF_vars(Wake) /\ WF_vars(Tick) /\ WF_vars(SendFails)
    /\ \A p \in Products : SF_vars(SendOk(p))
-----------------------------------------------------------------------------
\* A product of which every window is an anomaly.
Bad(p) == \A r \in RatingsOf[p] : r < 3

(***************************************************************************)
(* A window of a bad product that has come into the queue early enough is  *)
(* behind an alert, or behind two, sent after it came, when it leaves the  *)
(* ten minutes: one if a check fits after the cooldown it came into, two   *)
(* if the next cooldown and another check fit as well, so that a message   *)
(* that fails is repeated.  The cooldown starts whether the message gets   *)
(* through or not: with one alert only, or none, a failed message is the   *)
(* last word on the window.                                                *)
(***************************************************************************)
AlertedInTime ==
    [][\A i \in Slots : win[i] # None /\ win'[i] = None /\ Bad(win[i].product) =>
          /\ win[i].ready + Sending <= Window => win[i].alerts > 0
          /\ win[i].ready + Sending + Cooldown + Sending <= Window => win[i].alerts = 2]_vars

(***************************************************************************)
(* Messages on a product come together or are a cooldown apart, less the   *)
(* time that the sending may take: the cooldown counts from the check, not *)
(* from the message.                                                       *)
(***************************************************************************)
ToldApart ==
    [][\A p \in Products : SendOk(p) => told[p] <= Sending \/ told[p] >= Cooldown - Sending]_vars

(***************************************************************************)
(* While there are recent windows of a bad product the chat is told again  *)
(* and again.                                                              *)
(***************************************************************************)
KeptTold ==
    \A p \in Products : Bad(p) => (<>[](Group(p) # {}) => []<>(told[p] = 0))
=============================================================================
