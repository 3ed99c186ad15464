--------------------------- MODULE PublicationLog ---------------------------
(***************************************************************************)
(* What the publisher promises about an aggregate, without channels,       *)
(* goroutines and connections: the stream is a log to which it is added    *)
(* once at most; its publication has one outcome, which is final; what is  *)
(* confirmed is in the log, itself or another with its key, and is counted *)
(* once.                                                                   *)
(***************************************************************************)
EXTENDS Naturals, Sequences, SequencesExt

CONSTANT Key    \* Key[a]: dedup key of the a-th aggregate

VARIABLES
    log,         \* the aggregates in the stream
    count,       \* the counter of confirmed publications
    confirmed,
    abandoned

publication == <<log, count, confirmed, abandoned>>

Init == log = <<>> /\ count = 0 /\ confirmed = {} /\ abandoned = {}

Open(a) == a \notin confirmed \cup abandoned

InLog(k, s) == \E b \in ToSet(s) : Key[b] = k

Extended(a) == IF a \in ToSet(log) THEN {log} ELSE {log, Append(log, a)}

\* With or without a confirmation to come.
Arrive(a) ==
    /\ log' \in Extended(a)
    /\ UNCHANGED <<count, confirmed, abandoned>>

\* The aggregate is in the log already, or comes into it now, or another with its key is there.
Confirm(a) ==
    /\ Open(a)
    /\ log' \in Extended(a) /\ InLog(Key[a], log')
    /\ confirmed' = confirmed \cup {a}
    /\ count' = count + 1
    /\ UNCHANGED abandoned

\* Which does not say that it is not in the log.
Abandon(a) ==
    /\ Open(a)
    /\ abandoned' = abandoned \cup {a}
    /\ UNCHANGED <<log, count, confirmed>>

Next == \E a \in DOMAIN Key : Arrive(a) \/ Confirm(a) \/ Abandon(a)

Spec == Init /\ [][Next]_publication
=============================================================================
