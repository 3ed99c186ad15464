---------------------------- MODULE ReviewLedger ----------------------------
(***************************************************************************)
(* What the window aggregator promises about a review, without windows and *)
(* time: a review it accepts is pending until an aggregate reports it, or  *)
(* is reported at once; it is reported in the end, and never forgotten.    *)
(***************************************************************************)
EXTENDS Naturals

CONSTANT Reviews

VARIABLES pending, reported

ledger == <<pending, reported>>

New == Reviews \ (pending \cup reported)

Init == pending = {} /\ reported = {}

\* A review of an open window.
Accept(r) ==
    /\ r \in New
    /\ pending' = pending \cup {r}
    /\ UNCHANGED reported

\* A late review: the update that contains it is computed in the same step.
AcceptLate(r) ==
    /\ r \in New
    /\ reported' = reported \cup {r}
    /\ UNCHANGED pending

\* The aggregates of a window are computed.
Report(R) ==
    /\ pending' = pending \ R
    /\ reported' = reported \cup R

Next ==
    \/ \E r \in Reviews : Accept(r) \/ AcceptLate(r)
    \/ \E R \in SUBSET pending : Report(R)

Reports(r) == \E R \in SUBSET pending : r \in R /\ Report(R)

Safe == Init /\ [][Next]_ledger

Spec == Safe /\ \A r \in Reviews : WF_ledger(Reports(r))
=============================================================================
