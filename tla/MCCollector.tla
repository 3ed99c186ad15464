---------------------------- MODULE MCCollector ----------------------------
(***************************************************************************)
(* Three instances of Collector in one:                                    *)
(*   - "leased": two processes of which none loses its lease;              *)
(*   - "alone": one process that may be cut off and lose it;               *)
(*   - "robbed": a process that has lost its lease and believes what it    *)
(*     did before, and another that starts then, claims and collects, and  *)
(*     loses the key to the ReleaseAll of the first: it claims again while *)
(*     its old goroutine collects.                                         *)
(* What holds only while leases last is stated of the first.               *)
(***************************************************************************)
EXTENDS Collector

VARIABLE mode   \* which instance

MCInit == CollectorInit /\ mode \in {"leased", "alone", "robbed"}

\* A process is cut off: its keepalive channel is closed, or its lease runs out under it.
CutOff(w) ==
    /\ proc[w] \in {"running", "releasing"} /\ proc' = proc
    /\ w \in (lease \ lease') \cup (renewing \ renewing')

Alone == \E w \in Workers : \A v \in Workers \ {w} : proc'[v] = "new"

\* Bound: the process that loses its lease does not crash, and neither looks at the keys nor sees events.
Robbed ==
    /\ \A w \in Expirable :
        /\ proc'[w] # "crashed"
        /\ toVerify'[w] = {} /\ forgetting'[w] = NoProduct /\ freeing'[w] = NoProduct
    /\ (\E v \in Workers \ Expirable : proc'[v] # "new") =>
            \A w \in Expirable : proc[w] # "new" /\ w \notin lease

MCNext ==
    /\ CollectorNext
    /\ mode = "leased" => \A w \in Workers : ~CutOff(w)
    /\ mode = "alone" => Alone
    /\ mode = "robbed" => Robbed
    /\ UNCHANGED mode

MCSpec == MCInit /\ [][MCNext]_<<allVars, mode>>
-----------------------------------------------------------------------------
(* While no lease is lost, no two goroutines, of one process or of two, collect the same product. *)
SingleWhileLeased == mode = "leased" => SingleCollector

(* While no lease is lost, the reviews channel is closed only when no goroutine is going to send on it. *)
NoSendWhileLeased == mode = "leased" => NoSendOnClosed
=============================================================================
