---------------------------- MODULE MCDashboard ----------------------------
(***************************************************************************)
(* The Kafka dashboard in two tabs, and with enough aggregates to fill its *)
(* queue and its memory; the NATS dashboard.                               *)
(***************************************************************************)
EXTENDS Dashboard

CONSTANTS t1, t2

Case(program, repair, tabs, length) ==
    [program |-> program, repair |-> repair, tabs |-> tabs, length |-> length]

MCTabs == {t1, t2}
MCScenarios ==
    {Case("kafka", "none", MCTabs, 2), Case("kafka", "queues", MCTabs, 2),
     Case("kafka", "none", {t1}, 4), Case("kafka", "queues", {t1}, 4)}
    \cup {Case("nats", repair, {t1}, 2) : repair \in {"none", "start", "queues"}}
=============================================================================
