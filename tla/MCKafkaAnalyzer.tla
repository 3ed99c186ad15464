-------------------------- MODULE MCKafkaAnalyzer --------------------------
(* Two partitions; in one scenario p1 has a poison message. *)
EXTENDS KafkaAnalyzer

CONSTANTS p1, p2

MCLog(first, second, other) ==
    [m \in Messages |->
        CASE m = <<p1, 1>> -> first
          [] m = <<p1, 2>> -> second
          [] m = <<p2, 1>> -> other
          [] OTHER -> "none"]

MCScenarios ==
    {[log |-> MCLog("valid", "none", "skipped"), events |-> {"no commit", "crash", "stop"}],
     [log |-> MCLog("valid", "skipped", "none"), events |-> {"no publication", "stop"}],
     [log |-> MCLog("skipped", "poison", "valid"), events |-> {"no start", "no commit", "stop"}]}
=============================================================================
