--------------------------- MODULE MCNatsAnalyzer ---------------------------
(* Three messages, of which the first and the last are versions of one window. *)
EXTENDS NatsAnalyzer

MCStream(kind, events) ==
    [kind |-> kind, key |-> <<1, 2, 1>>, events |-> events]

MCStreams ==
    {MCStream(<<"whole", "whole", "whole">>, {"no ack", "no write"}),
     MCStream(<<"fraction", "whole", "fraction">>, {"crash", "stop"}),
     MCStream(<<"fraction", "bad", "fraction">>, {"crash", "no write", "stop"}),
     MCStream(<<"fraction", "odd", "fraction">>, {"no write", "stop"})}
=============================================================================
