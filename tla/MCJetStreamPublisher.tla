------------------------ MODULE MCJetStreamPublisher ------------------------
(* Small instance of JetStreamPublisher: the aggregates of two windows, then an update of the first. *)
EXTENDS JetStreamPublisher

CONSTANTS k1, k2

MCKey == <<k1, k2, k1>>
=============================================================================
