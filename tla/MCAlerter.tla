----------------------------- MODULE MCAlerter -----------------------------
(***************************************************************************)
(* One product that is always bad and one whose bad windows may be hidden  *)
(* by good ones, with the durations of the code.                           *)
(***************************************************************************)
EXTENDS Alerter

CONSTANTS p1, p2

MCProducts == {p1, p2}
MCRatingsOf == [p \in MCProducts |-> IF p = p1 THEN {1} ELSE {1, 4}]
=============================================================================
