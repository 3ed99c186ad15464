-------------------------- MODULE MCTumblingWindow --------------------------
(* Small instances of TumblingWindow: three reviews of two products in the first window, *)
(* of which any may come late, and one in the second. *)
EXTENDS TumblingWindow, TLC

CONSTANTS r1, r2, r3, r4, p1, p2

MCReviews == {r1, r2, r3, r4}
MCDate == r1 :> 0 @@ r2 :> 1 @@ r3 :> 1 @@ r4 :> 3
MCProduct == r1 :> p1 @@ r2 :> p2 @@ r3 :> p1 @@ r4 :> p1
=============================================================================
