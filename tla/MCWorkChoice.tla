---------------------------- MODULE MCWorkChoice ----------------------------
(* A table with levels below and above the range, a level without ECM       *)
(* curves, two lines for one B1 and work that does not divide evenly.       *)
EXTENDS WorkChoice

Line(b, e, m, p, s) == [b1 |-> b, ecm |-> e, pm1 |-> m, pp1 |-> p, sumWork |-> s]

OddLevels == <<Line(1, 1, 1, 1, 1), Line(2, 0, 1, 1, 1), Line(3, 1, 1, 1, 4),
               Line(3, 1, 2, 1, 7), Line(5, 2, 1, 1, 17)>>
=============================================================================
