---------------------------- MODULE MCAntiStuck ----------------------------
(* A corridor with a side room: places on a small grid. *)
EXTENDS Recovery, Integers

Grid == {<<0, 0>>, <<1, 0>>, <<2, 0>>, <<1, 1>>}

Abs(n) == IF n < 0 THEN -n ELSE n

GridDistance(p, q) == Abs(p[1] - q[1]) + Abs(p[2] - q[2])
=============================================================================
