-------------------------- MODULE MCKdTreeRebuild --------------------------
(* Two boxes, one with two points; a is closer to its centre than b.       *)
EXTENDS KdTreeRebuild

CONSTANTS a, b, c
Points == {a, b, c}
Boxes == {{a, b}, {c}}
Distance == [p \in Points |-> IF p = b THEN 1 ELSE 0]
=============================================================================
