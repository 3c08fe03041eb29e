----------------------------- MODULE MapStream -----------------------------
(***************************************************************************)
(* What GLIM's mapping pipeline promises: the map is a run of consecutive  *)
(* scans.  It may start after the first scan, it grows by the scans that   *)
(* follow the last one it holds, in their order, and by none twice.        *)
(***************************************************************************)
EXTENDS Integers, Sequences

VARIABLES
  scans,    \* how many scans have been handed over, numbered from 1
  map       \* the scans of the map, in the order they were added

Consecutive(i, j) == [k \in 1..(j - i + 1) |-> i + k - 1]

Init == scans = 0 /\ map = <<>>

Arrive == /\ scans' = scans + 1
          /\ UNCHANGED map

Grow == /\ \E i, j \in 1..scans :
             /\ i <= j
             /\ map # <<>> => i = map[Len(map)] + 1
             /\ map' = map \o Consecutive(i, j)
        /\ UNCHANGED scans

Next == Arrive \/ Grow

Spec == Init /\ [][Next]_<<scans, map>>
=============================================================================
