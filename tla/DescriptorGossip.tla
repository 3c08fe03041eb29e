------------------------- MODULE DescriptorGossip -------------------------
(***************************************************************************)
(* What sharing global descriptors promises: every robot learns the        *)
(* descriptors of every other one in the order they were made, none twice  *)
(* and none left out.                                                      *)
(***************************************************************************)
EXTENDS Naturals

CONSTANT Robot

VARIABLES
  made,     \* how many descriptors each robot made: ids 0..made-1
  learned   \* learned[j][i]: ids of i's descriptors j has matched against

Init ==
  /\ made = [i \in Robot |-> 0]
  /\ learned = [j \in Robot |-> [i \in Robot |-> {}]]

Make(i) ==
  /\ made' = [made EXCEPT ![i] = @ + 1]
  /\ UNCHANGED learned

Learn(j, i) ==
  /\ i # j
  /\ \E n \in 1..made[i] : /\ learned[j][i] \subseteq 0..(n - 1)
                           /\ learned' = [learned EXCEPT ![j][i] = 0..(n - 1)]
  /\ UNCHANGED made

Next == \E i \in Robot : Make(i) \/ \E j \in Robot : Learn(j, i)

Spec == Init /\ [][Next]_<<made, learned>>
=============================================================================
