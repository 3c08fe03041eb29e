----------------------- MODULE MCCandidateSelection -----------------------
(***************************************************************************)
(* An instance of CandidateSelection for TLC.  Robots 1 and 2 hear each    *)
(* other's descriptors; robot 0, the broker while it is in range, has no   *)
(* keyframes and knows matches from the others only.                       *)
(***************************************************************************)
EXTENDS CandidateSelection

Late  == [r \in Robot |-> IF r = 0 THEN 0 ELSE 3 - r]
Heard == {<<1, 2>>, <<2, 1>>}
Fade  == {<<1, 0>>}

(* Registration of the edges of one keyframe always succeeds, of the other *)
(* it always fails.                                                        *)
Mixed == [e \in Edge |-> {(<<1, 0>> \in e)}]

(* All keyframes match; a later one is more similar.                       *)
AllSimilar ==
  [e \in Edge |->
     LET v == CHOOSE v \in e : \A w \in e : v[1] <= w[1]
         w == CHOOSE w \in e : w # v IN
     1 + v[2] * 16 + w[2] * 64 + v[1] * 4 + w[1]]
=============================================================================
