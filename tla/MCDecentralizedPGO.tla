------------------------ MODULE MCDecentralizedPGO ------------------------
(***************************************************************************)
(* Instances of DecentralizedPGO for TLC.  Ids matter (priority, array     *)
(* indices), so robots are numbers and there is no symmetry.               *)
(***************************************************************************)
EXTENDS DecentralizedPGO, TLC

(* A pair of robots in range of each other.                                *)
Pair         == 0..1
PairClosure  == {<<0, 1>>}
PairRange    == [r \in Pair |-> Pair \ {r}]
PairOneRound == [r \in Pair |-> 1]
PairRounds12 == (0 :> 2) @@ (1 :> 1)
=============================================================================
