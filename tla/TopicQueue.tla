----------------------------- MODULE TopicQueue -----------------------------
(***************************************************************************)
(* The queue of a topic subscription with a keep-last history: when it is  *)
(* full, a new message pushes the oldest one out.                          *)
(***************************************************************************)
EXTENDS Naturals, Sequences

CONSTANT Depth  \* history depth given to create_subscription()

ASSUME DepthAssumption == Depth \in Nat \ {0}

(* Mutant: the queue has no limit.                                         *)
KeepAll(q, m) == Append(q, m)

Keep(q, m) == IF Len(q) < Depth THEN Append(q, m) ELSE Append(Tail(q), m)
=============================================================================
