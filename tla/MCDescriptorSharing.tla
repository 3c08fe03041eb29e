------------------------ MODULE MCDescriptorSharing ------------------------
(***************************************************************************)
(* Instances of DescriptorSharing for TLC.  Robots are model values; those *)
(* that only listen are interchangeable.                                   *)
(***************************************************************************)
EXTENDS DescriptorSharing, TLC

Symmetry == Permutations(Robot \ Producer)
=============================================================================
