--------------------------- MODULE MCRoverCommand ---------------------------
(***************************************************************************)
(* Instances of RoverCommand for TLC: one rover, since rovers meet only in *)
(* the keys that address several of them, which RoverTeleop's runs cover.  *)
(***************************************************************************)
EXTENDS RoverCommand

Forward == {1}
=============================================================================
