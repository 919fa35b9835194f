--------------------------- MODULE MCHopperInput ---------------------------
(* Small instances of HopperInput for TLC. *)
EXTENDS HopperInput
=============================================================================
