---------------------------- MODULE MCPulseInput ----------------------------
(* Small instances of PulseInput for TLC. *)
EXTENDS PulseInput
=============================================================================
