----------------------------- MODULE MCCcnetBus -----------------------------
(* Small instances of CcnetBus for TLC. *)
EXTENDS CcnetBus
=============================================================================
