----------------------------- MODULE MCUserApp -----------------------------
(* Small instances of UserApp for TLC. *)
EXTENDS UserApp
=============================================================================
