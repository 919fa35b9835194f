---------------------------- MODULE MCSavedMoney ----------------------------
(* Small instances of SavedMoney for TLC. *)
EXTENDS SavedMoney
=============================================================================
