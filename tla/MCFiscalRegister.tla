-------------------------- MODULE MCFiscalRegister --------------------------
(* Small instances of FiscalRegister for TLC. *)
EXTENDS FiscalRegister

(* Four machines: the format of the bills and the setting that ignores the  *)
(* errors in every combination, each way to close a shift at least once.    *)
MCSettings ==
  {[ext |-> e, ignore |-> i, autoclose |-> a] : <<e, i, a>> \in
     {<<TRUE, TRUE, 0>>, <<FALSE, FALSE, 1>>, <<TRUE, FALSE, 2>>, <<FALSE, TRUE, 2>>}}
=============================================================================
