---------------------------- MODULE Bookkeeping ----------------------------
(***************************************************************************)
(* What the changer promises about money, without events, devices or        *)
(* payouts.  Money that comes in waits until it is settled as a whole: it   *)
(* is either paid for or given up, and nothing else ever happens to it.     *)
(***************************************************************************)
EXTENDS Integers

VARIABLES
  income,     \* all money the counters have seen
  waiting,    \* accepted and not settled yet
  paid,       \* counted as paid for
  forgiven    \* given up

books == <<income, waiting, paid, forgiven>>

Init == income = 0 /\ waiting = 0 /\ paid = 0 /\ forgiven = 0

Accept ==
  /\ income' > income
  /\ waiting' - waiting = income' - income
  /\ UNCHANGED <<paid, forgiven>>

Settle ==
  /\ waiting > 0 /\ waiting' = 0
  /\ paid' = paid + waiting
  /\ UNCHANGED <<income, forgiven>>

GiveUp ==
  /\ waiting > 0 /\ waiting' = 0
  /\ forgiven' = forgiven + waiting
  /\ UNCHANGED <<income, paid>>

Next == Accept \/ Settle \/ GiveUp

Spec == Init /\ [][Next]_books
=============================================================================
