---------------------------- MODULE HopperInput ----------------------------
(***************************************************************************)
(* Counting the tokens of the Cube hopper: while the motor runs the hopper  *)
(* gives one pulse per token, the timer interrupt notes it, CoinTask counts *)
(* it and wakes the event server (PROJECT/services/coin.c), and the server, *)
(* which has the higher priority, adds the counts up and stops the motor    *)
(* when it has seen enough tokens (PROJECT/app/app_serv.c).                 *)
(*                                                                         *)
(* UserApp lets every pulse reach the server.  Here is what the two tasks   *)
(* make of it: the server may be busy with another event or wait for the    *)
(* motor to run out, and the interrupt comes at any time.                   *)
(*                                                                         *)
(* An operator directly above another one with the same parameters is a     *)
(* likely mistake in that code, used by no action.                          *)
(***************************************************************************)
EXTENDS Integers

CONSTANTS
  QueueLen,      \* USER_QUERY_LEN
  MaxGoal,       \* bound: tokens of a payout
  MaxCount       \* bound: tokens that fall while the server is busy

ASSUME BoundsAssumption ==
  QueueLen \in Nat \ {0} /\ MaxGoal \in Nat \ {0} /\ MaxCount \in Nat \ {0}

VARIABLES
  motor,         \* the level of P0.24, which drives the motor
  pend,          \* pend_hopper_counter
  first,         \* firstHopperEvent
  count,         \* HopperImpCounter
  last,          \* last_hopper_count
  posting,       \* CoinTask is between its post and the line after it
  queued,        \* EVENT_HOPPER_EXTRACTED in the server's queue
  server,        \* "free", "busy" with another event, or in the run-out "pause"
  goal,          \* CountCoin
  accepted,      \* GetAcceptedCoin()
  thrown,        \* history: tokens thrown since the motor started, up to goal
  before         \* history: tokens noted and not yet used up at that time

inputVars == <<pend, first, count, last, posting>>
payoutVars == <<goal, accepted, before>>
vars == <<motor, inputVars, queued, server, payoutVars, thrown>>

Noted == accepted + count + IF pend /\ ~first THEN 1 ELSE 0

(* The line idles high, so the first interrupt sees an edge of no token.   *)
Init ==
  /\ motor = FALSE /\ goal = 0 /\ accepted = 0
  /\ pend = TRUE /\ first = TRUE
  /\ count = 0 /\ last = 0 /\ posting = FALSE
  /\ queued = 0 /\ server = "free"
  /\ thrown = 0 /\ before = 0

-----------------------------------------------------------------------------
(* A token falls and the interrupt notes its pulse: CoinTask, awake every   *)
(* millisecond, has taken the one before.                                   *)
InputCapture_ISR ==
  /\ motor /\ ~pend
  /\ server = "free" \/ count < MaxCount
  /\ pend' = TRUE
  /\ thrown' = IF thrown < goal THEN thrown + 1 ELSE thrown
  /\ UNCHANGED <<motor, first, count, last, posting, queued, server, payoutVars>>

(* CoinTask runs only when the server, of higher priority, waits.          *)
ServerWaits == server # "free" \/ queued = 0

FirstKept == first
FirstLeft == first /\ ~pend

Counted == IF first THEN 0 ELSE count + 1

Unreported(now) == last < now

(* PostUserEvent: an event that finds the queue full is lost.               *)
PostedAnyway(q) == q + 1
Posted(q) == IF q < QueueLen THEN q + 1 ELSE q

CoinTask ==
  /\ ServerWaits /\ ~posting
  /\ LET now == IF pend THEN Counted ELSE count
     IN /\ count' = now
        /\ pend' = FALSE /\ first' = FirstLeft
        /\ posting' = (now # 0 /\ Unreported(now))
        /\ queued' = IF now # 0 /\ Unreported(now) THEN Posted(queued) ELSE queued
        /\ last' = IF now = 0 THEN 0 ELSE last
  /\ UNCHANGED <<motor, server, payoutVars, thrown>>

CoinTaskPosted ==
  /\ ServerWaits /\ posting
  /\ posting' = FALSE
  /\ last' = count
  /\ UNCHANGED <<motor, pend, first, count, queued, server, payoutVars, thrown>>

-----------------------------------------------------------------------------
(* The server: EVENT_GIVE_COIN, EVENT_HOPPER_EXTRACTED and the clock.       *)

GiveCoin ==
  /\ server = "free" /\ ~motor
  /\ goal' \in 1..MaxGoal
  /\ motor' = TRUE
  /\ thrown' = 0 /\ before' = Noted
  /\ UNCHANGED <<inputVars, queued, server, accepted>>

EnoughAbove(coin) == coin + 1 >= goal
Enough(coin) == coin >= goal

Extracted ==
  /\ server = "free" /\ queued > 0
  /\ queued' = queued - 1
  /\ count' = 0
  /\ IF Enough(count + accepted)
     THEN server' = "pause" /\ UNCHANGED accepted
     ELSE accepted' = count + accepted /\ UNCHANGED server
  /\ UNCHANGED <<motor, pend, first, last, posting, goal, before, thrown>>

StopHopper ==
  /\ server = "pause" /\ server' = "free"
  /\ motor' = FALSE
  /\ goal' = 0 /\ accepted' = 0
  /\ UNCHANGED <<inputVars, queued, before, thrown>>

MotorTimeout ==
  /\ server = "free" /\ motor
  /\ motor' = FALSE
  /\ UNCHANGED <<inputVars, queued, server, payoutVars, thrown>>

OtherEvent ==
  /\ server = "free" /\ queued = 0 /\ last <= MaxCount
  /\ server' = "busy"
  /\ UNCHANGED <<motor, inputVars, queued, payoutVars, thrown>>

OtherEventDone ==
  /\ server = "busy" /\ server' = "free"
  /\ UNCHANGED <<motor, inputVars, queued, payoutVars, thrown>>

Next ==
  \/ InputCapture_ISR \/ CoinTask \/ CoinTaskPosted
  \/ GiveCoin \/ Extracted \/ StopHopper \/ MotorTimeout
  \/ OtherEvent \/ OtherEventDone

Spec == Init /\ [][Next]_vars

(* The hopper is not empty and its motor not stuck, and the tasks run.      *)
FairSpec ==
  /\ Spec
  /\ SF_vars(InputCapture_ISR) /\ WF_vars(CoinTask) /\ WF_vars(CoinTaskPosted)
  /\ WF_vars(Extracted) /\ WF_vars(StopHopper) /\ WF_vars(OtherEventDone)

-----------------------------------------------------------------------------

TypeOK ==
  /\ motor \in BOOLEAN /\ pend \in BOOLEAN /\ first \in BOOLEAN
  /\ posting \in BOOLEAN /\ server \in {"free", "busy", "pause"}
  /\ count \in Nat /\ last \in Nat /\ queued \in 0..QueueLen
  /\ goal \in 0..MaxGoal /\ accepted \in Nat
  /\ thrown \in Nat /\ before \in Nat

(* The motor is never stopped for a payout before its tokens have fallen:   *)
(* those thrown since it was started, and those an abandoned payout or a    *)
(* late pulse left behind, make up the number it owes.                      *)
NeverShort == [][StopHopper => thrown + before >= goal]_vars

(* Tokens whose report was lost are made up for by later ones: a motor that *)
(* throws tokens is stopped, whatever else the server does.                *)
MotorStops == motor ~> ~motor

=============================================================================
