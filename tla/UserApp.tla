------------------------------ MODULE UserApp ------------------------------
(***************************************************************************)
(* The event server of the changer (UserAppTask, PROJECT/app/app_serv.c)    *)
(* with the tasks that feed its queue.  Money comes in through the coin     *)
(* acceptor, the bank terminal and the bill validator; the server adds it   *)
(* to the accepted money kept in FRAM, pays tokens out of the hopper, has   *)
(* the check printed and counts what was paid for.                          *)
(*                                                                         *)
(* A step is one handler of the switch in UserAppTask, or the part of it    *)
(* between two points where the task sleeps long enough for another task to *)
(* act on what it left behind: the pulse loop of EVENT_GIVE_COIN and the    *)
(* motor run-out pause of EVENT_HOPPER_EXTRACTED are steps of their own.    *)
(* The journal, the per-nominal bill counters, the menus and the printing   *)
(* of the check itself are read by no handler here and are left out.  The   *)
(* task's copy of the hopper regime is read before every payout, and the    *)
(* regime is a setting: the constant Cube stands for both.                  *)
(*                                                                         *)
(* An operator directly above another one with the same parameters and a    *)
(* longer name (PriceMetLess above PriceMet) is a likely mistake in that    *)
(* code; no action uses it, and the properties must tell the two apart.     *)
(***************************************************************************)
EXTENDS Integers, Sequences, FiniteSets

CONSTANTS
  HopperCost,          \* price of a token (HopperCostDesc, 0 is excluded)
  CoinPerPulse,        \* roubles per pulse of the coin acceptor
  BankPerPulse,        \* roubles per pulse of the bank terminal
  Nominals,            \* denominations of the bills the validator accepts
  ButtonStart,         \* tokens are given on the button (HopperButtonStart)
  Cube,                \* hopper regime: TRUE is Cube, FALSE is Elolution
  SaveCredit,          \* the credit expires (HopperSaveCredit > 0)
  IgnoreHopperErrors,  \* DisableHopperErrors
  QueueLen,            \* USER_QUERY_LEN
  Faults,              \* the disturbances the environment may cause
  MaxPending,          \* bound: copies of one outside event queued at a time
  MaxMoney,            \* bound: money put into the machine
  MaxLosses            \* bound: losses of power

Sources == {"coin", "bank", "bill"}

Lines == {"money", "bank", "rest"}

Counters == {"coin", "cash", "allcash", "bank", "coinout", "money"}

ErrorFlags == {"fiscal", "validator", "hopper", "nomoney"}

Disturbances == ErrorFlags \cup {"motor", "index"}

Events == {"SEC", "COIN_INSERTED", "BANK_INSERTED", "BILL_STACKED",
           "KEY_USER_START", "GIVE_COIN", "PRINT_CHECK", "HOPPER_EXTRACTED",
           "ERROR_HOPPER_ON", "ERROR_HOPPER_OFF",
           "NOMONEY_HOPPER_ON", "NOMONEY_HOPPER_OFF"}

ASSUME ConfigAssumption ==
  /\ HopperCost \in Nat \ {0}
  /\ CoinPerPulse \in Nat \ {0}
  /\ BankPerPulse \in Nat \ {0}
  /\ Nominals \subseteq Nat \ {0}
  /\ ButtonStart \in BOOLEAN /\ Cube \in BOOLEAN
  /\ SaveCredit \in BOOLEAN /\ IgnoreHopperErrors \in BOOLEAN
  /\ QueueLen \in Nat \ {0}
  /\ Faults \subseteq Disturbances

ASSUME BoundAssumption ==
  MaxPending \in Nat /\ MaxMoney \in Nat /\ MaxLosses \in Nat

VARIABLES
  queue,              \* UserQuery
  pc,                 \* where UserAppTask is: waiting, pulsing or running out
  left,               \* tokens the pulse loop still has to give
  CountCoin,          \* tokens of the payout under way
  hopperOn,           \* Cube: the motor is on
  MoneyIn, led_on, press_button, was_critical_error,
  accept,             \* which money sources are enabled
  pend,               \* money counted by the drivers, not yet fetched
  HopperImpCounter,   \* pulses counted from the hopper, not yet fetched
  event_nomoney_hopper,
  settling,           \* hopper lines reported since the last clock tick
  errors,             \* GlobalErrorsFlags, the flags TstCriticalErrors tests
  credit,             \* FRAM: accepted money by kind
  AcceptedCoin,       \* FRAM: tokens of the payout already seen leaving
  ctr,                \* FRAM: counters of the journal
  credit_expired,     \* more than HopperSaveCredit minutes since the last money
  motor_expired,      \* more than HopperStopEngine seconds since the last token
  tokens,             \* history: tokens that left the hopper
  given,              \* history: those of the payout under way
  forgiven,           \* history: accepted money wiped out by a timeout
  unsettled,          \* history: price of tokens given whose check was lost
  losses              \* history: losses of power

serverVars == <<pc, left, CountCoin, hopperOn>>
flagVars == <<MoneyIn, led_on, press_button, was_critical_error>>
inputVars == <<pend, HopperImpCounter, event_nomoney_hopper, settling>>
framVars == <<credit, AcceptedCoin, ctr>>
timerVars == <<credit_expired, motor_expired>>
historyVars == <<tokens, given, forgiven, unsettled, losses>>
vars == <<queue, serverVars, flagVars, accept, inputVars, errors, framVars,
          timerVars, historyVars>>

-----------------------------------------------------------------------------

(* OSQPost into a full queue fails and PostUserEvent ignores the failure.  *)
Post(q, e) == IF Len(q) < QueueLen THEN Append(q, e) ELSE q

Handling(e) == pc = "wait" /\ queue # <<>> /\ Head(queue) = e

Total(c) == c["money"] + c["bank"] + c["rest"]

(* What a payout leaves of the credit for the next one.                    *)
RestRoundedUp(c) == Total(c) - HopperCost * (Total(c) \div HopperCost + 1)
Rest(c) == Total(c) % HopperCost

(* The money of this customer is settled; the rest stays.                  *)
SettledCoinsOnly(c) == [c EXCEPT !["money"] = 0]
Settled(c) == [c EXCEPT !["money"] = 0, !["bank"] = 0]

PriceMetLess == Total(credit) >= HopperCost - 1
PriceMet == Total(credit) >= HopperCost

MayGive == led_on /\ ~press_button

MotorTimeoutCounted == hopperOn /\ motor_expired /\ AcceptedCoin > 0
MotorTimeout == hopperOn /\ motor_expired

ValidatorConnected == "validator" \notin errors

TstCriticalErrors ==
  errors \ (IF IgnoreHopperErrors THEN {"hopper", "nomoney"} ELSE {}) # {}

(* CC_CmdBillType is sent only to a validator that is connected.           *)
OpenedBills == [accept EXCEPT !["bill"] = @ \/ ValidatorConnected]
Opened == [s \in Sources |-> IF s = "bill" /\ ~ValidatorConnected
                             THEN accept[s] ELSE TRUE]
Closed == [s \in Sources |-> IF s = "bill" /\ ~ValidatorConnected
                             THEN accept[s] ELSE FALSE]

Init ==
  /\ queue = <<>>
  /\ pc = "wait" /\ left = 0 /\ CountCoin = 0
  /\ hopperOn = FALSE
  /\ MoneyIn = FALSE /\ led_on = FALSE /\ press_button = FALSE
  /\ was_critical_error = FALSE
  /\ accept = [s \in Sources |-> TRUE]
  /\ pend = [s \in Sources |-> 0]
  /\ HopperImpCounter = 0 /\ event_nomoney_hopper = FALSE /\ settling = {}
  /\ errors = {}
  /\ credit_expired = FALSE /\ motor_expired = FALSE
  /\ given = 0
  /\ credit = [l \in Lines |-> 0]
  /\ AcceptedCoin = 0
  /\ ctr = [c \in Counters |-> 0]
  /\ tokens = 0 /\ forgiven = 0 /\ unsettled = 0 /\ losses = 0

-----------------------------------------------------------------------------
(* The handlers of UserAppTask.                                            *)

(* EVENT_SEC with a critical error: the first one closes the machine and    *)
(* gives tokens for the money that was put in before.                      *)
SecCritical ==
  /\ Handling("SEC")
  /\ TstCriticalErrors
  /\ \/ /\ was_critical_error
        /\ queue' = Tail(queue)
        /\ UNCHANGED <<MoneyIn, was_critical_error, accept>>
     \/ /\ ~was_critical_error
        /\ queue' = IF MoneyIn THEN Post(Tail(queue), "GIVE_COIN") ELSE Tail(queue)
        /\ MoneyIn' = FALSE
        /\ accept' = Closed
        /\ was_critical_error' = TRUE
  /\ UNCHANGED <<serverVars, led_on, press_button, inputVars, errors,
                 framVars, timerVars, historyVars>>

(* EVENT_SEC after the errors are gone: money is taken again.              *)
SecRecovered ==
  /\ Handling("SEC")
  /\ ~TstCriticalErrors /\ was_critical_error
  /\ queue' = Tail(queue)
  /\ accept' = Opened
  /\ was_critical_error' = FALSE
  /\ UNCHANGED <<serverVars, MoneyIn, led_on, press_button, inputVars, errors,
                 framVars, timerVars, historyVars>>

(* EVENT_SEC in normal work: the button's LED, the timeout of the credit    *)
(* and the timeout of the hopper's motor.                                   *)
SecWork ==
  /\ Handling("SEC")
  /\ ~TstCriticalErrors /\ ~was_critical_error
  /\ queue' = Tail(queue)
  /\ led_on' = PriceMet
  /\ LET expire == Total(credit) > 0 /\ SaveCredit /\ credit_expired
         stop == MotorTimeout
     IN /\ MoneyIn' = (MoneyIn /\ ~expire)
        /\ hopperOn' = (hopperOn /\ ~stop)
        /\ credit' = IF expire THEN [l \in Lines |-> 0]
                     ELSE IF stop THEN Settled(credit)
                     ELSE credit
        /\ forgiven' = IF expire \/ stop
                       THEN forgiven + credit["money"] + credit["bank"]
                       ELSE forgiven
  /\ UNCHANGED <<pc, left, CountCoin, press_button,
                 was_critical_error, accept, inputVars, errors, AcceptedCoin,
                 ctr, timerVars, tokens, given, unsettled, losses>>

(* Money m fetched from source s goes to its line of the credit and to its  *)
(* counters; without a button the handler that completes the price of a     *)
(* token asks for the payout.                                               *)
CreditMoney(s, m, line, counters) ==
  /\ pend' = [pend EXCEPT ![s] = 0]
  /\ credit' = [credit EXCEPT ![line] = @ + m]
  /\ ctr' = [c \in Counters |-> IF c \in counters THEN ctr[c] + m ELSE ctr[c]]
  /\ credit_expired' = FALSE
  /\ IF ~ButtonStart /\ Total(credit) + m >= HopperCost
     THEN /\ queue' = Post(Tail(queue), "GIVE_COIN")
          /\ MoneyIn' = FALSE
     ELSE /\ queue' = Tail(queue)
          /\ MoneyIn' = TRUE
  /\ UNCHANGED <<serverVars, led_on, press_button, was_critical_error,
                 HopperImpCounter, event_nomoney_hopper, settling, errors,
                 AcceptedCoin,
                 motor_expired, historyVars>>

(* EVENT_COIN_INSERTED and EVENT_BANK_INSERTED: the source that completed   *)
(* the price is closed.                                                     *)
MoneyByPulses(s, perPulse, line, counters) ==
  LET m == perPulse * pend[s]
  IN \/ /\ m = 0
        /\ queue' = Tail(queue)
        /\ UNCHANGED <<serverVars, flagVars, accept, inputVars, errors,
                       framVars, timerVars, historyVars>>
     \/ /\ m # 0
        /\ CreditMoney(s, m, line, counters)
        /\ accept' = [accept EXCEPT ![s] =
                        @ /\ (ButtonStart \/ Total(credit) + m < HopperCost)]

CoinInserted ==
  /\ Handling("COIN_INSERTED")
  /\ MoneyByPulses("coin", CoinPerPulse, "money", {"coin", "allcash"})

BankInserted ==
  /\ Handling("BANK_INSERTED")
  /\ MoneyByPulses("bank", BankPerPulse, "bank", {"bank"})

(* EVENT_BILL_STACKED: the validator was closed when the bill was packed;   *)
(* it is opened again unless this bill starts a payout.                     *)
BillStacked ==
  /\ Handling("BILL_STACKED")
  /\ CreditMoney("bill", pend["bill"], "money", {"cash", "allcash"})
  /\ accept' = [accept EXCEPT !["bill"] =
        @ \/ /\ ValidatorConnected
             /\ ButtonStart \/ Total(credit) + pend["bill"] < HopperCost]

(* EVENT_KEY_USER_START                                                    *)
KeyUserStart ==
  /\ Handling("KEY_USER_START")
  /\ queue' = IF MayGive THEN Post(Tail(queue), "GIVE_COIN")
                                         ELSE Tail(queue)
  /\ press_button' = (press_button \/ led_on)
  /\ UNCHANGED <<serverVars, MoneyIn, led_on, was_critical_error, accept,
                 inputVars, errors, framVars, timerVars, historyVars>>

(* EVENT_GIVE_COIN without the price of a token does nothing.              *)
GiveCoinRefused ==
  /\ Handling("GIVE_COIN")
  /\ ~PriceMet
  /\ queue' = Tail(queue)
  /\ UNCHANGED <<serverVars, flagVars, accept, inputVars, errors, framVars,
                 timerVars, historyVars>>

(* EVENT_GIVE_COIN: the machine is closed and the payout is started, by     *)
(* pulses or by the motor.                                                  *)
GiveCoin ==
  /\ Handling("GIVE_COIN")
  /\ PriceMet
  /\ queue' = Tail(queue)
  /\ accept' = Closed
  /\ CountCoin' = Total(credit) \div HopperCost
  /\ given' = 0
  /\ IF Cube
     THEN /\ hopperOn' = TRUE /\ motor_expired' = FALSE
          /\ UNCHANGED <<pc, left>>
     ELSE /\ pc' = "pulse" /\ left' = Total(credit) \div HopperCost
          /\ UNCHANGED <<hopperOn, motor_expired>>
  /\ UNCHANGED <<flagVars, inputVars, errors, framVars, credit_expired,
                 tokens, forgiven, unsettled, losses>>

(* One turn of the pulse loop.                                             *)
PulseToken ==
  /\ pc = "pulse" /\ left > 0 /\ ~event_nomoney_hopper
  /\ left' = left - 1
  /\ tokens' = tokens + 1 /\ given' = given + 1
  /\ UNCHANGED <<queue, pc, CountCoin, hopperOn, flagVars,
                 accept, inputVars, errors, framVars, timerVars, forgiven,
                 unsettled, losses>>

(* The end of the payout, common to both regimes: the tokens are counted,   *)
(* the check is asked for and the rest of the money is kept.  If the queue  *)
(* is full the check is lost, and the money just paid out stays accepted.   *)
CountedOne(c) == [c EXCEPT !["coinout"] = @ + 1]
CountedOut(c) == [c EXCEPT !["coinout"] = @ + CountCoin]

AskCheckIfGiven(q) == IF given > 0 THEN Post(q, "PRINT_CHECK") ELSE q
AskCheck(q) == Post(q, "PRINT_CHECK")

CheckPending == pc = "pulse" \/ \E i \in 1..Len(queue) : queue[i] = "PRINT_CHECK"

EndPayout(q) ==
  /\ unsettled' = IF Len(q) < QueueLen THEN unsettled
                  ELSE unsettled + credit["money"] + credit["bank"]
  /\ ctr' = CountedOut(ctr)
  /\ CountCoin' = 0
  /\ queue' = AskCheck(q)
  /\ credit' = [credit EXCEPT !["rest"] = Rest(credit)]
  /\ pc' = "wait"

(* The end of the pulse loop: all tokens given, or the hopper ran empty.   *)
PulseEnd ==
  /\ pc = "pulse"
  /\ left = 0 \/ event_nomoney_hopper
  /\ event_nomoney_hopper' = (event_nomoney_hopper /\ left = 0)
  /\ left' = 0
  /\ EndPayout(queue)
  /\ UNCHANGED <<hopperOn, flagVars, accept, pend,
                 HopperImpCounter, settling, errors, AcceptedCoin, timerVars,
                 tokens, given, forgiven, losses>>

(* EVENT_HOPPER_EXTRACTED: the pulses are added up.  The payout goes on ... *)
ExtractedMore ==
  /\ Handling("HOPPER_EXTRACTED") /\ Cube
  /\ HopperImpCounter + AcceptedCoin < CountCoin
  /\ queue' = Tail(queue)
  /\ HopperImpCounter' = 0
  /\ AcceptedCoin' = HopperImpCounter + AcceptedCoin
  /\ motor_expired' = FALSE
  /\ UNCHANGED <<serverVars, flagVars, accept, pend, event_nomoney_hopper, settling,
                 errors, credit, ctr, credit_expired, historyVars>>

(* ... or enough tokens left: the motor runs out for HopperPauseEngineOff.  *)
ExtractedAll ==
  /\ Handling("HOPPER_EXTRACTED") /\ Cube
  /\ HopperImpCounter + AcceptedCoin >= CountCoin
  /\ queue' = Tail(queue)
  /\ HopperImpCounter' = 0
  /\ pc' = "runout"
  /\ UNCHANGED <<left, CountCoin, hopperOn, flagVars, accept,
                 pend, event_nomoney_hopper, settling, errors, framVars, timerVars,
                 historyVars>>

(* The pause is over: the motor is stopped and the payout ends.            *)
StopHopper ==
  /\ pc = "runout"
  /\ hopperOn' = FALSE
  /\ AcceptedCoin' = 0
  /\ EndPayout(queue)
  /\ UNCHANGED <<left, flagVars, accept, inputVars, errors,
                 timerVars, tokens, given, forgiven, losses>>

(* EVENT_PRINT_CHECK: what was accepted is counted as paid for (IncCounter  *)
(* for each line) and cleared; without an error the machine opens again.    *)
PrintCheck ==
  /\ Handling("PRINT_CHECK")
  /\ queue' = Tail(queue)
  /\ ctr' = [ctr EXCEPT !["money"] = @ + credit["money"] + credit["bank"]]
  /\ credit' = Settled(credit)
  /\ \/ /\ TstCriticalErrors
        /\ led_on' = FALSE /\ press_button' = FALSE
        /\ UNCHANGED <<MoneyIn, accept>>
     \/ /\ ~TstCriticalErrors
        /\ LET paid == credit["money"] + credit["bank"] > 0
           IN led_on' = (led_on /\ ~paid) /\ press_button' = (press_button /\ ~paid)
        /\ MoneyIn' = FALSE
        /\ accept' = Opened
  /\ UNCHANGED <<serverVars, was_critical_error, inputVars, errors,
                 AcceptedCoin, timerVars, historyVars>>

(* The four events of the hopper's sensors; Cube has no error sensor.      *)
HopperErrorEvent(e, after) ==
  /\ Handling(e)
  /\ queue' = Tail(queue)
  /\ errors' = after
  /\ UNCHANGED <<serverVars, flagVars, accept, inputVars, framVars, timerVars,
                 historyVars>>

ErrorHopperOn ==
  HopperErrorEvent("ERROR_HOPPER_ON",
                   IF IgnoreHopperErrors \/ Cube THEN errors \ {"hopper"}
                                                 ELSE errors \cup {"hopper"})

ErrorHopperOff == HopperErrorEvent("ERROR_HOPPER_OFF", errors \ {"hopper"})

NomoneyHopperOn ==
  HopperErrorEvent("NOMONEY_HOPPER_ON",
                   IF IgnoreHopperErrors THEN errors \ {"nomoney"}
                                         ELSE errors \cup {"nomoney"})

NomoneyHopperOff == HopperErrorEvent("NOMONEY_HOPPER_OFF", errors \ {"nomoney"})

UserAppTask ==
  \/ SecCritical \/ SecRecovered \/ SecWork
  \/ CoinInserted \/ BankInserted \/ BillStacked
  \/ KeyUserStart
  \/ GiveCoinRefused \/ GiveCoin \/ PulseToken \/ PulseEnd
  \/ ExtractedMore \/ ExtractedAll \/ StopHopper
  \/ PrintCheck
  \/ ErrorHopperOn \/ ErrorHopperOff \/ NomoneyHopperOn \/ NomoneyHopperOff

-----------------------------------------------------------------------------
(* The other tasks, the interrupts and the hardware.                       *)

Pending(e) == Cardinality({i \in 1..Len(queue) : queue[i] = e})

(* PostUserEvent of a task other than the server's own.  The code has no    *)
(* bound like MaxPending: the queue fills where QueueLen is small.          *)
PostEvent(e) == Pending(e) < MaxPending /\ queue' = Post(queue, e)

Inserted == ctr["allcash"] + ctr["bank"] + CoinPerPulse * pend["coin"]
              + BankPerPulse * pend["bank"] + pend["bill"]

(* The real-time clock's interrupt.                                        *)
ClockTick ==
  /\ PostEvent("SEC")
  /\ settling' = {}
  /\ UNCHANGED <<serverVars, flagVars, accept, pend, HopperImpCounter,
                 event_nomoney_hopper, errors, framVars, timerVars, historyVars>>

(* CoinTask counts a pulse of an enabled source ...                        *)
CountPulse(s, perPulse) ==
  /\ accept[s]
  /\ Inserted + perPulse <= MaxMoney
  /\ pend' = [pend EXCEPT ![s] = @ + 1]
  /\ UNCHANGED <<queue, serverVars, flagVars, accept, HopperImpCounter,
                 event_nomoney_hopper, settling, errors, framVars, timerVars, historyVars>>

(* ... and reports counted pulses on every turn after 500 ms of silence.   *)
ReportPulses(s, e) ==
  /\ accept[s] /\ pend[s] > 0
  /\ PostEvent(e)
  /\ UNCHANGED <<serverVars, flagVars, accept, inputVars, errors, framVars,
                 timerVars, historyVars>>

(* ValidatorTask finds a bill in the stacker: it closes the validator,      *)
(* counts the bill and reports it.  An index outside the bill table drops   *)
(* what was counted and not fetched yet, and is reported all the same.      *)
BillPacked(v) ==
  /\ ValidatorConnected
  /\ PostEvent("BILL_STACKED")
  /\ \/ /\ Inserted + v <= MaxMoney
        /\ pend' = [pend EXCEPT !["bill"] = @ + v]
     \/ /\ "index" \in Faults
        /\ pend' = [pend EXCEPT !["bill"] = 0]
  /\ accept' = [accept EXCEPT !["bill"] = FALSE]
  /\ UNCHANGED <<serverVars, flagVars, HopperImpCounter, event_nomoney_hopper,
                 settling, errors, framVars, timerVars, historyVars>>

(* The keyboard task reports the customer's button.                        *)
PressButton ==
  /\ PostEvent("KEY_USER_START")
  /\ UNCHANGED <<serverVars, flagVars, accept, inputVars, errors, framVars,
                 timerVars, historyVars>>

(* Cube: the running motor throws a token out and CoinTask reports it.     *)
HopperPulse ==
  /\ hopperOn
  /\ PostEvent("HOPPER_EXTRACTED")
  /\ HopperImpCounter' = HopperImpCounter + 1
  /\ tokens' = tokens + 1 /\ given' = given + 1
  /\ UNCHANGED <<serverVars, flagVars, accept, pend, event_nomoney_hopper, settling,
                 errors, framVars, timerVars, forgiven, unsettled, losses>>

(* Time passes: a minute only while the server waits with nothing to do,    *)
(* a second without a token whenever the hopper is stuck.                   *)
CreditTimer ==
  /\ SaveCredit /\ ~credit_expired
  /\ pc = "wait" /\ queue = <<>> /\ Total(credit) > 0
  /\ credit_expired' = TRUE
  /\ UNCHANGED <<queue, serverVars, flagVars, accept, inputVars, errors,
                 framVars, motor_expired, historyVars>>

MotorTimer ==
  /\ "motor" \in Faults /\ hopperOn /\ ~motor_expired
  /\ motor_expired' = TRUE
  /\ UNCHANGED <<queue, serverVars, flagVars, accept, inputVars, errors,
                 framVars, credit_expired, historyVars>>

(* CoinTask reports a change of the hopper's error line (not in Cube) or of *)
(* its level line once the line has been still for more than a second.  For *)
(* the level line it also leaves word for the pulse loop.                   *)
HopperErrorSignal(e) ==
  /\ "hopper" \in Faults /\ ~Cube /\ "hopper" \notin settling
  /\ PostEvent(e)
  /\ settling' = settling \cup {"hopper"}
  /\ UNCHANGED <<serverVars, flagVars, accept, pend, HopperImpCounter,
                 event_nomoney_hopper, errors, framVars, timerVars, historyVars>>

NomoneySignal(e) ==
  /\ "nomoney" \in Faults /\ "nomoney" \notin settling
  /\ PostEvent(e)
  /\ settling' = settling \cup {"nomoney"}
  /\ event_nomoney_hopper' = (e = "NOMONEY_HOPPER_ON")
  /\ UNCHANGED <<serverVars, flagVars, accept, pend, HopperImpCounter, errors,
                 framVars, timerVars, historyVars>>

(* The fiscal register and the validator fail and come back; a validator    *)
(* that is connected anew is closed (ValidatorConnect).                     *)
DeviceLost(d) ==
  /\ d \in Faults /\ d \notin errors
  /\ errors' = errors \cup {d}
  /\ UNCHANGED <<queue, serverVars, flagVars, accept, inputVars, framVars,
                 timerVars, historyVars>>

DeviceFound(d) ==
  /\ d \in errors
  /\ errors' = errors \ {d}
  /\ accept' = IF d = "validator" THEN [accept EXCEPT !["bill"] = FALSE]
                                  ELSE accept
  /\ UNCHANGED <<queue, serverVars, flagVars, inputVars, framVars, timerVars,
                 historyVars>>

(* Power is lost between two steps and comes back: UserStartupFunc finds    *)
(* the accepted money in FRAM, everything else starts anew.  The money of   *)
(* the tokens just given is still there if their check was not handled.     *)
PowerLoss ==
  /\ losses < MaxLosses
  /\ losses' = losses + 1
  /\ unsettled' = unsettled + (IF pc = "pulse" THEN given * HopperCost
                               ELSE IF CheckPending THEN credit["money"] + credit["bank"]
                               ELSE 0)
  /\ queue' = <<>>
  /\ pc' = "wait" /\ left' = 0 /\ CountCoin' = 0
  /\ hopperOn' = FALSE
  /\ MoneyIn' = FALSE /\ led_on' = FALSE /\ press_button' = FALSE
  /\ was_critical_error' = FALSE
  /\ accept' = [s \in Sources |-> TRUE]
  /\ pend' = [s \in Sources |-> 0]
  /\ HopperImpCounter' = 0 /\ event_nomoney_hopper' = FALSE /\ settling' = {}
  /\ errors' = {}
  /\ credit_expired' = FALSE /\ motor_expired' = FALSE
  /\ given' = 0
  /\ UNCHANGED <<framVars, tokens, forgiven>>

Environment ==
  \/ ClockTick \/ PressButton
  \/ CountPulse("coin", CoinPerPulse) \/ CountPulse("bank", BankPerPulse)
  \/ ReportPulses("coin", "COIN_INSERTED") \/ ReportPulses("bank", "BANK_INSERTED")
  \/ \E v \in Nominals : BillPacked(v)
  \/ HopperPulse
  \/ CreditTimer \/ MotorTimer
  \/ \E e \in {"ERROR_HOPPER_ON", "ERROR_HOPPER_OFF"} : HopperErrorSignal(e)
  \/ \E e \in {"NOMONEY_HOPPER_ON", "NOMONEY_HOPPER_OFF"} : NomoneySignal(e)
  \/ \E d \in {"fiscal", "validator"} : DeviceLost(d) \/ DeviceFound(d)
  \/ PowerLoss

Next == UserAppTask \/ Environment

Spec == Init /\ [][Next]_vars

(* UserAppTask has a higher priority than every task that posts to it but   *)
(* the validator's and runs whenever it has something to do; the clock      *)
(* interrupts every second.                                                 *)
Fairness == WF_vars(UserAppTask) /\ WF_vars(ClockTick)

(* The hopper works: a running motor keeps throwing tokens out.            *)
FairSpec == Spec /\ Fairness /\ WF_vars(HopperPulse)

(* The hopper may be stuck; then time passes without a token.              *)
StuckSpec == Spec /\ Fairness /\ WF_vars(MotorTimer)

-----------------------------------------------------------------------------

TypeOK ==
  /\ queue \in Seq(Events) /\ Len(queue) <= QueueLen
  /\ pc \in {"wait", "pulse", "runout"}
  /\ left \in Nat /\ CountCoin \in Nat
  /\ hopperOn \in BOOLEAN /\ MoneyIn \in BOOLEAN /\ led_on \in BOOLEAN
  /\ press_button \in BOOLEAN /\ was_critical_error \in BOOLEAN
  /\ accept \in [Sources -> BOOLEAN]
  /\ pend \in [Sources -> Nat]
  /\ HopperImpCounter \in Nat /\ event_nomoney_hopper \in BOOLEAN
  /\ settling \subseteq {"hopper", "nomoney"}
  /\ errors \subseteq ErrorFlags
  /\ credit \in [Lines -> Nat]
  /\ AcceptedCoin \in Nat
  /\ ctr \in [Counters -> Nat]
  /\ credit_expired \in BOOLEAN /\ motor_expired \in BOOLEAN
  /\ tokens \in Nat /\ given \in Nat /\ forgiven \in Nat
  /\ unsettled \in Nat /\ losses \in Nat

(* The books balance: every rouble the income counters know of (coins and   *)
(* bills in CounterAllCash, cards in CounterBank) is still accepted money,  *)
(* or was counted as paid for in CounterMoney, or was given up by one of    *)
(* the two timeouts of EVENT_SEC, whatever fails and wherever power is lost *)
(* between two handlers.                                                    *)
MoneyLedger ==
  ctr["allcash"] + ctr["bank"] = credit["money"] + credit["bank"] + ctr["money"] + forgiven

(* The motor of the Cube hopper runs only towards a payout that has a       *)
(* number of tokens to stop at.                                             *)
MotorHasGoal == hopperOn => CountCoin > 0

(* The counter of tokens given out does not fall behind the tokens that     *)
(* left the Elolution hopper, the payout under way included, as long as     *)
(* power is not lost.                                                      *)
CoinOutCoversTokens ==
  ~Cube /\ losses = 0 => tokens + left <= ctr["coinout"] + CountCoin

(* Tokens that left the hopper, those the pulse loop still owes, the rest   *)
(* kept for the customer and the money still to be spent never exceed the   *)
(* money taken in, but for the payouts whose check was lost: in a full      *)
(* queue (PostUserEvent) or with the power.  Only these are paid twice.     *)
TokensPaidFor ==
  LET rest == IF pc = "pulse" THEN Rest(credit) ELSE credit["rest"]
      open == IF CheckPending THEN 0 ELSE credit["money"] + credit["bank"]
  IN (tokens + left) * HopperCost + rest + open
       <= ctr["allcash"] + ctr["bank"] + unsettled

(* The event server implements Bookkeeping: the counters of income, the     *)
(* accepted money in FRAM, CounterMoney and the timeouts.  Money is settled *)
(* as a whole, by EVENT_PRINT_CHECK or by a timeout of EVENT_SEC, and no    *)
(* step does two of these things.                                          *)
Books == INSTANCE Bookkeeping WITH
  income <- ctr["allcash"] + ctr["bank"],
  waiting <- credit["money"] + credit["bank"],
  paid <- ctr["money"]

BooksKept == Books!Spec

(* Line 690 of app_serv.c: tokens are given "only if there is enough money  *)
(* to pay a token out" - the tokens that left the hopper never cost more    *)
(* than the money that was taken in.                                       *)
TokensOnlyForMoney == tokens * HopperCost <= ctr["allcash"] + ctr["bank"]

(* The motor timeout of EVENT_SEC (line 294) stops a motor that throws no   *)
(* tokens, as long as no critical error keeps EVENT_SEC from its work.      *)
StuckMotorStops == hopperOn /\ motor_expired ~> ~hopperOn \/ TstCriticalErrors

(* A press of the lit button ends with the payout's check, which arms the   *)
(* button again.                                                            *)
PressServed == press_button ~> ~press_button

(* A machine closed for a payout or for an error takes money again, or an   *)
(* error is up.                                                            *)
MoneyTakenAgain == ~accept["coin"] ~> accept["coin"] \/ TstCriticalErrors

=============================================================================
