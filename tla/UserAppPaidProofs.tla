------------------------ MODULE UserAppPaidProofs ------------------------
(***************************************************************************)
(* Tokens are paid for: TokensPaidFor of the event server, for every price, *)
(* bill and pulse value, in the machine that gives tokens on the button.    *)
(*                                                                         *)
(* The proof needs two things of the configuration, and each of them is     *)
(* needed: without a button two sources start two payouts, and a critical   *)
(* error asks for a second one.  Nothing is assumed of the queue, which may *)
(* lose any event, nor of the losses of power.                             *)
(***************************************************************************)
EXTENDS UserAppProofs

ButtonMode == ButtonStart /\ ~Cube

NoCriticalErrors ==
  /\ Faults \cap {"fiscal", "validator"} = {}
  /\ IgnoreHopperErrors \/ Faults \cap {"hopper", "nomoney"} = {}

OwnEvents == {"GIVE_COIN", "PRINT_CHECK"}
OutsideEvents == Events \ OwnEvents

(* The sensors' reports that raise an error, if it is not ignored.          *)
OnEvents == {"ERROR_HOPPER_ON", "NOMONEY_HOPPER_ON"}

(* No critical error comes up.                                             *)
CalmInv ==
  /\ errors = {} /\ was_critical_error = FALSE
  /\ ~IgnoreHopperErrors =>
       \A i \in 1..Len(queue) : queue[i] \notin OnEvents

(* A payout is asked for, under way or waits for its check: one of the      *)
(* three, once, and only while the button is not armed.                     *)
OwnAt(i) == queue[i] \in OwnEvents

TurnInv ==
  /\ \A i, j \in 1..Len(queue) : OwnAt(i) /\ OwnAt(j) => i = j
  /\ pc = "pulse" => \A i \in 1..Len(queue) : ~OwnAt(i)
  /\ pc = "pulse" \/ (\E i \in 1..Len(queue) : OwnAt(i)) => press_button

QueueInv == CalmInv /\ TurnInv

-----------------------------------------------------------------------------
(* What each step does to the queue, to the place of the server and to the  *)
(* button.                                                                 *)
Config == ButtonMode /\ NoCriticalErrors

Stays == pc' = pc /\ press_button' = press_button

KeepsQueue ==
  queue' = queue /\ Stays

TakesOutside ==
  /\ queue # <<>> /\ Head(queue) \in OutsideEvents
  /\ queue' = Tail(queue) /\ pc = "wait" /\ Stays

TakesGiveCoin ==
  /\ Handling("GIVE_COIN")
  /\ queue' = Tail(queue) /\ pc' \in {"wait", "pulse"} /\ press_button' = press_button

TakesCheck ==
  /\ Handling("PRINT_CHECK")
  /\ queue' = Tail(queue) /\ pc' = "wait"

AsksPayout ==
  /\ Handling("KEY_USER_START") /\ ~press_button
  /\ queue' = Post(Tail(queue), "GIVE_COIN") /\ pc' = "wait" /\ press_button' = TRUE

AsksCheck ==
  /\ pc = "pulse" /\ pc' = "wait" /\ press_button' = press_button
  /\ queue' = Post(queue, "PRINT_CHECK")

TakesReport ==
  /\ Stays
  /\ \E e \in OutsideEvents : PostEvent(e) /\ (e \in OnEvents => IgnoreHopperErrors)

StartsAnew == queue' = <<>> /\ pc' = "wait"

LEMMA CalmMeansNoError ==
  ASSUME CalmInv
  PROVE  ~TstCriticalErrors
  BY DEF CalmInv, TstCriticalErrors

LEMMA StepShape ==
  ASSUME Config, TypeOK, PayoutInv, CalmInv, [Next]_vars
  PROVE  \/ KeepsQueue \/ TakesOutside \/ TakesGiveCoin \/ TakesCheck
         \/ AsksPayout \/ AsksCheck \/ TakesReport \/ StartsAnew
<1>1. /\ ButtonStart /\ ~Cube /\ ~TstCriticalErrors /\ pc # "runout" /\ ~hopperOn
      /\ press_button \in BOOLEAN /\ led_on \in BOOLEAN
  BY CalmMeansNoError DEF Config, ButtonMode, PayoutInv, RegimeInv, TypeOK
<1>2. {"SEC", "COIN_INSERTED", "BANK_INSERTED", "BILL_STACKED", "KEY_USER_START",
       "HOPPER_EXTRACTED", "ERROR_HOPPER_ON", "ERROR_HOPPER_OFF",
       "NOMONEY_HOPPER_ON", "NOMONEY_HOPPER_OFF"} \subseteq OutsideEvents
  BY DEF OutsideEvents, OwnEvents, Events
<1> USE DEF serverVars, flagVars
<1>3. CASE SecCritical \/ SecRecovered \/ SecWork
  BY <1>1, <1>2, <1>3 DEF SecCritical, SecRecovered, SecWork, Handling, TakesOutside, Stays
<1>4. CASE CoinInserted \/ BankInserted \/ BillStacked
  BY <1>1, <1>2, <1>4
  DEF CoinInserted, BankInserted, BillStacked, MoneyByPulses, CreditMoney, Handling,
      TakesOutside, Stays
<1>5. CASE KeyUserStart
  <2>1. /\ queue # <<>> /\ Head(queue) \in OutsideEvents /\ pc = "wait" /\ pc' = pc
        /\ Handling("KEY_USER_START")
    BY <1>2, <1>5 DEF KeyUserStart, Handling
  <2>2. CASE MayGive
    BY <1>1, <1>5, <2>1, <2>2 DEF KeyUserStart, MayGive, AsksPayout
  <2>3. CASE ~MayGive
    <3>1. queue' = Tail(queue) /\ press_button' = (press_button \/ led_on)
      BY <1>5, <2>3 DEF KeyUserStart
    <3>2. press_button' = press_button
      BY <1>1, <2>3, <3>1 DEF MayGive
    <3>3. QED
      BY <2>1, <3>1, <3>2 DEF TakesOutside, Stays
  <2>4. QED
    BY <2>2, <2>3
<1>6. CASE GiveCoinRefused \/ GiveCoin
  BY <1>1, <1>6 DEF GiveCoinRefused, GiveCoin, Handling, TakesGiveCoin
<1>7. CASE PulseToken
  BY <1>7 DEF PulseToken, KeepsQueue, Stays
<1>8. CASE PulseEnd
  BY <1>8 DEF PulseEnd, EndPayout, AskCheck, AsksCheck
<1>9. CASE ExtractedMore \/ ExtractedAll \/ StopHopper \/ HopperPulse
  BY <1>1, <1>9 DEF ExtractedMore, ExtractedAll, StopHopper, HopperPulse
<1>10. CASE PrintCheck
  BY <1>10 DEF PrintCheck, Handling, TakesCheck
<1>11. CASE ErrorHopperOn \/ ErrorHopperOff \/ NomoneyHopperOn \/ NomoneyHopperOff
  BY <1>2, <1>11
  DEF ErrorHopperOn, ErrorHopperOff, NomoneyHopperOn, NomoneyHopperOff,
      HopperErrorEvent, Handling, TakesOutside, Stays
<1>12. CASE ClockTick \/ PressButton
  BY <1>2, <1>12 DEF ClockTick, PressButton, TakesReport, Stays, OnEvents
<1>13. CASE CountPulse("coin", CoinPerPulse) \/ CountPulse("bank", BankPerPulse)
            \/ CreditTimer \/ MotorTimer
            \/ \E d \in {"fiscal", "validator"} : DeviceLost(d) \/ DeviceFound(d)
  BY <1>13 DEF CountPulse, CreditTimer, MotorTimer, DeviceLost, DeviceFound, KeepsQueue, Stays
<1>14. CASE ReportPulses("coin", "COIN_INSERTED") \/ ReportPulses("bank", "BANK_INSERTED")
  BY <1>2, <1>14 DEF ReportPulses, TakesReport, Stays, OnEvents
<1>15. CASE \E v \in Nominals : BillPacked(v)
  BY <1>2, <1>15 DEF BillPacked, TakesReport, Stays, OnEvents
<1>16. CASE \/ \E e \in {"ERROR_HOPPER_ON", "ERROR_HOPPER_OFF"} : HopperErrorSignal(e)
            \/ \E e \in {"NOMONEY_HOPPER_ON", "NOMONEY_HOPPER_OFF"} : NomoneySignal(e)
  BY <1>2, <1>16
  DEF HopperErrorSignal, NomoneySignal, TakesReport, Stays, Config, NoCriticalErrors
<1>17. CASE PowerLoss
  BY <1>17 DEF PowerLoss, StartsAnew
<1>18. CASE UNCHANGED vars
  BY <1>18 DEF vars, KeepsQueue, Stays
<1>19. QED
  BY <1>3, <1>4, <1>5, <1>6, <1>7, <1>8, <1>9, <1>10, <1>11, <1>12, <1>13, <1>14,
     <1>15, <1>16, <1>17, <1>18
  DEF Next, UserAppTask, Environment

(* The first event leaves; the others move up by one.                      *)
LEMMA TailAt ==
  ASSUME TypeOK, queue # <<>>, queue' = Tail(queue)
  PROVE  /\ queue[1] = Head(queue) /\ 1 \in 1..Len(queue)
         /\ \A i \in 1..Len(queue') : i + 1 \in 1..Len(queue) /\ queue'[i] = queue[i + 1]
         /\ \A i \in 1..Len(queue) : i # 1 =>
               i - 1 \in 1..Len(queue') /\ queue'[i - 1] = queue[i]
<1>1. queue \in Seq(Events)
  BY DEF TypeOK
<1>2. QED
  BY <1>1

(* A post changes nothing before the place of the new event, and with room  *)
(* in the queue the event gets that place.                                 *)
LEMMA PostAt ==
  ASSUME NEW q \in Seq(Events), NEW x \in Events
  PROVE  /\ Len(Post(q, x)) \in {Len(q), Len(q) + 1}
         /\ \A i \in 1..Len(q) : Post(q, x)[i] = q[i]
         /\ \A i \in 1..Len(Post(q, x)) : 
               i \in 1..Len(q) \/ (i = Len(q) + 1 /\ Post(q, x)[i] = x)
         /\ Len(q) < QueueLen => /\ Len(q) + 1 \in 1..Len(Post(q, x))
                                 /\ Post(q, x)[Len(q) + 1] = x
<1> DEFINE A == Append(q, x)
<1>1. /\ Len(q) \in Nat
      /\ Len(A) = Len(q) + 1 /\ A[Len(q) + 1] = x
      /\ \A i \in 1..Len(q) : A[i] = q[i]
  OBVIOUS
<1>2. Post(q, x) = IF Len(q) < QueueLen THEN A ELSE q
  BY DEF Post
<1> HIDE DEF A
<1>3. CASE Len(q) < QueueLen
  <2>1. Post(q, x) = A
    BY <1>2, <1>3
  <2>2. \A i \in 1..Len(A) : i \in 1..Len(q) \/ (i = Len(q) + 1 /\ A[i] = x)
    BY <1>1
  <2>3. Len(q) + 1 \in 1..Len(A)
    BY <1>1
  <2>4. QED
    BY <1>1, <2>1, <2>2, <2>3
<1>4. CASE ~(Len(q) < QueueLen)
  <2>1. Post(q, x) = q
    BY <1>2, <1>4
  <2>2. QED
    BY <1>1, <1>4, <2>1
<1>5. QED
  BY <1>3, <1>4

(* No step asks for a payout or a check while another is outstanding.       *)
LEMMA TurnStep ==
  ASSUME Config, TypeOK, PayoutInv, QueueInv, [Next]_vars
  PROVE  TurnInv'
<1>1. /\ TurnInv /\ CalmInv /\ queue \in Seq(Events) /\ TypeOK
      /\ "GIVE_COIN" \in OwnEvents /\ "PRINT_CHECK" \in OwnEvents /\ OwnEvents \subseteq Events
  BY DEF QueueInv, TypeOK, OwnEvents, Events
<1>2. CASE KeepsQueue
  BY <1>1, <1>2 DEF KeepsQueue, Stays, TurnInv, OwnAt
<1>3. ASSUME queue # <<>>, queue' = Tail(queue)
      PROVE  /\ \A i \in 1..Len(queue') : OwnAt(i)' => i + 1 \in 1..Len(queue) /\ OwnAt(i + 1)
             /\ \A i, j \in 1..Len(queue') : OwnAt(i)' /\ OwnAt(j)' => i = j
             /\ OwnAt(1) => \A i \in 1..Len(queue') : ~OwnAt(i)'
  <2>1. /\ 1 \in 1..Len(queue)
        /\ \A i \in 1..Len(queue') : i + 1 \in 1..Len(queue) /\ queue'[i] = queue[i + 1]
    BY <1>1, <1>3, TailAt
  <2>2. \A i \in 1..Len(queue') : OwnAt(i)' => i + 1 \in 1..Len(queue) /\ OwnAt(i + 1)
    BY <2>1 DEF OwnAt
  <2>3. \A i, j \in 1..Len(queue) : OwnAt(i) /\ OwnAt(j) => i = j
    BY <1>1 DEF TurnInv
  <2>4. ASSUME NEW i \in 1..Len(queue'), NEW j \in 1..Len(queue'), OwnAt(i)', OwnAt(j)'
        PROVE  i = j
    <3>1. i + 1 = j + 1
      BY <2>2, <2>3, <2>4
    <3>2. QED
      BY <3>1
  <2>5. ASSUME OwnAt(1), NEW i \in 1..Len(queue'), OwnAt(i)'
        PROVE  FALSE
    <3>1. i + 1 = 1
      BY <2>1, <2>2, <2>3, <2>5
    <3>2. QED
      BY <3>1
  <2>6. QED
    BY <2>2, <2>4, <2>5
<1>4. CASE TakesOutside
  BY <1>1, <1>3, <1>4 DEF TakesOutside, Stays, TurnInv
<1>5. CASE TakesGiveCoin
  <2>1. queue # <<>> /\ queue' = Tail(queue) /\ OwnAt(1) /\ press_button' = press_button
    BY <1>1, <1>5, TailAt DEF TakesGiveCoin, Handling, OwnAt
  <2>2. press_button /\ 1 \in 1..Len(queue)
    BY <1>1, <2>1, TailAt DEF TurnInv
  <2>3. QED
    BY <1>3, <2>1, <2>2 DEF TurnInv
<1>6. CASE TakesCheck
  <2>1. queue # <<>> /\ queue' = Tail(queue) /\ OwnAt(1) /\ pc' = "wait"
    BY <1>1, <1>6, TailAt DEF TakesCheck, Handling, OwnAt
  <2>2. QED
    BY <1>3, <2>1 DEF TurnInv
<1>7. ASSUME NEW q \in Seq(Events), NEW x \in Events, queue' = Post(q, x),
             \A i \in 1..Len(q) : q[i] \notin OwnEvents
      PROVE  \A i, j \in 1..Len(queue') : OwnAt(i)' /\ OwnAt(j)' => i = j
  <2>1. \A i \in 1..Len(queue') : OwnAt(i)' => i = Len(q) + 1
    BY <1>7, PostAt DEF OwnAt
  <2>2. QED
    BY <2>1
<1>8. CASE AsksPayout
  <2>1. /\ queue # <<>> /\ Tail(queue) \in Seq(Events)
        /\ \A i \in 1..Len(queue) : ~OwnAt(i)
    BY <1>1, <1>8 DEF AsksPayout, Handling, TurnInv
  <2>2. \A i \in 1..Len(Tail(queue)) : Tail(queue)[i] \notin OwnEvents
    BY <1>1, <2>1 DEF OwnAt
  <2>3. \A i, j \in 1..Len(queue') : OwnAt(i)' /\ OwnAt(j)' => i = j
    BY <1>1, <1>7, <1>8, <2>1, <2>2 DEF AsksPayout
  <2>4. QED
    BY <1>8, <2>3 DEF AsksPayout, TurnInv
<1>9. CASE AsksCheck
  <2>1. \A i \in 1..Len(queue) : queue[i] \notin OwnEvents
    BY <1>1, <1>9 DEF AsksCheck, TurnInv, OwnAt
  <2>2. \A i, j \in 1..Len(queue') : OwnAt(i)' /\ OwnAt(j)' => i = j
    BY <1>1, <1>7, <1>9, <2>1 DEF AsksCheck
  <2>3. QED
    BY <1>1, <1>9, <2>2 DEF AsksCheck, TurnInv
<1>10. CASE TakesReport
  <2>1. PICK e \in OutsideEvents : queue' = Post(queue, e)
    BY <1>10 DEF TakesReport, PostEvent
  <2>2. e \in Events /\ e \notin OwnEvents
    BY <2>1 DEF OutsideEvents
  <2>3. \A i \in 1..Len(queue') : OwnAt(i)' => i \in 1..Len(queue) /\ OwnAt(i)
    BY <1>1, <2>1, <2>2, PostAt DEF OwnAt
  <2>4. QED
    BY <1>1, <1>10, <2>3 DEF TakesReport, Stays, TurnInv
<1>11. CASE StartsAnew
  BY <1>11 DEF StartsAnew, TurnInv
<1>12. QED
  BY <1>1, <1>2, <1>4, <1>5, <1>6, <1>8, <1>9, <1>10, <1>11, StepShape

(* No step raises a critical error: the two devices do not fail, and the    *)
(* sensors of the hopper are ignored or report nothing.                    *)
LEMMA CalmStep ==
  ASSUME Config, TypeOK, PayoutInv, QueueInv, [Next]_vars
  PROVE  CalmInv'
<1>1. /\ CalmInv /\ ~TstCriticalErrors /\ queue \in Seq(Events) /\ errors = {}
      /\ was_critical_error = FALSE
  BY CalmMeansNoError DEF QueueInv, CalmInv, TypeOK
<1>2. was_critical_error' = FALSE
  BY <1>1
  DEF Next, UserAppTask, Environment, flagVars, vars, SecCritical, SecRecovered, SecWork,
      CoinInserted, BankInserted, BillStacked, MoneyByPulses, CreditMoney, KeyUserStart,
      GiveCoinRefused, GiveCoin, PulseToken, PulseEnd, ExtractedMore, ExtractedAll,
      StopHopper, PrintCheck, ErrorHopperOn, ErrorHopperOff, NomoneyHopperOn,
      NomoneyHopperOff, HopperErrorEvent, ClockTick, PressButton, CountPulse,
      ReportPulses, BillPacked, HopperPulse, CreditTimer, MotorTimer,
      HopperErrorSignal, NomoneySignal, DeviceLost, DeviceFound, PowerLoss
<1>3. ASSUME ~IgnoreHopperErrors, ErrorHopperOn \/ NomoneyHopperOn PROVE FALSE
  <2>1. queue # <<>> /\ Head(queue) \in OnEvents
    BY <1>3 DEF ErrorHopperOn, NomoneyHopperOn, HopperErrorEvent, Handling, OnEvents
  <2>2. 1 \in 1..Len(queue) /\ queue[1] = Head(queue)
    BY <1>1, <2>1
  <2>3. QED
    BY <1>1, <1>3, <2>1, <2>2 DEF CalmInv
<1>4. errors' = {}
  <2>1. CASE ErrorHopperOn \/ NomoneyHopperOn
    <3>1. IgnoreHopperErrors
      BY <1>3, <2>1
    <3>2. QED
      BY <1>1, <2>1, <3>1 DEF ErrorHopperOn, NomoneyHopperOn, HopperErrorEvent
  <2>2. CASE ErrorHopperOff \/ NomoneyHopperOff
    BY <1>1, <2>2 DEF ErrorHopperOff, NomoneyHopperOff, HopperErrorEvent
  <2>3. CASE \E d \in {"fiscal", "validator"} : DeviceLost(d) \/ DeviceFound(d)
    BY <1>1, <2>3 DEF DeviceLost, DeviceFound, Config, NoCriticalErrors
  <2>4. QED
    BY <1>1, <2>1, <2>2, <2>3
    DEF Next, UserAppTask, Environment, vars, SecCritical, SecRecovered, SecWork,
        CoinInserted, BankInserted, BillStacked, MoneyByPulses, CreditMoney, KeyUserStart,
        GiveCoinRefused, GiveCoin, PulseToken, PulseEnd, ExtractedMore, ExtractedAll,
        StopHopper, PrintCheck, ClockTick, PressButton, CountPulse,
        ReportPulses, BillPacked, HopperPulse, CreditTimer, MotorTimer,
        HopperErrorSignal, NomoneySignal, PowerLoss
<1>5. ASSUME ~IgnoreHopperErrors, NEW i \in 1..Len(queue')
      PROVE  queue'[i] \notin OnEvents
  <2>1. \A j \in 1..Len(queue) : queue[j] \notin OnEvents
    BY <1>1, <1>5 DEF CalmInv, OnEvents
  <2>2. /\ "GIVE_COIN" \in Events \ OnEvents /\ "PRINT_CHECK" \in Events \ OnEvents
        /\ \A j \in 1..Len(Tail(queue)) : queue # <<>> => Tail(queue)[j] \notin OnEvents
        /\ queue # <<>> => Tail(queue) \in Seq(Events)
    BY <1>1, <2>1 DEF Events, OnEvents
  <2>3. ASSUME NEW q \in Seq(Events), NEW x \in Events \ OnEvents, queue' = Post(q, x),
               \A j \in 1..Len(q) : q[j] \notin OnEvents
        PROVE  queue'[i] \notin OnEvents
    BY <1>5, <2>3, PostAt
  <2>4. CASE KeepsQueue
    BY <1>5, <2>1, <2>4 DEF KeepsQueue
  <2>5. CASE TakesOutside \/ TakesGiveCoin \/ TakesCheck
    BY <1>5, <2>2, <2>5 DEF TakesOutside, TakesGiveCoin, TakesCheck, Handling
  <2>6. CASE AsksPayout
    BY <2>2, <2>3, <2>6 DEF AsksPayout, Handling
  <2>7. CASE AsksCheck
    BY <1>1, <2>1, <2>2, <2>3, <2>7 DEF AsksCheck
  <2>8. CASE StartsAnew
    BY <1>5, <2>8 DEF StartsAnew
  <2>9. CASE TakesReport
    <3>1. PICK x \in OutsideEvents : queue' = Post(queue, x) /\ x \notin OnEvents
      BY <1>5, <2>9 DEF TakesReport, PostEvent
    <3>2. QED
      BY <1>1, <2>1, <2>3, <3>1 DEF OutsideEvents
  <2>10. QED
    BY <1>1, <2>4, <2>5, <2>6, <2>7, <2>8, <2>9, StepShape
<1>6. QED
  BY <1>2, <1>4, <1>5 DEF CalmInv

(* Multiplying a sum by the price.                                         *)
LEMMA PriceOfSum ==
  ASSUME NEW a \in Nat, NEW b \in Nat
  PROVE  /\ (a + b) * HopperCost = a * HopperCost + b * HopperCost
         /\ a * HopperCost \in Nat
         /\ a <= b => a * HopperCost <= b * HopperCost
  BY ConfigAssumption

LEMMA DivisionAndRest ==
  ASSUME NEW t \in Nat, NEW h \in Nat \ {0}
  PROVE  /\ t \div h \in Nat
         /\ t % h = t - h * (t \div h)
         /\ (t \div h) * h = h * (t \div h)
  OBVIOUS

(* The tokens a credit buys and the rest are worth the credit.             *)
LEMMA PayoutIsCredit ==
  ASSUME NEW c \in [Lines -> Nat]
  PROVE  (Total(c) \div HopperCost) * HopperCost + Rest(c) = Total(c)
<1>1. Total(c) \in Nat /\ HopperCost \in Nat \ {0}
  BY PayoutArithmetic, ConfigAssumption
<1>2. Rest(c) = Total(c) % HopperCost
  BY DEF Rest
<1> DEFINE t == Total(c)
           d == t \div HopperCost
<1>3. /\ d \in Nat /\ t % HopperCost = t - HopperCost * d
      /\ d * HopperCost = HopperCost * d
  BY <1>1, DivisionAndRest
<1> HIDE DEF t, d
<1>4. Rest(c) = t - d * HopperCost
  BY <1>2, <1>3 DEF t
<1>5. d * HopperCost \in Nat /\ t \in Nat
  BY <1>1, <1>3 DEF t
<1>6. QED
  BY <1>4, <1>5 DEF t, d

-----------------------------------------------------------------------------
(* An outstanding check stays in the queue until EVENT_PRINT_CHECK is its   *)
(* head.                                                                   *)
CheckQueued == \E i \in 1..Len(queue) : queue[i] = "PRINT_CHECK"

QueueGoesOn ==
  \/ queue' = queue
  \/ \E x \in Events : queue' = Post(queue, x)
  \/ /\ queue # <<>> /\ Head(queue) # "PRINT_CHECK"
     /\ queue' = Tail(queue) \/ \E x \in Events : queue' = Post(Tail(queue), x)

LEMMA CheckStays ==
  ASSUME TypeOK, QueueGoesOn, CheckQueued
  PROVE  CheckQueued'
<1>1. queue \in Seq(Events)
  BY DEF TypeOK
<1>2. PICK i \in 1..Len(queue) : queue[i] = "PRINT_CHECK"
  BY DEF CheckQueued
<1>3. CASE queue' = queue
  BY <1>2, <1>3 DEF CheckQueued
<1>4. ASSUME NEW q \in Seq(Events), NEW x \in Events, queue' = Post(q, x),
             NEW k \in 1..Len(q), q[k] = "PRINT_CHECK"
      PROVE  CheckQueued'
  <2>1. queue'[k] = "PRINT_CHECK"
    BY <1>4, PostAt
  <2>2. k \in 1..Len(queue')
    <3>1. Len(queue') \in {Len(q), Len(q) + 1} /\ Len(q) \in Nat
      BY <1>4, PostAt
    <3>2. QED
      BY <3>1
  <2>3. QED
    BY <2>1, <2>2 DEF CheckQueued
<1>5. CASE \E x \in Events : queue' = Post(queue, x)
  BY <1>1, <1>2, <1>4, <1>5
<1>6. CASE queue # <<>> /\ Head(queue) # "PRINT_CHECK"
  <2>1. /\ Tail(queue) \in Seq(Events) /\ i - 1 \in 1..Len(Tail(queue))
        /\ Tail(queue)[i - 1] = "PRINT_CHECK"
    <3>1. i # 1
      BY <1>1, <1>2, <1>6
    <3>2. QED
      BY <1>1, <1>2, <1>6, <3>1
  <2>2. CASE queue' = Tail(queue)
    BY <2>1, <2>2 DEF CheckQueued
  <2>3. CASE \E x \in Events : queue' = Post(Tail(queue), x)
    BY <1>4, <2>1, <2>3
  <2>4. CASE queue' = queue \/ \E x \in Events : queue' = Post(queue, x)
    BY <1>3, <1>5, <2>4
  <2>5. QED
    BY <2>2, <2>3, <2>4 DEF QueueGoesOn
<1>7. QED
  BY <1>3, <1>5, <1>6 DEF QueueGoesOn

LEMMA OnlyCheckTakesCheck ==
  ASSUME TypeOK, [Next]_vars, ~PrintCheck, ~PowerLoss
  PROVE  QueueGoesOn
<1>1. /\ "GIVE_COIN" \in Events /\ "PRINT_CHECK" \in Events
      /\ {"SEC", "COIN_INSERTED", "BANK_INSERTED", "BILL_STACKED", "KEY_USER_START",
          "HOPPER_EXTRACTED", "ERROR_HOPPER_ON", "ERROR_HOPPER_OFF",
          "NOMONEY_HOPPER_ON", "NOMONEY_HOPPER_OFF"} \subseteq Events
  BY DEF Events
<1> USE <1>1 DEF QueueGoesOn
<1>2. CASE SecCritical \/ SecRecovered \/ SecWork \/ KeyUserStart
  BY <1>2 DEF SecCritical, SecRecovered, SecWork, KeyUserStart, Handling
<1>3. CASE CoinInserted \/ BankInserted \/ BillStacked
  BY <1>3 DEF CoinInserted, BankInserted, BillStacked, MoneyByPulses, CreditMoney, Handling
<1>4. CASE GiveCoinRefused \/ GiveCoin \/ PulseToken \/ PulseEnd
  BY <1>4 DEF GiveCoinRefused, GiveCoin, PulseToken, PulseEnd, EndPayout, AskCheck, Handling
<1>5. CASE ExtractedMore \/ ExtractedAll \/ StopHopper
  BY <1>5 DEF ExtractedMore, ExtractedAll, StopHopper, EndPayout, AskCheck, Handling
<1>6. CASE ErrorHopperOn \/ ErrorHopperOff \/ NomoneyHopperOn \/ NomoneyHopperOff
  BY <1>6 DEF ErrorHopperOn, ErrorHopperOff, NomoneyHopperOn, NomoneyHopperOff,
              HopperErrorEvent, Handling
<1>7. CASE Environment
  BY <1>7 DEF Environment, ClockTick, PressButton, CountPulse, ReportPulses, BillPacked,
      HopperPulse, CreditTimer, MotorTimer, HopperErrorSignal, NomoneySignal,
      DeviceLost, DeviceFound, PostEvent
<1>8. CASE UNCHANGED vars
  BY <1>8 DEF vars
<1>9. QED
  BY <1>2, <1>3, <1>4, <1>5, <1>6, <1>7, <1>8 DEF Next, UserAppTask

-----------------------------------------------------------------------------
(* The two sides of TokensPaidFor.                                         *)
Spent == (tokens + left) * HopperCost
Kept == IF pc = "pulse" THEN Rest(credit) ELSE credit["rest"]
Open == IF CheckPending THEN 0 ELSE credit["money"] + credit["bank"]
Earned == ctr["allcash"] + ctr["bank"] + unsettled

LEMMA PaidSides ==
  /\ TokensPaidFor <=> Spent + Kept + Open <= Earned
  /\ CheckPending <=> pc = "pulse" \/ CheckQueued
  BY DEF TokensPaidFor, Spent, Kept, Open, Earned, CheckPending, CheckQueued

LEMMA PaidTypes ==
  ASSUME TypeOK
  PROVE  /\ Spent \in Nat /\ Kept \in Nat /\ Open \in Nat /\ Earned \in Nat
         /\ credit \in [Lines -> Nat] /\ Total(credit) \in Nat
         /\ credit["money"] \in Nat /\ credit["bank"] \in Nat /\ credit["rest"] \in Nat
         /\ Total(credit) = credit["money"] + credit["bank"] + credit["rest"]
         /\ tokens \in Nat /\ left \in Nat /\ unsettled \in Nat
         /\ ctr["allcash"] \in Nat /\ ctr["bank"] \in Nat
<1>1. /\ credit \in [Lines -> Nat] /\ ctr \in [Counters -> Nat]
      /\ tokens \in Nat /\ left \in Nat /\ unsettled \in Nat
  BY DEF TypeOK
<1>2. /\ credit["money"] \in Nat /\ credit["bank"] \in Nat /\ credit["rest"] \in Nat
      /\ ctr["allcash"] \in Nat /\ ctr["bank"] \in Nat
  BY <1>1 DEF Lines, Counters
<1>3. Total(credit) \in Nat /\ Rest(credit) \in Nat
  BY <1>1, PayoutArithmetic
<1>4. Spent \in Nat
  <2>1. tokens + left \in Nat
    BY <1>1
  <2>2. QED
    BY <2>1, PriceOfSum DEF Spent
<1>5. Kept \in Nat /\ Open \in Nat /\ Earned \in Nat
  BY <1>1, <1>2, <1>3 DEF Kept, Open, Earned
<1>6. QED
  BY <1>1, <1>2, <1>3, <1>4, <1>5 DEF Total

(* A step that leaves the payout and the books alone.                      *)
QuietPaid ==
  UNCHANGED <<pc, left, tokens, unsettled>> /\ UNCHANGED bookVars /\ QueueGoesOn

LEMMA PaidQuiet ==
  ASSUME TypeOK, TypeOK', TokensPaidFor, QuietPaid
  PROVE  TokensPaidFor'
<1>1. /\ pc' = pc /\ left' = left /\ tokens' = tokens /\ credit' = credit /\ ctr' = ctr
      /\ unsettled' = unsettled /\ QueueGoesOn
  BY DEF QuietPaid, bookVars
<1>2. Spent' = Spent /\ Kept' = Kept /\ Earned' = Earned
  BY <1>1 DEF Spent, Kept, Earned, Rest, Total
<1>3. CheckPending => CheckPending'
  BY <1>1, CheckStays, PaidSides DEF CheckPending, CheckQueued
<1>4. Open' = IF CheckPending' THEN 0 ELSE credit["money"] + credit["bank"]
  BY <1>1 DEF Open
<1>5. Open' <= Open /\ Open' \in Nat
  BY <1>3, <1>4, PaidTypes DEF Open
<1>6. Spent' + Kept' + Open' <= Earned'
  BY <1>2, <1>5, PaidTypes, PaidSides
<1>7. QED
  BY <1>6 DEF TokensPaidFor, Spent, Kept, Open, Earned

(* Money that comes in widens both sides by the same amount.               *)
LEMMA PaidIncome ==
  ASSUME TypeOK, TypeOK', TokensPaidFor, UNCHANGED <<pc, left, tokens, unsettled>>,
         pc = "wait",
         QueueGoesOn, NEW amount \in Nat,
         credit'["money"] + credit'["bank"] = credit["money"] + credit["bank"] + amount,
         credit'["rest"] = credit["rest"],
         ctr'["allcash"] + ctr'["bank"] = ctr["allcash"] + ctr["bank"] + amount
  PROVE  TokensPaidFor'
<1>1. Spent' = Spent /\ Kept' = Kept /\ Earned' = Earned + amount
  BY PaidTypes DEF Spent, Kept, Earned
<1>2. CheckPending => CheckPending'
  BY CheckStays, PaidSides DEF CheckPending, CheckQueued
<1>3. Open' <= Open + amount /\ Open' \in Nat
  <2>1. credit'["money"] + credit'["bank"] \in Nat
    BY PaidTypes
  <2>2. Open' = IF CheckPending' THEN 0 ELSE credit'["money"] + credit'["bank"]
    BY DEF Open
  <2>3. QED
    BY <1>2, <2>1, <2>2, PaidTypes DEF Open
<1>4. Spent' + Kept' + Open' <= Earned'
  BY <1>1, <1>3, PaidTypes, PaidSides
<1>5. QED
  BY <1>4 DEF TokensPaidFor, Spent, Kept, Open, Earned

(* A payout spends no more than the credit: the tokens it owes and the rest *)
(* are worth the whole of it.                                              *)
LEMMA PaidGiveCoin ==
  ASSUME TypeOK, TokensPaidFor, left = 0, ~CheckPending, pc = "wait",
         pc' = "pulse", left' = Total(credit) \div HopperCost,
         UNCHANGED <<tokens, credit, ctr, unsettled>>
  PROVE  TokensPaidFor'
<1> DEFINE d == Total(credit) \div HopperCost
<1>1. /\ d \in Nat /\ tokens \in Nat /\ credit \in [Lines -> Nat]
      /\ Rest(credit) \in Nat /\ Total(credit) \in Nat
  BY PayoutArithmetic, PaidTypes
<1>2. d * HopperCost + Rest(credit) = Total(credit)
  BY <1>1, PayoutIsCredit
<1>3. (tokens + d) * HopperCost = tokens * HopperCost + d * HopperCost
  BY <1>1, PriceOfSum
<1>4. tokens * HopperCost \in Nat /\ d * HopperCost \in Nat
  BY <1>1, PriceOfSum
<1>5. tokens * HopperCost + Total(credit) <= Earned /\ Earned \in Nat
  <2>1. Spent = tokens * HopperCost
    BY <1>1 DEF Spent
  <2>2. Kept + Open = Total(credit)
    BY PaidTypes DEF Kept, Open
  <2>3. Spent + Kept + Open <= Earned
    BY PaidSides
  <2>4. QED
    BY <2>1, <2>2, <2>3, PaidTypes
<1>6. Spent' = (tokens + d) * HopperCost /\ Kept' = Rest(credit) /\ Open' = 0
      /\ Earned' = Earned
  BY DEF Spent, Kept, Open, Earned, Rest, Total, CheckPending
<1> HIDE DEF d
<1>7. Spent' + Kept' + Open' <= Earned'
  BY <1>1, <1>2, <1>3, <1>4, <1>5, <1>6
<1>8. QED
  BY <1>7 DEF TokensPaidFor, Spent, Kept, Open, Earned

LEMMA EarnedGrows ==
  ASSUME TypeOK, ctr'["allcash"] = ctr["allcash"], ctr'["bank"] = ctr["bank"],
         NEW n \in Nat, unsettled' = unsettled + n
  PROVE  Earned' = Earned + n /\ Earned' \in Nat
<1>1. ctr["allcash"] \in Nat /\ ctr["bank"] \in Nat /\ unsettled \in Nat
  BY PaidTypes
<1>2. Earned' = ctr["allcash"] + ctr["bank"] + (unsettled + n)
  BY DEF Earned
<1>3. QED
  BY <1>1, <1>2 DEF Earned

(* The end of the pulse loop: the check is queued, or it is lost and the    *)
(* money stays to be spent, which is what unsettled grows by.              *)
LEMMA PaidPulseEnd ==
  ASSUME TypeOK, TypeOK', TokensPaidFor, PulseEnd
  PROVE  TokensPaidFor'
<1>1. /\ pc = "pulse" /\ pc' = "wait" /\ left' = 0 /\ tokens' = tokens
      /\ queue' = Post(queue, "PRINT_CHECK") /\ queue \in Seq(Events)
      /\ "PRINT_CHECK" \in Events
  BY DEF PulseEnd, EndPayout, AskCheck, TypeOK, Events
<1>2. /\ credit'["rest"] = Rest(credit)
      /\ credit'["money"] = credit["money"] /\ credit'["bank"] = credit["bank"]
      /\ ctr'["allcash"] = ctr["allcash"] /\ ctr'["bank"] = ctr["bank"]
  BY PayoutBooks
<1>3. Spent' <= Spent /\ Spent' \in Nat
  <2>1. tokens \in Nat /\ left \in Nat /\ tokens + left \in Nat /\ tokens <= tokens + left
        /\ tokens' + left' = tokens
    BY <1>1, PaidTypes
  <2>2. tokens * HopperCost <= (tokens + left) * HopperCost /\ tokens * HopperCost \in Nat
    BY <2>1, PriceOfSum
  <2>3. QED
    BY <2>1, <2>2 DEF Spent
<1>4. Kept' = Kept /\ Open = 0
  BY <1>1, <1>2 DEF Kept, Open, CheckPending
<1>5. Earned + Open' <= Earned' /\ Earned' \in Nat /\ Open' \in Nat
  <2>1. CASE Len(queue) < QueueLen
    <3>1. /\ Len(queue) + 1 \in 1..Len(queue')
          /\ queue'[Len(queue) + 1] = "PRINT_CHECK"
      BY <1>1, <2>1, PostAt
    <3>2. Open' = 0
      BY <3>1 DEF Open, CheckPending
    <3>3. unsettled' = unsettled + 0
      BY <2>1, PaidTypes DEF PulseEnd, EndPayout
    <3>4. Earned' = Earned + 0 /\ Earned' \in Nat
      BY <1>2, <3>3, EarnedGrows
    <3>5. QED
      BY <3>2, <3>4, PaidTypes
  <2>2. CASE ~(Len(queue) < QueueLen)
    <3>1. /\ unsettled' = unsettled + (credit["money"] + credit["bank"])
          /\ credit["money"] + credit["bank"] \in Nat
      <4>1. unsettled' = unsettled + credit["money"] + credit["bank"]
        BY <2>2 DEF PulseEnd, EndPayout
      <4>2. QED
        BY <4>1, PaidTypes
    <3>2. Open' \in {0, credit["money"] + credit["bank"]}
      BY <1>2 DEF Open
    <3>3. Earned' = Earned + (credit["money"] + credit["bank"]) /\ Earned' \in Nat
      BY <1>2, <3>1, EarnedGrows
    <3>4. QED
      BY <3>1, <3>2, <3>3, PaidTypes
  <2>3. QED
    BY <2>1, <2>2
<1>6. Spent' + Kept' + Open' <= Earned'
  <2>1. Spent + Kept + Open <= Earned
    BY PaidSides
  <2>2. QED
    BY <1>3, <1>4, <1>5, <2>1, PaidTypes
<1>7. QED
  BY <1>6 DEF TokensPaidFor, Spent, Kept, Open, Earned

(* A loss of power: the money of a payout that was not settled is spendable *)
(* again, and unsettled grows by as much.                                  *)
LEMMA PaidPowerLoss ==
  ASSUME TypeOK, TypeOK', TokensPaidFor, PowerLoss, pc \in {"wait", "pulse"},
         pc = "wait" => left = 0,
         pc = "pulse" => given + left = Total(credit) \div HopperCost
  PROVE  TokensPaidFor'
<1>1. /\ tokens' = tokens /\ left' = 0 /\ credit' = credit /\ ctr' = ctr
      /\ pc' = "wait" /\ queue' = <<>>
  BY DEF PowerLoss, framVars
<1>2. ~CheckPending'
  BY <1>1 DEF CheckPending
<1>3. /\ Spent' = tokens * HopperCost /\ tokens * HopperCost \in Nat
      /\ Kept' = credit["rest"] /\ Open' = credit["money"] + credit["bank"]
  <2>1. tokens' + left' = tokens
    BY <1>1, PaidTypes
  <2>2. QED
    BY <1>1, <1>2, <2>1, PaidTypes, PriceOfSum DEF Spent, Kept, Open
<1>4. CASE pc = "pulse"
  <2>1. given \in Nat /\ left \in Nat /\ tokens \in Nat /\ tokens + left \in Nat
    BY PaidTypes DEF TypeOK
  <2>2. /\ given * HopperCost \in Nat /\ left * HopperCost \in Nat
        /\ (given + left) * HopperCost = given * HopperCost + left * HopperCost
        /\ (tokens + left) * HopperCost = tokens * HopperCost + left * HopperCost
    BY <2>1, PriceOfSum
  <2>3. (given + left) * HopperCost + Rest(credit) = Total(credit)
    BY <1>4, PaidTypes, PayoutIsCredit
  <2>4. unsettled' = unsettled + given * HopperCost
    BY <1>4 DEF PowerLoss
  <2>5. /\ Spent = (tokens + left) * HopperCost /\ Kept = Rest(credit) /\ Open = 0
        /\ Earned' = Earned + given * HopperCost
    <3>1. Earned' = Earned + given * HopperCost
      BY <1>1, <2>2, <2>4, EarnedGrows
    <3>2. QED
      BY <1>4, <3>1 DEF Spent, Kept, Open, CheckPending
  <2>6. Spent + Kept + Open <= Earned
    BY PaidSides
  <2>7. Rest(credit) \in Nat
    BY PaidTypes, PayoutArithmetic
  <2>8. Spent' + Kept' + Open' <= Earned'
    BY <1>3, <2>2, <2>3, <2>5, <2>6, <2>7, PaidTypes
  <2>9. QED
    BY <2>8 DEF TokensPaidFor, Spent, Kept, Open, Earned
<1>5. CASE pc = "wait"
  <2>1. Spent = tokens * HopperCost /\ Kept = credit["rest"]
    <3>1. tokens + left = tokens
      BY <1>5, PaidTypes
    <3>2. QED
      BY <1>5, <3>1 DEF Spent, Kept
  <2>2. Earned + Open' <= Earned' + Open /\ Earned' \in Nat
    <3>1. CASE CheckPending
      <4>1. unsettled' = unsettled + (credit["money"] + credit["bank"])
        BY <1>5, <3>1 DEF PowerLoss
      <4>2. Open = 0
        BY <3>1 DEF Open
      <4>3. credit["money"] + credit["bank"] \in Nat
        BY PaidTypes
      <4>4. Earned' = Earned + (credit["money"] + credit["bank"]) /\ Earned' \in Nat
        BY <1>1, <4>1, <4>3, EarnedGrows
      <4>5. QED
        BY <1>3, <4>2, <4>3, <4>4, PaidTypes
    <3>2. CASE ~CheckPending
      <4>1. unsettled' = unsettled + 0
        BY <1>5, <3>2 DEF PowerLoss
      <4>2. Open = credit["money"] + credit["bank"]
        BY <3>2 DEF Open
      <4>3. Earned' = Earned + 0 /\ Earned' \in Nat
        BY <1>1, <4>1, EarnedGrows, PaidTypes
      <4>4. QED
        BY <1>3, <4>2, <4>3, PaidTypes
    <3>3. QED
      BY <3>1, <3>2
  <2>3. Spent + Kept + Open <= Earned
    BY PaidSides
  <2>4. Spent' + Kept' + Open' <= Earned'
    BY <1>3, <2>1, <2>2, <2>3, PaidTypes
  <2>5. QED
    BY <2>4 DEF TokensPaidFor, Spent, Kept, Open, Earned
<1>6. QED
  BY <1>4, <1>5

(* Only the end of a payout and a loss of power leave one unsettled.        *)
LEMMA StaysSettled ==
  ASSUME [Next]_vars, ~PulseEnd, ~StopHopper, ~PowerLoss
  PROVE  unsettled' = unsettled
  BY DEF Next, UserAppTask, Environment, vars, historyVars, SecCritical, SecRecovered,
      SecWork, CoinInserted, BankInserted, BillStacked, MoneyByPulses, CreditMoney,
      KeyUserStart, GiveCoinRefused, GiveCoin, PulseToken, ExtractedMore,
      ExtractedAll, PrintCheck, ErrorHopperOn, ErrorHopperOff,
      NomoneyHopperOn, NomoneyHopperOff, HopperErrorEvent, ClockTick, PressButton,
      CountPulse, ReportPulses, BillPacked, HopperPulse, CreditTimer, MotorTimer,
      HopperErrorSignal, NomoneySignal, DeviceLost, DeviceFound

(* Every step keeps the tokens paid for.                                   *)
LEMMA PaidStep ==
  ASSUME Config, TypeOK, TypeOK', PayoutInv, QueueInv, TokensPaidFor, [Next]_vars
  PROVE  TokensPaidFor'
<1>1. /\ ButtonStart /\ ~Cube /\ ~TstCriticalErrors /\ pc # "runout" /\ ~hopperOn
      /\ CalmInv /\ TurnInv /\ was_critical_error = FALSE
  BY CalmMeansNoError DEF QueueInv, CalmInv, Config, ButtonMode, PayoutInv, RegimeInv
<1>2. /\ pc = "wait" => left = 0
      /\ pc = "pulse" => given + left = Total(credit) \div HopperCost
      /\ pc \in {"wait", "pulse"}
  BY <1>1 DEF PayoutInv, ElolutionInv, TypeOK
<1>3. CASE PowerLoss
  BY <1>2, <1>3, PaidPowerLoss
<1>4. CASE PulseEnd
  BY <1>4, PaidPulseEnd
<1>5. ~(ExtractedMore \/ ExtractedAll \/ StopHopper \/ HopperPulse)
  BY <1>1 DEF ExtractedMore, ExtractedAll, StopHopper, HopperPulse
<1>6. SUFFICES ASSUME ~PowerLoss, ~PulseEnd, unsettled' = unsettled PROVE TokensPaidFor'
  BY <1>3, <1>4, <1>5, StaysSettled
<1>7. CASE PrintCheck
  <2>1. /\ pc = "wait" /\ pc' = pc /\ left' = left /\ tokens' = tokens
    BY <1>7 DEF PrintCheck, Handling, serverVars, historyVars
  <2>2. /\ credit'["money"] = 0 /\ credit'["bank"] = 0 /\ credit'["rest"] = credit["rest"]
        /\ Earned' = Earned
    BY <1>6, <1>7, CheckBooks DEF Earned
  <2>3. Spent' = Spent /\ Kept' = Kept /\ Open' = 0
    BY <2>1, <2>2 DEF Spent, Kept, Open
  <2>4. Spent' + Kept' + Open' <= Earned'
    BY <2>2, <2>3, PaidTypes, PaidSides
  <2>5. QED
    BY <2>4 DEF TokensPaidFor, Spent, Kept, Open, Earned
<1>8. SUFFICES ASSUME ~PrintCheck PROVE TokensPaidFor'
  BY <1>7
<1>9. QueueGoesOn
  BY <1>6, <1>8, OnlyCheckTakesCheck
<1>10. CASE IdleStep /\ (QuietStep \/ UNCHANGED vars)
  <2>1. UNCHANGED PayoutVars
    BY <1>10, IdlePayout
  <2>2. UNCHANGED bookVars
    BY <1>10, QuietBooks DEF vars, bookVars, framVars, historyVars
  <2>3. QuietPaid
    BY <1>6, <1>9, <2>1, <2>2 DEF QuietPaid, PayoutVars, serverVars
  <2>4. QED
    BY <2>3, PaidQuiet
<1>11. CASE CoinInserted \/ BankInserted \/ BillStacked
  <2>1. UNCHANGED <<pc, left, tokens>> /\ pc = "wait"
    <3>1. UNCHANGED PayoutVars
      BY <1>11, IdlePayout DEF IdleStep
    <3>2. QED
      BY <1>11, <3>1
      DEF PayoutVars, serverVars, CoinInserted, BankInserted, BillStacked, Handling
  <2>2. CASE UNCHANGED bookVars
    BY <1>6, <1>9, <2>1, <2>2, PaidQuiet DEF QuietPaid
  <2>3. ASSUME NEW amount \in Nat,
               credit'["money"] + credit'["bank"] = credit["money"] + credit["bank"] + amount,
               credit'["rest"] = credit["rest"],
               ctr'["allcash"] + ctr'["bank"] = ctr["allcash"] + ctr["bank"] + amount
        PROVE  TokensPaidFor'
    BY <1>6, <1>9, <2>1, <2>3, PaidIncome
  <2>4. QED
    BY <1>11, <2>2, <2>3, Income
<1>12. CASE GiveCoin
  <2>1. /\ Handling("GIVE_COIN") /\ pc = "wait" /\ left = 0
        /\ pc' = "pulse" /\ left' = Total(credit) \div HopperCost
        /\ UNCHANGED <<tokens, credit, ctr>>
    BY <1>1, <1>2, <1>12 DEF GiveCoin, Handling, framVars
  <2>2. ~CheckPending
    <3>1. 1 \in 1..Len(queue) /\ queue[1] = "GIVE_COIN"
      BY <2>1 DEF TypeOK, Handling
    <3>2. ASSUME NEW i \in 1..Len(queue), queue[i] = "PRINT_CHECK" PROVE FALSE
      <4>1. OwnAt(i) /\ OwnAt(1)
        BY <3>1, <3>2 DEF OwnAt, OwnEvents
      <4>2. i = 1
        BY <1>1, <3>1, <4>1 DEF TurnInv
      <4>3. QED
        BY <3>1, <3>2, <4>2
    <3>3. QED
      BY <2>1, <3>2 DEF CheckPending
  <2>3. QED
    BY <1>6, <2>1, <2>2, PaidGiveCoin
<1>13. CASE PulseToken
  <2>1. /\ pc' = pc /\ pc = "pulse" /\ credit' = credit /\ ctr' = ctr
        /\ left' = left - 1 /\ tokens' = tokens + 1 /\ left > 0
    BY <1>13 DEF PulseToken, framVars
  <2>2. tokens' + left' = tokens + left
    BY <2>1, PaidTypes
  <2>3. Spent' = Spent /\ Kept' = Kept /\ Open' = Open /\ Earned' = Earned
    BY <1>6, <2>1, <2>2 DEF Spent, Kept, Open, Earned, Rest, Total, CheckPending
  <2>4. Spent' + Kept' + Open' <= Earned'
    BY <1>6, <2>3, PaidSides
  <2>5. QED
    BY <2>4 DEF TokensPaidFor, Spent, Kept, Open, Earned
<1>14. CASE SecWork
  <2>1. pc = "wait" /\ UNCHANGED <<pc, left, tokens>>
    BY <1>14 DEF SecWork, Handling
  <2>2. /\ ctr' = ctr /\ credit'["rest"] \in {0, credit["rest"]}
        /\ credit' = credit \/ (credit'["money"] = 0 /\ credit'["bank"] = 0)
    BY <1>14, ClockBooks
  <2>3. Spent' = Spent /\ Earned' = Earned /\ Kept' <= Kept /\ Kept' \in Nat
    BY <1>6, <2>1, <2>2, PaidTypes DEF Spent, Earned, Kept
  <2>4. CheckPending => CheckPending'
    BY <1>9, <2>1, CheckStays, PaidSides DEF CheckPending, CheckQueued
  <2>5. Open' <= Open /\ Open' \in Nat
    <3>1. Open' = IF CheckPending' THEN 0 ELSE credit'["money"] + credit'["bank"]
      BY DEF Open
    <3>2. QED
      BY <2>2, <2>4, <3>1, PaidTypes DEF Open
  <2>6. Spent' + Kept' + Open' <= Earned'
    BY <1>6, <2>3, <2>5, PaidTypes, PaidSides
  <2>7. QED
    BY <2>6 DEF TokensPaidFor, Spent, Kept, Open, Earned
<1>15. QED
  BY <1>6, <1>8, <1>10, <1>11, <1>12, <1>13, <1>14, <1>5
  DEF Next, UserAppTask, Environment, IdleStep, QuietStep

-----------------------------------------------------------------------------
LEMMA PaidInvariant ==
  ASSUME Config
  PROVE  Spec => [](QueueInv /\ TokensPaidFor)
<1>1. Init => QueueInv /\ TokensPaidFor
  <2>1. SUFFICES ASSUME Init PROVE QueueInv /\ TokensPaidFor
    OBVIOUS
  <2>2. CalmInv /\ TurnInv
    BY <2>1 DEF Init, CalmInv, TurnInv
  <2>3. TokensPaidFor
    <3>1. /\ tokens = 0 /\ left = 0 /\ pc = "wait" /\ credit["rest"] = 0
          /\ credit["money"] = 0 /\ credit["bank"] = 0
          /\ ctr["allcash"] = 0 /\ ctr["bank"] = 0 /\ unsettled = 0
      BY <2>1 DEF Init, Lines, Counters
    <3>2. (0 + 0) * HopperCost = 0
      BY ConfigAssumption
    <3>3. Spent = 0 /\ Kept = 0 /\ Open = 0 /\ Earned = 0
      BY <3>1, <3>2 DEF Spent, Kept, Open, Earned
    <3>4. QED
      BY <3>3, PaidSides
  <2>4. QED
    BY <2>2, <2>3 DEF QueueInv
<1>2. TypeOK /\ TypeOK' /\ PayoutInv /\ QueueInv /\ TokensPaidFor /\ [Next]_vars
        => (QueueInv /\ TokensPaidFor)'
  BY CalmStep, TurnStep, PaidStep DEF QueueInv
<1>3. QED
  BY <1>1, <1>2, TypeCorrect, PayoutInvariant, PTL DEF Spec

(* EVENT_GIVE_COIN (app_serv.c:690): the tokens that left the hopper, those *)
(* the pulse loop still owes, the rest of the customer and the money still  *)
(* to be spent were taken in, but for the payouts whose check was lost.     *)
(* The queue may lose any event and the power may be lost at any handler.   *)
THEOREM TokensPaid ==
  ASSUME Config
  PROVE  Spec => []TokensPaidFor
BY PaidInvariant, PTL

=============================================================================
