--------------------------- MODULE UserAppProofs ---------------------------
(***************************************************************************)
(* Proofs about the event server, for every price, configuration, length of *)
(* the queue and set of disturbances.                                       *)
(***************************************************************************)
EXTENDS UserApp, TLAPS

(* A post keeps the queue a sequence of events of at most QueueLen.        *)
LEMMA PostType ==
  ASSUME NEW q \in Seq(Events), Len(q) <= QueueLen, NEW e \in Events
  PROVE  Post(q, e) \in Seq(Events) /\ Len(Post(q, e)) <= QueueLen
  BY ConfigAssumption DEF Post

(* So does taking an event from it.                                        *)
LEMMA TailType ==
  ASSUME NEW q \in Seq(Events), q # <<>>, Len(q) <= QueueLen
  PROVE  Tail(q) \in Seq(Events) /\ Len(Tail(q)) <= QueueLen
  BY ConfigAssumption

(* The credit buys a whole number of tokens and leaves less than a price.  *)
LEMMA PayoutArithmetic ==
  ASSUME NEW c \in [Lines -> Nat]
  PROVE  /\ Total(c) \in Nat
         /\ Rest(c) \in Nat /\ Rest(c) < HopperCost
         /\ Total(c) \div HopperCost \in Nat
         /\ Total(c) >= HopperCost => Total(c) \div HopperCost > 0
<1>1. Total(c) \in Nat
  BY DEF Total, Lines
<1>2. HopperCost \in Nat \ {0}
  BY ConfigAssumption
<1> QED BY <1>1, <1>2, SMT DEF Rest

(* Opening and closing yield a switch for every source.                    *)
LEMMA AcceptType ==
  ASSUME accept \in [Sources -> BOOLEAN]
  PROVE  Opened \in [Sources -> BOOLEAN] /\ Closed \in [Sources -> BOOLEAN]
  BY DEF Opened, Closed

-----------------------------------------------------------------------------

LEMMA NatZero == 0 \in Nat
  OBVIOUS

(* What the end of a payout does to the variables it writes.               *)
LEMMA EndPayoutType ==
  ASSUME TypeOK, NEW q \in Seq(Events), Len(q) <= QueueLen, EndPayout(q)
  PROVE  /\ queue' \in Seq(Events) /\ Len(queue') <= QueueLen
         /\ pc' \in {"wait", "pulse", "runout"}
         /\ CountCoin' \in Nat
         /\ credit' \in [Lines -> Nat]
         /\ ctr' \in [Counters -> Nat]
         /\ unsettled' \in Nat
<1>1. queue' \in Seq(Events) /\ Len(queue') <= QueueLen
  BY PostType DEF EndPayout, AskCheck, Events
<1>2. credit' \in [Lines -> Nat]
  <2>1. Rest(credit) \in Nat
    BY PayoutArithmetic DEF TypeOK
  <2> QED BY <2>1 DEF EndPayout, TypeOK, Lines
<1>3. ctr' \in [Counters -> Nat]
  BY DEF EndPayout, CountedOut, TypeOK, Counters
<1>4. unsettled' \in Nat
  <2>1. credit["money"] \in Nat /\ credit["bank"] \in Nat /\ unsettled \in Nat
    BY DEF TypeOK, Lines
  <2>2. unsettled' \in {unsettled, unsettled + credit["money"] + credit["bank"]}
    BY DEF EndPayout
  <2> QED BY <2>1, <2>2
<1> QED BY <1>1, <1>2, <1>3, <1>4 DEF EndPayout

(* Crediting fetched money keeps the types, whatever source it closes.     *)
LEMMA CreditMoneyType ==
  ASSUME TypeOK, queue # <<>>, NEW s \in Sources, NEW amount \in Nat,
         NEW line \in {"money", "bank"}, NEW counters \in SUBSET Counters,
         CreditMoney(s, amount, line, counters),
         accept' \in [Sources -> BOOLEAN]
  PROVE  TypeOK'
<1>1. queue' \in Seq(Events) /\ Len(queue') <= QueueLen
  BY TailType, PostType DEF CreditMoney, Events, TypeOK
<1>2. pend' \in [Sources -> Nat]
  BY DEF CreditMoney, TypeOK, Lines, Counters
<1>3. credit' \in [Lines -> Nat]
  <2>1. credit' = [credit EXCEPT ![line] = @ + amount]
    BY DEF CreditMoney
  <2>2. credit \in [Lines -> Nat] /\ line \in Lines
    BY DEF TypeOK, Lines
  <2>3. credit[line] + amount \in Nat
    BY <2>2
  <2> QED BY <2>1, <2>2, <2>3
<1>4. ctr' \in [Counters -> Nat]
  <2>1. ctr' = [c \in Counters |-> IF c \in counters THEN ctr[c] + amount ELSE ctr[c]]
    BY DEF CreditMoney
  <2>2. \A c \in Counters : ctr[c] \in Nat
    BY DEF TypeOK
  <2> QED BY <2>1, <2>2
<1>5. MoneyIn' \in BOOLEAN /\ credit_expired' \in BOOLEAN
  BY DEF CreditMoney
<1>6. UNCHANGED <<serverVars, led_on, press_button, was_critical_error,
                  HopperImpCounter, event_nomoney_hopper, settling, errors,
                  AcceptedCoin, motor_expired, historyVars>>
  BY DEF CreditMoney
<1> QED BY <1>1, <1>2, <1>3, <1>4, <1>5, <1>6
        DEF TypeOK, serverVars, historyVars

-----------------------------------------------------------------------------

(* Every handler and every disturbance keeps the types.                    *)
LEMMA TypeStep ==
  ASSUME TypeOK, [Next]_vars
  PROVE  TypeOK'
<1> USE ConfigAssumption, BoundAssumption
<1>1. CASE SecCritical
  BY <1>1, TailType, PostType, AcceptType DEF SecCritical, TypeOK, Handling, serverVars, flagVars, inputVars, framVars, timerVars, historyVars, Events
<1>2. CASE SecRecovered
  BY <1>2, TailType, AcceptType DEF SecRecovered, TypeOK, Handling, serverVars, flagVars, inputVars, framVars, timerVars, historyVars
<1>3. CASE SecWork
  <2>1. queue' \in Seq(Events) /\ Len(queue') <= QueueLen
    BY <1>3, TailType DEF SecWork, Handling, TypeOK
  <2>2. credit' \in [Lines -> Nat]
    <3>1. Settled(credit) \in [Lines -> Nat]
      BY DEF Settled, Lines, TypeOK
    <3>2. credit' \in {[l \in Lines |-> 0], Settled(credit), credit}
      BY <1>3 DEF SecWork
    <3>3. [l \in Lines |-> 0] \in [Lines -> Nat]
      OBVIOUS
    <3> QED BY <3>1, <3>2, <3>3 DEF TypeOK
  <2>3. forgiven' \in Nat
    <3>1. credit["money"] \in Nat /\ credit["bank"] \in Nat
      BY DEF TypeOK, Lines
    <3>2. forgiven' \in {forgiven, forgiven + credit["money"] + credit["bank"]}
      BY <1>3 DEF SecWork
    <3> QED BY <3>1, <3>2 DEF TypeOK
  <2>4. led_on' \in BOOLEAN /\ MoneyIn' \in BOOLEAN /\ hopperOn' \in BOOLEAN
    BY <1>3 DEF SecWork, PriceMet
  <2> QED BY <1>3, <2>1, <2>2, <2>3, <2>4
          DEF SecWork, TypeOK, inputVars, timerVars
<1>4. CASE CoinInserted
  <2> DEFINE m == CoinPerPulse * pend["coin"]
  <2>1. queue # <<>> /\ m \in Nat
    BY <1>4 DEF CoinInserted, Handling, TypeOK, Sources
  <2>2. CASE CreditMoney("coin", m, "money", {"coin", "allcash"})
            /\ accept' = [accept EXCEPT !["coin"] =
                 @ /\ (ButtonStart \/ Total(credit) + m < HopperCost)]
    <3>2. accept' \in [Sources -> BOOLEAN]
      BY <2>2 DEF TypeOK, Sources
    <3>3. "coin" \in Sources /\ {"coin", "allcash"} \in SUBSET Counters
      BY DEF Sources, Counters
    <3> QED BY <2>1, <2>2, <3>2, <3>3, CreditMoneyType
  <2>3. CASE queue' = Tail(queue)
            /\ UNCHANGED <<serverVars, flagVars, accept, inputVars, errors,
                           framVars, timerVars, historyVars>>
    BY <2>1, <2>3, TailType
       DEF TypeOK, serverVars, flagVars, inputVars, framVars, timerVars, historyVars
  <2> QED BY <1>4, <2>2, <2>3 DEF CoinInserted, MoneyByPulses
<1>5. CASE BankInserted
  <2> DEFINE m == BankPerPulse * pend["bank"]
  <2>1. queue # <<>> /\ m \in Nat
    BY <1>5 DEF BankInserted, Handling, TypeOK, Sources
  <2>2. CASE CreditMoney("bank", m, "bank", {"bank"})
            /\ accept' = [accept EXCEPT !["bank"] =
                 @ /\ (ButtonStart \/ Total(credit) + m < HopperCost)]
    <3>2. accept' \in [Sources -> BOOLEAN]
      BY <2>2 DEF TypeOK, Sources
    <3>3. "bank" \in Sources /\ {"bank"} \in SUBSET Counters
      BY DEF Sources, Counters
    <3> QED BY <2>1, <2>2, <3>2, <3>3, CreditMoneyType
  <2>3. CASE queue' = Tail(queue)
            /\ UNCHANGED <<serverVars, flagVars, accept, inputVars, errors,
                           framVars, timerVars, historyVars>>
    BY <2>1, <2>3, TailType
       DEF TypeOK, serverVars, flagVars, inputVars, framVars, timerVars, historyVars
  <2> QED BY <1>5, <2>2, <2>3 DEF BankInserted, MoneyByPulses
<1>6. CASE BillStacked
  <2>1. queue # <<>> /\ pend["bill"] \in Nat
    BY <1>6 DEF BillStacked, Handling, TypeOK, Sources
  <2>2. accept' \in [Sources -> BOOLEAN]
    BY <1>6 DEF BillStacked, TypeOK, Sources, ValidatorConnected
  <2>3. CreditMoney("bill", pend["bill"], "money", {"cash", "allcash"})
    BY <1>6 DEF BillStacked
  <2>4. "bill" \in Sources /\ {"cash", "allcash"} \in SUBSET Counters
    BY DEF Sources, Counters
  <2> QED BY <2>1, <2>2, <2>3, <2>4, CreditMoneyType
<1>7. CASE KeyUserStart
  BY <1>7, TailType, PostType DEF KeyUserStart, TypeOK, Handling, serverVars, flagVars, inputVars, framVars, timerVars, historyVars, Events
<1>8. CASE GiveCoinRefused
  BY <1>8, TailType DEF GiveCoinRefused, TypeOK, Handling, serverVars, flagVars, inputVars, framVars, timerVars, historyVars
<1>9. CASE GiveCoin
  BY <1>9, TailType, AcceptType, PayoutArithmetic DEF GiveCoin, TypeOK, Handling, serverVars, flagVars, inputVars, framVars, timerVars, historyVars
<1>10. CASE PulseToken
  BY <1>10, TypeOK DEF PulseToken, TypeOK, Handling, serverVars, flagVars, inputVars, framVars, timerVars, historyVars
<1>11. CASE PulseEnd
  BY <1>11, EndPayoutType DEF PulseEnd, TypeOK, Handling, serverVars, flagVars, inputVars, framVars, timerVars, historyVars
<1>12. CASE ExtractedMore
  <2>1. HopperImpCounter + AcceptedCoin \in Nat
    BY DEF TypeOK
  <2> QED BY <1>12, <2>1, TailType
          DEF ExtractedMore, TypeOK, Handling, serverVars, flagVars, historyVars
<1>13. CASE ExtractedAll
  BY <1>13, TailType DEF ExtractedAll, TypeOK, Handling, serverVars, flagVars, inputVars, framVars, timerVars, historyVars
<1>14. CASE StopHopper
  BY <1>14, EndPayoutType DEF StopHopper, TypeOK, Handling, serverVars, flagVars, inputVars, framVars, timerVars, historyVars
<1>15. CASE PrintCheck
  <2>1. queue' \in Seq(Events) /\ Len(queue') <= QueueLen
    BY <1>15, TailType DEF PrintCheck, Handling, TypeOK
  <2>2. credit' \in [Lines -> Nat]
    BY <1>15 DEF PrintCheck, Settled, Lines, TypeOK
  <2>3. ctr' \in [Counters -> Nat]
    <3>1. ctr["money"] + credit["money"] + credit["bank"] \in Nat
      BY DEF TypeOK, Lines, Counters
    <3>2. ctr' = [ctr EXCEPT !["money"] = @ + credit["money"] + credit["bank"]]
      BY <1>15 DEF PrintCheck
    <3> QED BY <3>1, <3>2 DEF TypeOK, Counters
  <2>4. /\ led_on' \in BOOLEAN /\ press_button' \in BOOLEAN
        /\ MoneyIn' \in BOOLEAN /\ accept' \in [Sources -> BOOLEAN]
    BY <1>15, AcceptType DEF PrintCheck, TypeOK
  <2> QED BY <1>15, <2>1, <2>2, <2>3, <2>4
          DEF PrintCheck, TypeOK, serverVars, inputVars, timerVars, historyVars
<1>16. CASE ErrorHopperOn
  BY <1>16, TailType DEF ErrorHopperOn, TypeOK, Handling, serverVars, flagVars, inputVars, framVars, timerVars, historyVars, HopperErrorEvent, ErrorFlags
<1>17. CASE ErrorHopperOff
  BY <1>17, TailType DEF ErrorHopperOff, TypeOK, Handling, serverVars, flagVars, inputVars, framVars, timerVars, historyVars, HopperErrorEvent, ErrorFlags
<1>18. CASE NomoneyHopperOn
  BY <1>18, TailType DEF NomoneyHopperOn, TypeOK, Handling, serverVars, flagVars, inputVars, framVars, timerVars, historyVars, HopperErrorEvent, ErrorFlags
<1>19. CASE NomoneyHopperOff
  BY <1>19, TailType DEF NomoneyHopperOff, TypeOK, Handling, serverVars, flagVars, inputVars, framVars, timerVars, historyVars, HopperErrorEvent, ErrorFlags
<1>20. CASE ClockTick
  BY <1>20, PostType DEF ClockTick, TypeOK, Handling, serverVars, flagVars, inputVars, framVars, timerVars, historyVars, PostEvent, Events
<1>21. CASE PressButton
  BY <1>21, PostType DEF PressButton, TypeOK, Handling, serverVars, flagVars, inputVars, framVars, timerVars, historyVars, PostEvent, Events
<1>22. CASE \E s \in {"coin", "bank"}, n \in Nat \ {0} : CountPulse(s, n)
  BY <1>22, TypeOK DEF CountPulse, Sources, TypeOK, PostEvent, Events, serverVars, flagVars, inputVars, framVars, timerVars, historyVars
<1>23. CASE \E s \in {"coin", "bank"}, e \in {"COIN_INSERTED", "BANK_INSERTED"} : ReportPulses(s, e)
  <2>1. queue' \in Seq(Events) /\ Len(queue') <= QueueLen
    BY <1>23, PostType DEF ReportPulses, PostEvent, Events, TypeOK
  <2>2. UNCHANGED <<serverVars, flagVars, accept, inputVars, errors, framVars,
                    timerVars, historyVars>>
    BY <1>23 DEF ReportPulses
  <2> QED BY <2>1, <2>2
          DEF TypeOK, serverVars, flagVars, inputVars, framVars, timerVars, historyVars
<1>24. CASE \E v \in Nominals : BillPacked(v)
  <2> PICK v \in Nominals : BillPacked(v)
    BY <1>24
  <2>1. queue' \in Seq(Events) /\ Len(queue') <= QueueLen
    BY PostType DEF BillPacked, PostEvent, Events, TypeOK
  <2>2. pend' \in [Sources -> Nat] /\ accept' \in [Sources -> BOOLEAN]
    <3>1. pend["bill"] + v \in Nat /\ accept' \in [Sources -> BOOLEAN]
      BY DEF BillPacked, Sources, TypeOK
    <3>2. pend' \in {[pend EXCEPT !["bill"] = @ + v], [pend EXCEPT !["bill"] = 0]}
      BY DEF BillPacked
    <3> QED BY <3>1, <3>2 DEF TypeOK, Sources
  <2> QED BY <2>1, <2>2
          DEF BillPacked, TypeOK, serverVars, flagVars, framVars, timerVars, historyVars
<1>25. CASE HopperPulse
  <2>1. queue' \in Seq(Events) /\ Len(queue') <= QueueLen
    BY <1>25, PostType DEF HopperPulse, PostEvent, Events, TypeOK
  <2> QED BY <1>25, <2>1
          DEF HopperPulse, TypeOK, serverVars, flagVars, framVars, timerVars
<1>26. CASE CreditTimer
  BY <1>26, TypeOK DEF CreditTimer, TypeOK, PostEvent, Events, serverVars, flagVars, inputVars, framVars, timerVars, historyVars
<1>27. CASE MotorTimer
  BY <1>27, TypeOK DEF MotorTimer, TypeOK, PostEvent, Events, serverVars, flagVars, inputVars, framVars, timerVars, historyVars
<1>28. CASE \E e \in {"ERROR_HOPPER_ON", "ERROR_HOPPER_OFF"} : HopperErrorSignal(e)
  <2> PICK e \in {"ERROR_HOPPER_ON", "ERROR_HOPPER_OFF"} : HopperErrorSignal(e)
    BY <1>28
  <2>1. queue' \in Seq(Events) /\ Len(queue') <= QueueLen
    BY PostType DEF HopperErrorSignal, PostEvent, Events, TypeOK
  <2>2. settling' \subseteq {"hopper", "nomoney"}
    BY DEF HopperErrorSignal, TypeOK
  <2> QED BY <2>1, <2>2
          DEF HopperErrorSignal, TypeOK, serverVars, flagVars, framVars, timerVars, historyVars
<1>29. CASE \E e \in {"NOMONEY_HOPPER_ON", "NOMONEY_HOPPER_OFF"} : NomoneySignal(e)
  BY <1>29, PostType DEF NomoneySignal, TypeOK, PostEvent, Events, serverVars, flagVars, inputVars, framVars, timerVars, historyVars
<1>30. CASE \E d \in {"fiscal", "validator"} : DeviceLost(d) \/ DeviceFound(d)
  <2> PICK d \in {"fiscal", "validator"} : DeviceLost(d) \/ DeviceFound(d)
    BY <1>30
  <2>1. errors' \subseteq ErrorFlags
    BY DEF DeviceLost, DeviceFound, ErrorFlags, TypeOK
  <2>2. accept' \in [Sources -> BOOLEAN]
    BY DEF DeviceLost, DeviceFound, Sources, TypeOK
  <2>3. UNCHANGED <<queue, serverVars, flagVars, inputVars, framVars, timerVars,
                    historyVars>>
    BY DEF DeviceLost, DeviceFound
  <2> QED BY <2>1, <2>2, <2>3
          DEF TypeOK, serverVars, flagVars, inputVars, framVars, timerVars, historyVars
<1>31. CASE PowerLoss
  <2>1. queue' \in Seq(Events) /\ Len(queue') <= QueueLen
    BY <1>31 DEF PowerLoss
  <2>2. accept' \in [Sources -> BOOLEAN] /\ pend' \in [Sources -> Nat]
    BY <1>31 DEF PowerLoss
  <2>3. losses' = losses + 1 /\ UNCHANGED <<framVars, tokens, forgiven>>
    BY <1>31 DEF PowerLoss
  <2>7. unsettled' \in Nat
    <3>1. /\ credit["money"] \in Nat /\ credit["bank"] \in Nat /\ unsettled \in Nat
          /\ given * HopperCost \in Nat
      BY DEF TypeOK, Lines
    <3>2. unsettled' \in {unsettled + given * HopperCost,
                          unsettled + (credit["money"] + credit["bank"]), unsettled + 0}
      BY <1>31 DEF PowerLoss
    <3> QED BY <3>1, <3>2
  <2>4. /\ pc' = "wait" /\ left' = 0 /\ CountCoin' = 0 /\ hopperOn' = FALSE
        /\ MoneyIn' = FALSE /\ led_on' = FALSE /\ press_button' = FALSE
        /\ was_critical_error' = FALSE /\ HopperImpCounter' = 0
        /\ event_nomoney_hopper' = FALSE /\ settling' = {} /\ errors' = {}
        /\ credit_expired' = FALSE /\ motor_expired' = FALSE /\ given' = 0
    BY <1>31 DEF PowerLoss
  <2>5. settling' \subseteq {"hopper", "nomoney"} /\ errors' \subseteq ErrorFlags
    BY <2>4
  <2>6. /\ credit' \in [Lines -> Nat] /\ AcceptedCoin' \in Nat
        /\ ctr' \in [Counters -> Nat]
        /\ tokens' \in Nat /\ forgiven' \in Nat /\ losses' \in Nat
    BY <2>3 DEF TypeOK, framVars
  <2> QED BY <2>1, <2>2, <2>4, <2>5, <2>6, <2>7, Zenon, NatZero DEF TypeOK
<1>32. CASE UNCHANGED vars
  BY <1>32, TypeOK DEF vars, TypeOK, PostEvent, Events, serverVars, flagVars, inputVars, framVars, timerVars, historyVars
<1> QED BY <1>1, <1>2, <1>3, <1>4, <1>5, <1>6, <1>7, <1>8, <1>9, <1>10, <1>11, <1>12, <1>13, <1>14, <1>15, <1>16, <1>17, <1>18, <1>19, <1>20, <1>21, <1>22, <1>23, <1>24, <1>25, <1>26, <1>27, <1>28, <1>29, <1>30, <1>31, <1>32 DEF Next, UserAppTask, Environment

(* The variables keep their types in every run.                            *)
THEOREM TypeCorrect == Spec => []TypeOK
<1>1. Init => TypeOK
  <2> SUFFICES ASSUME Init PROVE TypeOK
    OBVIOUS
  <2>1. queue \in Seq(Events) /\ Len(queue) <= QueueLen
    BY ConfigAssumption DEF Init
  <2>2. /\ accept \in [Sources -> BOOLEAN] /\ pend \in [Sources -> Nat]
        /\ credit \in [Lines -> Nat] /\ ctr \in [Counters -> Nat]
    BY DEF Init
  <2> QED BY <2>1, <2>2 DEF Init, TypeOK
<1>2. TypeOK /\ [Next]_vars => TypeOK'
  BY TypeStep
<1> QED BY <1>1, <1>2, PTL DEF Spec

-----------------------------------------------------------------------------
(* The books.  An action either leaves credit, counters and forgiven money  *)
(* alone, or moves the same amount on both sides.                          *)

bookVars == <<credit, ctr, forgiven>>

QuietStep ==
  \/ SecCritical \/ SecRecovered \/ KeyUserStart \/ GiveCoinRefused \/ GiveCoin
  \/ PulseToken \/ ExtractedMore \/ ExtractedAll
  \/ ErrorHopperOn \/ ErrorHopperOff \/ NomoneyHopperOn \/ NomoneyHopperOff
  \/ Environment

(* Only seven handlers of the server write the books.                      *)
LEMMA QuietBooks == QuietStep => UNCHANGED bookVars
<1> SUFFICES ASSUME QuietStep PROVE UNCHANGED bookVars
  OBVIOUS
<1> USE DEF bookVars, framVars, historyVars
<1>1. CASE SecCritical \/ SecRecovered \/ KeyUserStart
  BY <1>1 DEF SecCritical, SecRecovered, KeyUserStart
<1>2. CASE GiveCoinRefused \/ GiveCoin \/ PulseToken
  BY <1>2 DEF GiveCoinRefused, GiveCoin, PulseToken
<1>3. CASE ExtractedMore \/ ExtractedAll
  BY <1>3 DEF ExtractedMore, ExtractedAll
<1>4. CASE ErrorHopperOn \/ ErrorHopperOff \/ NomoneyHopperOn \/ NomoneyHopperOff
  BY <1>4 DEF ErrorHopperOn, ErrorHopperOff, NomoneyHopperOn, NomoneyHopperOff,
              HopperErrorEvent
<1>5. CASE Environment
  BY <1>5 DEF Environment, ClockTick, PressButton, CountPulse, ReportPulses,
              BillPacked, HopperPulse, CreditTimer, MotorTimer,
              HopperErrorSignal, NomoneySignal, DeviceLost, DeviceFound, PowerLoss
<1> QED BY <1>1, <1>2, <1>3, <1>4, <1>5 DEF QuietStep

(* Every step is quiet, one of those seven, or a stutter.                  *)
LEMMA StepKinds ==
  [Next]_vars =>
    \/ QuietStep \/ UNCHANGED vars
    \/ SecWork \/ CoinInserted \/ BankInserted \/ BillStacked
    \/ PulseEnd \/ StopHopper \/ PrintCheck
  BY DEF Next, UserAppTask, QuietStep

(* Fetched money is added once to the credit and once to the income.       *)
LEMMA CreditedOnce ==
  ASSUME TypeOK, NEW s \in Sources, NEW amount \in Nat,
         NEW line, NEW counters,
         \/ line = "money" /\ counters \in {{"coin", "allcash"}, {"cash", "allcash"}}
         \/ line = "bank" /\ counters = {"bank"},
         CreditMoney(s, amount, line, counters)
  PROVE  /\ credit'["money"] + credit'["bank"] = credit["money"] + credit["bank"] + amount
         /\ credit'["rest"] = credit["rest"]
         /\ ctr'["allcash"] + ctr'["bank"] = ctr["allcash"] + ctr["bank"] + amount
         /\ ctr'["money"] = ctr["money"]
         /\ ctr'["coinout"] = ctr["coinout"]
         /\ forgiven' = forgiven
<1>1. credit' = [credit EXCEPT ![line] = @ + amount]
  BY DEF CreditMoney
<1>2. ctr' = [c \in Counters |-> IF c \in counters THEN ctr[c] + amount ELSE ctr[c]]
  BY DEF CreditMoney
<1>3. credit \in [Lines -> Nat] /\ ctr \in [Counters -> Nat]
  BY DEF TypeOK
<1>4. /\ credit'["money"] + credit'["bank"] = credit["money"] + credit["bank"] + amount
      /\ credit'["rest"] = credit["rest"]
  BY <1>1, <1>3 DEF Lines
<1>5. /\ ctr'["allcash"] + ctr'["bank"] = ctr["allcash"] + ctr["bank"] + amount
      /\ ctr'["money"] = ctr["money"]
      /\ ctr'["coinout"] = ctr["coinout"]
  BY <1>2, <1>3 DEF Counters
<1> QED BY <1>4, <1>5 DEF CreditMoney, historyVars

(* The three handlers that take money credit what they fetched, or fetched  *)
(* nothing.                                                                *)
LEMMA Income ==
  ASSUME TypeOK, CoinInserted \/ BankInserted \/ BillStacked
  PROVE  \/ UNCHANGED bookVars
         \/ \E amount \in Nat :
              /\ credit'["money"] + credit'["bank"]
                   = credit["money"] + credit["bank"] + amount
              /\ credit'["rest"] = credit["rest"]
              /\ ctr'["allcash"] + ctr'["bank"] = ctr["allcash"] + ctr["bank"] + amount
              /\ ctr'["money"] = ctr["money"]
              /\ ctr'["coinout"] = ctr["coinout"]
              /\ forgiven' = forgiven
<1>1. CASE CoinInserted
  <2>1. CoinPerPulse * pend["coin"] \in Nat /\ "coin" \in Sources
    BY ConfigAssumption DEF TypeOK, Sources
  <2>2. \/ UNCHANGED bookVars
        \/ CreditMoney("coin", CoinPerPulse * pend["coin"], "money", {"coin", "allcash"})
    BY <1>1 DEF CoinInserted, MoneyByPulses, bookVars, framVars, historyVars
  <2> QED BY <2>1, <2>2, CreditedOnce
<1>2. CASE BankInserted
  <2>1. BankPerPulse * pend["bank"] \in Nat /\ "bank" \in Sources
    BY ConfigAssumption DEF TypeOK, Sources
  <2>2. \/ UNCHANGED bookVars
        \/ CreditMoney("bank", BankPerPulse * pend["bank"], "bank", {"bank"})
    BY <1>2 DEF BankInserted, MoneyByPulses, bookVars, framVars, historyVars
  <2> QED BY <2>1, <2>2, CreditedOnce
<1>3. CASE BillStacked
  <2>1. pend["bill"] \in Nat /\ "bill" \in Sources
    BY DEF TypeOK, Sources
  <2>2. CreditMoney("bill", pend["bill"], "money", {"cash", "allcash"})
    BY <1>3 DEF BillStacked
  <2> QED BY <2>1, <2>2, CreditedOnce
<1> QED BY <1>1, <1>2, <1>3

(* A payout moves what is left to the rest and counts its tokens.          *)
LEMMA PayoutBooks ==
  ASSUME TypeOK, PulseEnd \/ StopHopper
  PROVE  /\ credit'["money"] = credit["money"] /\ credit'["bank"] = credit["bank"]
         /\ credit'["rest"] = Rest(credit)
         /\ ctr'["allcash"] = ctr["allcash"] /\ ctr'["bank"] = ctr["bank"]
         /\ ctr'["money"] = ctr["money"]
         /\ ctr'["coinout"] = ctr["coinout"] + CountCoin
         /\ forgiven' = forgiven
<1>1. credit' = [credit EXCEPT !["rest"] = Rest(credit)]
  BY DEF PulseEnd, StopHopper, EndPayout
<1>2. ctr' = [ctr EXCEPT !["coinout"] = @ + CountCoin]
  BY DEF PulseEnd, StopHopper, EndPayout, CountedOut
<1>3. forgiven' = forgiven
  BY DEF PulseEnd, StopHopper, historyVars
<1>4. credit \in [Lines -> Nat] /\ ctr \in [Counters -> Nat]
  BY DEF TypeOK
<1> QED BY <1>1, <1>2, <1>3, <1>4 DEF Lines, Counters

(* The check counts the money and clears it.                               *)
LEMMA CheckBooks ==
  ASSUME TypeOK, PrintCheck
  PROVE  /\ credit'["money"] = 0 /\ credit'["bank"] = 0
         /\ credit'["rest"] = credit["rest"]
         /\ ctr'["allcash"] = ctr["allcash"] /\ ctr'["bank"] = ctr["bank"]
         /\ ctr'["money"] = ctr["money"] + credit["money"] + credit["bank"]
         /\ ctr'["coinout"] = ctr["coinout"]
         /\ forgiven' = forgiven
<1>1. credit' = [credit EXCEPT !["money"] = 0, !["bank"] = 0]
  BY DEF PrintCheck, Settled
<1>2. ctr' = [ctr EXCEPT !["money"] = @ + credit["money"] + credit["bank"]]
  BY DEF PrintCheck
<1>3. forgiven' = forgiven
  BY DEF PrintCheck, historyVars
<1>4. credit \in [Lines -> Nat] /\ ctr \in [Counters -> Nat]
  BY DEF TypeOK
<1> QED BY <1>1, <1>2, <1>3, <1>4 DEF Lines, Counters

(* A timeout of EVENT_SEC gives up exactly what it clears, and all of it.   *)
LEMMA ClockBooks ==
  ASSUME TypeOK, SecWork
  PROVE  /\ ctr' = ctr
         /\ \/ credit' = credit /\ forgiven' = forgiven
            \/ /\ credit'["money"] = 0 /\ credit'["bank"] = 0
               /\ forgiven' = forgiven + credit["money"] + credit["bank"]
         /\ credit'["rest"] \in {0, credit["rest"]}
         /\ credit'["money"] + credit'["bank"] + forgiven'
              = credit["money"] + credit["bank"] + forgiven
<1>1. credit \in [Lines -> Nat] /\ forgiven \in Nat
  BY DEF TypeOK
<1>2. \/ /\ credit' = [l \in Lines |-> 0]
         /\ forgiven' = forgiven + credit["money"] + credit["bank"]
      \/ /\ credit' = [credit EXCEPT !["money"] = 0, !["bank"] = 0]
         /\ forgiven' = forgiven + credit["money"] + credit["bank"]
      \/ credit' = credit /\ forgiven' = forgiven
  BY DEF SecWork, Settled
<1>3. ctr' = ctr
  BY DEF SecWork
<1> QED BY <1>1, <1>2, <1>3 DEF Lines

(* The books balance in every run, for every price, every setting, every    *)
(* length of the queue and every set of disturbances.                      *)
THEOREM BooksBalance == Spec => []MoneyLedger
<1>1. Init => MoneyLedger
  BY DEF Init, MoneyLedger, Lines, Counters
<1>2. TypeOK /\ MoneyLedger /\ [Next]_vars => MoneyLedger'
  <2> SUFFICES ASSUME TypeOK, MoneyLedger, [Next]_vars PROVE MoneyLedger'
    OBVIOUS
  <2>t. /\ credit["money"] \in Nat /\ credit["bank"] \in Nat
        /\ ctr["money"] \in Nat /\ forgiven \in Nat
    BY DEF TypeOK, Lines, Counters
  <2>1. CASE UNCHANGED bookVars
    BY <2>1 DEF MoneyLedger, bookVars
  <2>2. CASE CoinInserted \/ BankInserted \/ BillStacked
    BY <2>1, <2>2, <2>t, Income DEF MoneyLedger
  <2>3. CASE PulseEnd \/ StopHopper
    BY <2>3, PayoutBooks DEF MoneyLedger
  <2>4. CASE PrintCheck
    BY <2>4, <2>t, CheckBooks DEF MoneyLedger
  <2>5. CASE SecWork
    <3>1. TypeOK'
      BY TypeStep
    <3>2. /\ credit'["money"] \in Nat /\ credit'["bank"] \in Nat
          /\ forgiven' \in Nat
      BY <3>1 DEF TypeOK, Lines
    <3>3. ctr' = ctr
      BY <2>5, ClockBooks
    <3>4. credit'["money"] + credit'["bank"] + forgiven'
            = credit["money"] + credit["bank"] + forgiven
      BY <2>5, ClockBooks
    <3> QED BY <2>t, <3>2, <3>3, <3>4 DEF MoneyLedger
  <2>6. UNCHANGED vars => UNCHANGED bookVars
    BY DEF vars, bookVars, framVars, historyVars
  <2> QED BY <2>1, <2>2, <2>3, <2>4, <2>5, <2>6, StepKinds, QuietBooks
<1> QED BY <1>1, <1>2, TypeCorrect, PTL DEF Spec

(* The server implements Bookkeeping: every step accepts money, settles all *)
(* that waits, gives all of it up, or leaves the books alone.              *)
THEOREM ImplementsBookkeeping == Spec => BooksKept
<1>1. Init => Books!Init
  BY DEF Init, Books!Init, Lines, Counters
<1>2. TypeOK /\ [Next]_vars => [Books!Next]_(Books!books)
  <2> SUFFICES ASSUME TypeOK, [Next]_vars PROVE Books!Next \/ UNCHANGED Books!books
    OBVIOUS
  <2>t. /\ credit["money"] \in Nat /\ credit["bank"] \in Nat
        /\ ctr["money"] \in Nat /\ forgiven \in Nat
        /\ ctr["allcash"] \in Nat /\ ctr["bank"] \in Nat
    BY DEF TypeOK, Lines, Counters
  <2>1. CASE UNCHANGED bookVars
    BY <2>1 DEF bookVars, Books!books
  <2>2. CASE CoinInserted \/ BankInserted \/ BillStacked
    <3>1. SUFFICES ASSUME NEW amount \in Nat,
                     credit'["money"] + credit'["bank"] = credit["money"] + credit["bank"] + amount,
                     ctr'["allcash"] + ctr'["bank"] = ctr["allcash"] + ctr["bank"] + amount,
                     ctr'["money"] = ctr["money"], forgiven' = forgiven
                   PROVE  Books!Next \/ UNCHANGED Books!books
      BY <2>1, <2>2, Income
    <3>2. CASE amount = 0
      BY <2>t, <3>1, <3>2 DEF Books!books
    <3>3. CASE amount > 0
      BY <2>t, <3>1, <3>3 DEF Books!Next, Books!Accept
    <3> QED BY <3>2, <3>3
  <2>3. CASE PulseEnd \/ StopHopper
    BY <2>3, PayoutBooks DEF Books!books
  <2>4. CASE PrintCheck
    BY <2>4, <2>t, CheckBooks DEF Books!Next, Books!Settle, Books!books
  <2>5. CASE SecWork
    BY <2>5, <2>t, ClockBooks DEF Books!Next, Books!GiveUp, Books!books
  <2>6. UNCHANGED vars => UNCHANGED bookVars
    BY DEF vars, bookVars, framVars, historyVars
  <2> QED BY <2>1, <2>2, <2>3, <2>4, <2>5, <2>6, StepKinds, QuietBooks
<1> QED BY <1>1, <1>2, TypeCorrect, PTL DEF Spec, BooksKept, Books!Spec

-----------------------------------------------------------------------------
(* The payout.  A motor runs only in Cube, the pulse loop only in Elolution; *)
(* while the Elolution server waits it owes no tokens, and while it pulses  *)
(* the tokens given and owed are what the credit buys.  With that the two   *)
(* properties are kept by every step.                                      *)

RegimeInv ==
  /\ hopperOn => Cube
  /\ pc = "pulse" => ~Cube
  /\ pc = "runout" => Cube

ElolutionInv ==
  ~Cube =>
    /\ pc = "wait" => CountCoin = 0 /\ left = 0
    /\ pc = "pulse" => /\ given + left = CountCoin
                      /\ CountCoin = Total(credit) \div HopperCost
    /\ losses = 0 => tokens + left <= ctr["coinout"] + CountCoin

PayoutInv == RegimeInv /\ MotorHasGoal /\ ElolutionInv

PayoutVars == <<serverVars, tokens, given, losses>>

(* Steps that write no variable of the payout.                             *)
IdleStep ==
  \/ SecCritical \/ SecRecovered \/ CoinInserted \/ BankInserted \/ BillStacked
  \/ KeyUserStart \/ GiveCoinRefused \/ ExtractedMore \/ PrintCheck
  \/ ErrorHopperOn \/ ErrorHopperOff \/ NomoneyHopperOn \/ NomoneyHopperOff
  \/ ClockTick \/ PressButton
  \/ CountPulse("coin", CoinPerPulse) \/ CountPulse("bank", BankPerPulse)
  \/ ReportPulses("coin", "COIN_INSERTED") \/ ReportPulses("bank", "BANK_INSERTED")
  \/ \E v \in Nominals : BillPacked(v)
  \/ CreditTimer \/ MotorTimer
  \/ \E e \in {"ERROR_HOPPER_ON", "ERROR_HOPPER_OFF"} : HopperErrorSignal(e)
  \/ \E e \in {"NOMONEY_HOPPER_ON", "NOMONEY_HOPPER_OFF"} : NomoneySignal(e)
  \/ \E d \in {"fiscal", "validator"} : DeviceLost(d) \/ DeviceFound(d)
  \/ UNCHANGED vars

LEMMA IdlePayout ==
  ASSUME TypeOK, IdleStep
  PROVE  /\ UNCHANGED PayoutVars /\ ctr'["coinout"] = ctr["coinout"]
         /\ pc = "pulse" => credit' = credit
<1> USE DEF PayoutVars, serverVars, framVars, historyVars
<1>1. CASE CoinInserted \/ BankInserted \/ BillStacked
  <2>1. UNCHANGED PayoutVars /\ pc = "wait"
    BY <1>1 DEF CoinInserted, BankInserted, BillStacked, MoneyByPulses, CreditMoney, Handling
  <2> QED BY <1>1, <2>1, Income DEF bookVars
<1>2. CASE PrintCheck
  <2>1. UNCHANGED PayoutVars /\ pc = "wait"
    BY <1>2 DEF PrintCheck, Handling
  <2> QED BY <1>2, <2>1, CheckBooks
<1>3. CASE SecCritical \/ SecRecovered \/ KeyUserStart \/ GiveCoinRefused \/ ExtractedMore
  BY <1>3 DEF SecCritical, SecRecovered, KeyUserStart, GiveCoinRefused, ExtractedMore
<1>4. CASE ErrorHopperOn \/ ErrorHopperOff \/ NomoneyHopperOn \/ NomoneyHopperOff
  BY <1>4 DEF ErrorHopperOn, ErrorHopperOff, NomoneyHopperOn, NomoneyHopperOff,
              HopperErrorEvent
<1>5. CASE UNCHANGED vars
  BY <1>5 DEF vars
<1> QED BY <1>1, <1>2, <1>3, <1>4, <1>5
        DEF IdleStep, ClockTick, PressButton, CountPulse, ReportPulses, BillPacked,
            CreditTimer, MotorTimer, HopperErrorSignal, NomoneySignal,
            DeviceLost, DeviceFound

LEMMA PayoutStep ==
  ASSUME TypeOK, PayoutInv, [Next]_vars
  PROVE  PayoutInv'
<1> USE DEF PayoutInv, RegimeInv, MotorHasGoal, ElolutionInv
<1>t. /\ CountCoin \in Nat /\ left \in Nat /\ tokens \in Nat /\ losses \in Nat
      /\ given \in Nat /\ ctr["coinout"] \in Nat /\ Cube \in BOOLEAN
      /\ pc \in {"wait", "pulse", "runout"}
  BY ConfigAssumption DEF TypeOK, Counters
<1>1. CASE IdleStep
  <2>1. /\ UNCHANGED PayoutVars /\ ctr'["coinout"] = ctr["coinout"]
        /\ pc = "pulse" => Total(credit)' = Total(credit)
    BY <1>1, IdlePayout DEF Total
  <2> QED BY <2>1 DEF PayoutVars, serverVars
<1>2. CASE SecWork
  <2>1. /\ UNCHANGED <<pc, left, CountCoin, tokens, losses>> /\ pc = "wait"
        /\ ctr' = ctr
        /\ hopperOn' => hopperOn
    BY <1>2, ClockBooks DEF SecWork, Handling
  <2> QED BY <2>1
<1>3. CASE GiveCoin
  <2>1. /\ Total(credit) \div HopperCost \in Nat
        /\ Total(credit) \div HopperCost > 0
    BY <1>3, PayoutArithmetic DEF GiveCoin, PriceMet, TypeOK
  <2>2. /\ UNCHANGED <<tokens, losses, ctr>> /\ pc = "wait" /\ given' = 0
        /\ CountCoin' = Total(credit) \div HopperCost /\ Total(credit)' = Total(credit)
    BY <1>3 DEF GiveCoin, Handling, framVars, Total
  <2>3. CASE Cube
    BY <1>3, <1>t, <2>1, <2>2, <2>3 DEF GiveCoin
  <2>4. CASE ~Cube
    BY <1>3, <1>t, <2>1, <2>2, <2>4 DEF GiveCoin
  <2> QED BY <2>3, <2>4
<1>4. CASE PulseToken
  <2>1. /\ pc = "pulse" /\ UNCHANGED <<pc, CountCoin, hopperOn, losses, ctr>>
        /\ left' = left - 1 /\ tokens' = tokens + 1 /\ given' = given + 1 /\ left > 0
        /\ Total(credit)' = Total(credit)
    BY <1>4 DEF PulseToken, framVars, Total
  <2> QED BY <1>t, <2>1
<1>5. CASE PulseEnd
  BY <1>5, <1>t, PayoutBooks DEF PulseEnd, EndPayout, historyVars
<1>6. CASE ExtractedAll
  BY <1>6, <1>t DEF ExtractedAll, framVars, historyVars
<1>7. CASE StopHopper
  BY <1>7, <1>t, PayoutBooks DEF StopHopper, EndPayout, historyVars
<1>8. CASE HopperPulse
  BY <1>8, <1>t DEF HopperPulse, serverVars, framVars, Total
<1>9. CASE PowerLoss
  BY <1>9, <1>t DEF PowerLoss
<1> QED BY <1>1, <1>2, <1>3, <1>4, <1>5, <1>6, <1>7, <1>8, <1>9
        DEF Next, UserAppTask, Environment, IdleStep

LEMMA PayoutInvariant == Spec => []PayoutInv
<1>1. Init => PayoutInv
  BY DEF Init, PayoutInv, RegimeInv, MotorHasGoal, ElolutionInv, Counters
<1>2. TypeOK /\ PayoutInv /\ [Next]_vars => PayoutInv'
  BY PayoutStep
<1> QED BY <1>1, <1>2, TypeCorrect, PTL DEF Spec

(* The motor never runs without a number of tokens to stop at.             *)
THEOREM MotorStopsSomewhere == Spec => []MotorHasGoal
<1>1. PayoutInv => MotorHasGoal
  BY DEF PayoutInv
<1> QED BY <1>1, PayoutInvariant, PTL

(* No token leaves the Elolution hopper uncounted while power stays on.    *)
THEOREM TokensCounted == Spec => []CoinOutCoversTokens
<1>1. PayoutInv => CoinOutCoversTokens
  BY DEF PayoutInv, ElolutionInv, CoinOutCoversTokens
<1> QED BY <1>1, PayoutInvariant, PTL

=============================================================================
