------------------------ MODULE FiscalRegisterProofs ------------------------
(***************************************************************************)
(* Proofs about FiscalRegister for every capacity of the register and every *)
(* number of payments and faults.                                          *)
(***************************************************************************)
EXTENDS FiscalRegister, TLAPS

Answers == {"ok"} \cup Failures

Errs == Codes \cup {"zero"}

CheckPlaces == {"poll", "status", "continue", "zreport", "tobuf", "frombuf", "openday"}

(* The program is at c or will be when CheckFiscalStatus returns.           *)
At(c) == \/ pc = c
         \/ pc \in CheckPlaces /\ ret = c

(* Between FPend and FPost.                                                *)
Inside == \E c \in {"open", "sell", "close", "cancel", "report", "connect",
                    "connstatus", "unlock"} : At(c)

(* The lock is taken exactly then.                                         *)
LockInv == (lock = 0) <=> Inside

(* Each place belongs to one kind of job, and only the end of a job has a   *)
(* result.                                                                 *)
JobInv ==
  /\ \A c \in {"open", "sell", "close"} : At(c) => job \in Bills
  /\ At("cancel") => job = "cancel"
  /\ pc = "report" => job = "report"
  /\ pc \in {"connect", "connstatus"} => job = "connect"
  /\ res => pc = "unlock"

(* How far the bill of the payment is: a sale reaches the closing of the    *)
(* bill only when no command of the bill has failed, and a bill that was    *)
(* closed leaves the register without an open document.                    *)
BillInv ==
  /\ At("open") => closedNow = 0
  /\ At("sell") => closedNow = 0 /\ (~repeat => reg.mode = "doc" /\ reg.sales = 0)
  /\ At("close") => \/ closedNow = 0 /\ reg.mode = "doc" /\ reg.sales = 1
                    \/ closedNow = 1 /\ reg.mode # "doc"
  /\ OneBillOneSale
  /\ RecordMeansBill

IInv == TypeOK /\ LockInv /\ JobInv /\ BillInv

-----------------------------------------------------------------------------
(* What the driver and SetFiscalErrorByCode make of an answer.              *)
LEMMA CodesKept ==
  /\ \A old \in Errs : \A a \in Answers : ErrAfter(old, a) \in Errs
  /\ errors \subseteq Flags => \A code \in Errs : SetFiscalErrorByCode(code) \subseteq Flags
  /\ Garbled \subseteq Answers /\ Codes \subseteq Answers /\ "ok" \in Answers
  /\ Failures \subseteq Answers /\ Codes \subseteq Errs /\ "code" \in Errs
<1>1. \A old \in Errs : \A a \in Answers : ErrAfter(old, a) \in Errs
  BY DEF ErrAfter, Errs, Answers, Failures, Garbled, Codes
<1>2. errors \subseteq Flags => \A code \in Errs : SetFiscalErrorByCode(code) \subseteq Flags
  BY DEF SetFiscalErrorByCode, Flags
<1>3. QED BY <1>1, <1>2 DEF Answers, Failures, Garbled, Codes, Errs

(* What an exchange other than the closing of a bill leaves alone.          *)
LEMMA ExchangeOther ==
  ASSUME TypeOK, NEW cmd \in Commands, NEW a \in Answers, Exchange(cmd, a)
  PROVE  /\ reg' \in Registers
         /\ faults' \in 0..MaxFaults
         /\ closedNow' \in Nat /\ closed' \subseteq Nat
         /\ cmd # "close" => closedNow' = closedNow /\ closed' = closed
         /\ cmd \notin {"open", "sell", "close", "cancel"} =>
              /\ reg'.mode = "doc" <=> reg.mode = "doc"
              /\ reg'.sales = reg.sales
<1>1. MaxFaults \in Nat /\ MaxSales \in Nat
  BY BoundAssumption
<1>2. CASE UNCHANGED <<reg, closedNow, closed>>
  BY <1>1, <1>2 DEF TypeOK, Exchange
<1>3. CASE Accepts(cmd) /\ Obeys(cmd)
  <2>1. faults' \in 0..MaxFaults
    BY <1>1 DEF TypeOK, Registers, Exchange
  <2>2. /\ closedNow' \in Nat /\ closed' \subseteq Nat
        /\ cmd # "close" => closedNow' = closedNow /\ closed' = closed
    <3>1. reg.sales \in Nat
      BY <1>1 DEF TypeOK, Registers
    <3>2. CASE cmd = "close"
      <4>1. closedNow \in Nat /\ closed \subseteq Nat
        BY DEF TypeOK
      <4>2. closedNow' = closedNow + 1 /\ closed' = closed \cup {reg.sales}
        BY <1>3, <3>2 DEF Obeys
      <4>3. closedNow' \in Nat
        BY <4>1, <4>2
      <4>4. closed' \subseteq Nat
        BY <3>1, <4>1, <4>2, Zenon
      <4>5. QED BY <3>2, <4>3, <4>4
    <3>3. CASE cmd # "close"
      BY <1>3, <3>3 DEF Obeys, TypeOK
    <3>4. QED BY <3>2, <3>3
  <2>3. reg' = After(cmd) /\ reg \in Registers
    BY <1>3 DEF Obeys, TypeOK
  <2>4. CASE cmd = "open"
    <3>1. reg' = [reg EXCEPT !.mode = "doc", !.sales = 0]
      BY <2>3, <2>4 DEF After
    <3>2. 0 \in 0..MaxSales
      BY <1>1
    <3>3. reg' \in Registers
      BY <2>3, <3>1, <3>2 DEF Registers
    <3>4. QED BY <2>1, <2>2, <2>4, <3>3
  <2>5. CASE cmd = "sell"
    <3>1. Accepts("sell")
      BY <1>3, <2>5
    <3>2. reg.sales < MaxSales
      BY <3>1, Zenon DEF Accepts
    <3>3. reg.sales \in 0..MaxSales
      BY <2>3 DEF Registers
    <3>4. reg.sales + 1 \in 0..MaxSales
      BY <1>1, <3>2, <3>3
    <3>5. QED BY <2>1, <2>2, <2>3, <2>5, <3>3, <3>4 DEF After, Registers
  <2>6. CASE cmd \in {"close", "cancel"}
    <3>1. reg' = [reg EXCEPT !.mode = "shift", !.sales = 0, !.busy = TRUE]
      BY <2>3, <2>6 DEF After
    <3>2. 0 \in 0..MaxSales
      BY <1>1
    <3>3. reg' \in Registers
      BY <2>3, <3>1, <3>2 DEF Registers
    <3>4. QED BY <2>1, <2>2, <2>6, <3>3
  <2>7. CASE cmd = "frombuf"
    BY <2>1, <2>2, <2>3, <2>7 DEF After, Registers
  <2>8. CASE cmd \in {"zreport", "tobuf", "openday"}
    <3>1. reg.mode # "doc"
      BY <1>3, <2>8 DEF Accepts
    <3>2. CASE cmd = "zreport"
      BY <2>1, <2>2, <2>3, <3>1, <3>2 DEF After, Registers
    <3>3. CASE cmd = "tobuf"
      BY <2>1, <2>2, <2>3, <3>1, <3>3 DEF After, Registers
    <3>4. CASE cmd = "openday"
      BY <2>1, <2>2, <2>3, <3>1, <3>4 DEF After, Registers
    <3>5. QED BY <2>8, <3>2, <3>3, <3>4
  <2>9. CASE cmd = "continue"
    BY <2>1, <2>2, <2>3, <2>9 DEF After, Registers
  <2>10. CASE cmd \in {"report", "status"}
    BY <2>1, <2>2, <2>3, <2>10 DEF After, Registers
  <2>11. QED
    BY <2>4, <2>5, <2>6, <2>7, <2>8, <2>9, <2>10 DEF Commands
<1>4. QED BY <1>2, <1>3 DEF Exchange

(* What a step of CheckFiscalStatus leaves alone, and where it leads.       *)
LEMMA CheckStep ==
  ASSUME TypeOK, CheckFiscalStatus
  PROVE  /\ InCheck
         /\ pc \in CheckPlaces
         /\ pc' \in CheckPlaces \/ pc' = ret \/ (pc' = "unlock" /\ ret # "idle")
         /\ FiscalConnState' \in BOOLEAN /\ errors' \subseteq Flags
         /\ reg' \in Registers /\ faults' \in 0..MaxFaults
         /\ closedNow' = closedNow /\ closed' = closed
         /\ reg'.mode = "doc" <=> reg.mode = "doc"
         /\ reg'.sales = reg.sales
<1>1. MaxFaults \in Nat /\ MaxSales \in Nat
  BY BoundAssumption
<1> DEFINE Stays == /\ reg' \in Registers /\ faults' \in 0..MaxFaults
                    /\ closedNow' = closedNow /\ closed' = closed
                    /\ reg'.mode = "doc" <=> reg.mode = "doc"
                    /\ reg'.sales = reg.sales
           Leads == pc' \in CheckPlaces \/ pc' = ret \/ (pc' = "unlock" /\ ret # "idle")
           Typed == FiscalConnState' \in BOOLEAN /\ errors' \subseteq Flags
<1>2. ASSUME NEW cmd \in {"status", "continue", "zreport", "tobuf", "frombuf", "openday"},
             NEW a \in Answers, Exchange(cmd, a)
      PROVE  Stays
  <2>1. cmd \in Commands /\ cmd \notin {"open", "sell", "close", "cancel"}
    BY <1>2 DEF Commands
  <2>2. QED BY <1>2, <2>1, ExchangeOther
<1>3. ReturnsNegative \/ Returns0 \/ CheckExit => Leads
  BY DEF ReturnsNegative, Returns0, CheckExit
<1>4. ASSUME UNCHANGED <<reg, closedNow, closed>>,
             faults' = faults \/ (faults < MaxFaults /\ faults' = faults + 1)
      PROVE  Stays
  BY <1>1, <1>4 DEF TypeOK
<1>5. CASE PollReady
  BY <1>4, <1>5 DEF PollReady, InCheck, NoExchange, flagVars, TypeOK, CheckPlaces
<1>6. CASE PollTimeout
  BY <1>3, <1>4, <1>6 DEF PollTimeout, InCheck, NoExchange, flagVars, TypeOK, CheckPlaces
<1>7. CASE PollLost
  BY <1>3, <1>4, <1>7 DEF PollLost, InCheck, TypeOK, CheckPlaces, Flags
<1>8. CASE StatusFails
  <2>1. Stays
    <3>1. \E a \in Answers : Exchange("status", a)
      BY <1>8, CodesKept DEF StatusFails
    <3>2. QED BY <1>2, <3>1
  <2>2. Typed
    <3>1. CASE Disconnected(errors)
      BY <3>1 DEF Disconnected, ClearFiscalErrors, TypeOK, Flags
    <3>2. CASE Connected /\ \E code \in Codes : errors' = SetFiscalErrorByCode(code) \ {"conn"}
      BY <3>2, CodesKept DEF Connected, TypeOK
    <3>3. QED BY <1>8, <3>1, <3>2 DEF StatusFails
  <2>3. QED BY <1>3, <1>8, <2>1, <2>2 DEF StatusFails, CheckPlaces
<1>9. CASE StatusPaper
  <2>1. Stays
    BY <1>4, <1>9 DEF StatusPaper, NoExchange
  <2>2. Typed
    BY <1>9 DEF StatusPaper, Connected, TypeOK, Flags
  <2>3. QED BY <1>3, <1>9, <2>1, <2>2 DEF StatusPaper, CheckPlaces
<1>10. CASE PrintContinue
  <2>1. Stays
    BY <1>2, <1>10 DEF PrintContinue, Answers
  <2>2. QED BY <1>3, <1>10, <2>1 DEF PrintContinue, CheckPlaces, flagVars, TypeOK
<1>11. CASE StatusMode
  <2>1. Stays
    BY <1>4, <1>11 DEF StatusMode, NoExchange
  <2>2. reg.mode \in {"shift", "expired", "closed", "doc"} /\ settings.autoclose \in 0..2
    BY SettingsAssumption DEF TypeOK, Registers, AllSettings
  <2>3. Typed /\ Leads
    BY <1>3, <1>11, <2>2 DEF StatusMode, Connected, TypeOK, Flags, CheckPlaces
  <2>4. QED BY <1>11, <2>1, <2>3 DEF StatusMode, CheckPlaces
<1>12. CASE CloseDay
  <2>1. Stays
    <3>1. pc \in {"zreport", "tobuf"} /\ \E a \in Answers : Exchange(pc, a)
      BY <1>12, CodesKept DEF CloseDay
    <3>2. QED BY <1>2, <3>1
  <2>2. Typed
    <3>1. errors' = errors \/ \E code \in Codes : errors' = SetFiscalErrorByCode(code)
      BY <1>12 DEF CloseDay
    <3>2. QED BY <1>12, <3>1, CodesKept DEF CloseDay, TypeOK
  <2>3. QED BY <1>3, <1>12, <2>1, <2>2 DEF CloseDay, CheckPlaces
<1>13. CASE ReportsFromBuf
  <2>1. Stays
    BY <1>2, <1>13 DEF ReportsFromBuf, Answers
  <2>2. Typed
    <3>1. \E a \in Answers : errors' = SetFiscalErrorByCode(ErrAfter("code", a))
      BY <1>13 DEF ReportsFromBuf, Answers
    <3>2. QED BY <1>13, <3>1, CodesKept DEF ReportsFromBuf, TypeOK
  <2>3. QED BY <1>3, <1>13, <2>1, <2>2 DEF ReportsFromBuf, CheckPlaces
<1>14. CASE OpenDay
  <2>1. Stays
    <3>1. \E a \in Answers : Exchange("openday", a)
      BY <1>14, CodesKept DEF OpenDay
    <3>2. QED BY <1>2, <3>1
  <2>2. Typed
    <3>1. CASE Disconnected(errors) \/ errors' = ClearFiscalErrors(errors)
      BY <1>14, <3>1 DEF OpenDay, Disconnected, ClearFiscalErrors, TypeOK, Flags
    <3>2. CASE \E code \in Codes : errors' = SetFiscalErrorByCode(code)
      BY <1>14, <3>2, CodesKept DEF OpenDay, Disconnected, TypeOK
    <3>3. QED BY <1>14, <3>1, <3>2 DEF OpenDay
  <2>3. QED BY <1>3, <1>14, <2>1, <2>2 DEF OpenDay, CheckPlaces
<1>15. QED
  BY <1>5, <1>6, <1>7, <1>8, <1>9, <1>10, <1>11, <1>12, <1>13, <1>14 DEF CheckFiscalStatus

-----------------------------------------------------------------------------
LEMMA FailsTyped ==
  ASSUME TypeOK, NEW cmd \in {"open", "sell", "close"}, Fails(cmd)
  PROVE  /\ \E a \in Answers : Exchange(cmd, a)
         /\ err' \in Errs
         /\ FiscalConnState' \in BOOLEAN /\ errors' \subseteq Flags
<1>1. PICK a \in Failures : Exchange(cmd, a) /\ err' = ErrAfter(err, a)
  BY DEF Fails
<1>2. a \in Answers /\ err' \in Errs
  BY <1>1, CodesKept DEF TypeOK, Errs
<1>3. CASE Disconnected(errors)
  BY <1>1, <1>2, <1>3 DEF Disconnected, ClearFiscalErrors, Flags
<1>4. CASE errors' = SetFiscalErrorByCode(err') /\ UNCHANGED FiscalConnState
  BY <1>1, <1>2, <1>4, CodesKept DEF TypeOK
<1>5. QED BY <1>3, <1>4 DEF Fails, Refusal

(* A command of a bill: what it does to the register and where it leads.    *)
LEMMA BillCommand ==
  ASSUME TypeOK, NEW cmd \in {"open", "sell", "close"},
         NextCommand(cmd) \/ AgainAfterAnswer(cmd) \/ AgainAfterFailure(cmd) \/ GiveUp(cmd)
  PROVE  /\ \E a \in Answers : Exchange(cmd, a)
         /\ reg' \in Registers /\ faults' \in 0..MaxFaults
         /\ closedNow' \in Nat /\ closed' \subseteq Nat
         /\ FiscalConnState' \in BOOLEAN /\ errors' \subseteq Flags
         /\ repeat' \in BOOLEAN /\ err' \in Errs
         /\ \/ pc' = "poll" /\ ret' = cmd /\ res' = res
            \/ pc' = "unlock" /\ ret' = ret /\ res' = res
            \/ pc' = Following(cmd) /\ ret' = ret /\ res' = (cmd = "close")
<1>1. \E a \in Answers : Exchange(cmd, a)
  BY FailsTyped, CodesKept DEF NextCommand, AgainAfterAnswer, AgainAfterFailure, GiveUp
<1>2. /\ reg' \in Registers /\ faults' \in 0..MaxFaults
      /\ closedNow' \in Nat /\ closed' \subseteq Nat
  BY <1>1, ExchangeOther DEF Commands
<1>3. CASE NextCommand(cmd)
  BY <1>1, <1>2, <1>3 DEF NextCommand, flagVars, TypeOK, Errs
<1>4. CASE AgainAfterAnswer(cmd)
  BY <1>1, <1>2, <1>4 DEF AgainAfterAnswer, CheckThen, flagVars, TypeOK, Errs
<1>5. CASE AgainAfterFailure(cmd)
  <2>1. repeat' = TRUE /\ res' = res /\ pc' = "poll" /\ ret' = cmd
    BY <1>5 DEF AgainAfterFailure, CheckThen
  <2>2. err' \in Errs /\ FiscalConnState' \in BOOLEAN /\ errors' \subseteq Flags
    BY <1>5, FailsTyped DEF AgainAfterFailure
  <2>3. QED BY <1>1, <1>2, <2>1, <2>2
<1>6. CASE GiveUp(cmd)
  <2>1. repeat' = repeat /\ res' = res /\ pc' = "unlock" /\ ret' = ret
    BY <1>6 DEF GiveUp
  <2>2. err' \in Errs /\ FiscalConnState' \in BOOLEAN /\ errors' \subseteq Flags
    BY <1>6, FailsTyped DEF GiveUp
  <2>3. QED BY <1>1, <1>2, <2>1, <2>2 DEF TypeOK
<1>7. QED BY <1>3, <1>4, <1>5, <1>6

(* Types: only FPost needs more, that the lock is taken when it comes.      *)
LEMMA TypeStep ==
  ASSUME TypeOK, LockInv, Next
  PROVE  TypeOK'
<1>1. MaxFaults \in Nat /\ MaxSales \in Nat /\ MaxPayments \in Nat
  BY BoundAssumption
<1>2. CASE CheckFiscalStatus
  BY <1>2, CheckStep DEF InCheck, TypeOK, Places, Commands, CheckPlaces
<1>3. CASE PrintFiscalBill
  <2>1. CASE CloseOnlineWithoutExt
    BY <1>3, <2>1 DEF PrintFiscalBill, CloseOnlineWithoutExt, NoExchange, flagVars, TypeOK,
       Places
  <2>2. CASE ~CloseOnlineWithoutExt
    <3>1. /\ pc \in {"open", "sell", "close"}
          /\ NextCommand(pc) \/ AgainAfterAnswer(pc) \/ AgainAfterFailure(pc) \/ GiveUp(pc)
          /\ UNCHANGED <<settings, job, lock, owed, payments>>
      BY <1>3, <2>2 DEF PrintFiscalBill
    <3>2. /\ reg' \in Registers /\ faults' \in 0..MaxFaults
          /\ closedNow' \in Nat /\ closed' \subseteq Nat
          /\ FiscalConnState' \in BOOLEAN /\ errors' \subseteq Flags
          /\ repeat' \in BOOLEAN /\ err' \in Errs
          /\ \/ pc' = "poll" /\ ret' = pc /\ res' = res
             \/ pc' = "unlock" /\ ret' = ret /\ res' = res
             \/ pc' = Following(pc) /\ ret' = ret /\ res' = (pc = "close")
      BY <3>1, BillCommand
    <3>3. pc' \in Places /\ res' \in BOOLEAN /\ ret' \in {"idle", "open", "sell", "close", "cancel"}
      BY <3>1, <3>2 DEF Following, TypeOK, Places, Commands
    <3>4. QED BY <3>1, <3>2, <3>3 DEF TypeOK, Errs
  <2>3. QED BY <2>1, <2>2
<1>4. CASE ConnectFiscalFast
  BY <1>4 DEF ConnectFiscalFast, Start, FPend, flagVars, historyVars, TypeOK, Jobs, Places
<1>5. CASE ConnectPolls
  <2>1. faults' \in 0..MaxFaults
    BY <1>1, <1>5 DEF ConnectPolls, TypeOK
  <2>2. FiscalConnState' \in BOOLEAN /\ errors' \subseteq Flags /\ pc' \in Places
    BY <1>5 DEF ConnectPolls, flagVars, TypeOK, Flags, Places
  <2>3. QED BY <1>5, <2>1, <2>2 DEF ConnectPolls, TypeOK
<1>6. CASE ConnectStatus
  <2>1. /\ reg' \in Registers /\ faults' \in 0..MaxFaults
        /\ closedNow' \in Nat /\ closed' \subseteq Nat
    <3>1. \E a \in Answers : Exchange("status", a)
      BY <1>6, CodesKept DEF ConnectStatus
    <3>2. QED BY <3>1, ExchangeOther DEF Commands
  <2>2. FiscalConnState' \in BOOLEAN /\ errors' \subseteq Flags /\ res' \in BOOLEAN
    <3>1. CASE errors' = errors \ {"conn"} /\ Connected /\ res' = TRUE
      BY <3>1 DEF Connected, TypeOK
    <3>2. CASE /\ \E code \in Codes : errors' = SetFiscalErrorByCode(code) \ {"conn"}
               /\ Connected /\ res' = TRUE
      BY <3>2, CodesKept DEF Connected, TypeOK
    <3>3. CASE Disconnected(errors) /\ UNCHANGED res
      BY <3>3 DEF Disconnected, ClearFiscalErrors, TypeOK, Flags
    <3>4. QED BY <1>6, <3>1, <3>2, <3>3 DEF ConnectStatus
  <2>3. QED BY <1>6, <2>1, <2>2 DEF ConnectStatus, TypeOK, Places
<1>7. CASE PrintCheck
  BY <1>7 DEF PrintCheck, flagVars, historyVars, TypeOK, Places
<1>8. CASE NextBill
  <2>1. /\ owed' \subseteq owed /\ closedNow' \in {0, closedNow}
        /\ UNCHANGED <<settings, flagVars, reg, closed, payments, faults, repeat, res>>
        /\ job' \in Bills \cup {job} /\ ret' \in {ret, "open"} /\ pc' \in {pc, "idle", "poll"}
        /\ err' \in Errs /\ lock' \in {0, lock}
    BY <1>8 DEF NextBill, Start, FPend, callVars, TypeOK, Bills, Errs
  <2>2. job' \in Jobs /\ pc' \in Places /\ lock' \in {0, 1} /\ closedNow' \in Nat
    BY <2>1 DEF TypeOK, Jobs, Places
  <2>3. QED BY <2>1, <2>2 DEF flagVars, TypeOK, Errs
<1>9. CASE CanselBill
  <2>1. PICK a \in Answers : Exchange("cancel", a) /\ res' = (a = "ok")
    BY <1>9 DEF CanselBill, Answers
  <2>2. /\ reg' \in Registers /\ faults' \in 0..MaxFaults
        /\ closedNow' \in Nat /\ closed' \subseteq Nat
    BY <2>1, ExchangeOther DEF Commands
  <2>3. QED BY <1>9, <2>1, <2>2 DEF CanselBill, flagVars, TypeOK, Places
<1>10. CASE PrintDayReportClear
  <2>1. PICK a \in Answers : Exchange("zreport", a) /\ err' = ErrAfter(err, a)
    BY <1>10 DEF PrintDayReportClear, Answers
  <2>2. /\ reg' \in Registers /\ faults' \in 0..MaxFaults
        /\ closedNow' \in Nat /\ closed' \subseteq Nat
    BY <2>1, ExchangeOther DEF Commands
  <2>3. err' \in Errs
    BY <2>1, CodesKept DEF TypeOK, Errs
  <2>4. errors' \subseteq Flags
    BY <1>10, <2>3, CodesKept DEF PrintDayReportClear, TypeOK
  <2>5. QED BY <1>10, <2>2, <2>3, <2>4 DEF PrintDayReportClear, TypeOK, Places, Errs
<1>11. CASE Unlock
  <2>1. lock = 0
    BY <1>11 DEF Unlock, LockInv, Inside, At
  <2>2. lock' = 1
    BY <1>11, <2>1 DEF Unlock, FPost
  <2>3. QED BY <1>11, <2>2 DEF Unlock, CheckThen, flagVars, historyVars, TypeOK, Places, Jobs
<1>12. CASE CheckBeforePayout
  BY <1>12 DEF CheckBeforePayout, CheckThen, flagVars, historyVars, TypeOK, Places, Jobs
<1>13. CASE CanselFiscalBill
  BY <1>13 DEF CanselFiscalBill, Start, FPend, flagVars, historyVars, TypeOK, Places, Jobs
<1>14. CASE DayReport
  BY <1>14 DEF DayReport, Start, FPend, flagVars, historyVars, TypeOK, Places, Commands, Jobs, Errs
<1>15. CASE Environment
  <2>1. CASE \E bills \in SUBSET Bills \ {{}} : Pay(bills)
    BY <1>1, <2>1 DEF Pay, Outside, callVars, flagVars, TypeOK
  <2>2. CASE Printed
    BY <2>2 DEF Printed, Outside, callVars, flagVars, TypeOK, Registers
  <2>3. CASE PowerSwitch
    <3>1. reg' \in Registers
      BY <2>3 DEF PowerSwitch, TypeOK, Registers
    <3>2. faults' \in 0..MaxFaults
      BY <1>1, <2>3 DEF PowerSwitch, TypeOK
    <3>3. QED BY <2>3, <3>1, <3>2 DEF PowerSwitch, Outside, callVars, flagVars, TypeOK
  <2>4. CASE PaperOut
    BY <1>1, <2>4 DEF PaperOut, Outside, callVars, flagVars, TypeOK, Registers
  <2>5. CASE PaperIn
    BY <2>5 DEF PaperIn, Outside, callVars, flagVars, TypeOK, Registers
  <2>6. CASE DayPasses
    BY <1>1, <2>6 DEF DayPasses, Outside, callVars, flagVars, TypeOK, Registers
  <2>7. QED
    BY <1>15, <2>1, <2>2, <2>3, <2>4, <2>5, <2>6 DEF Environment
<1>16. QED
  BY <1>2, <1>3, <1>4, <1>5, <1>6, <1>7, <1>8, <1>9, <1>10, <1>11, <1>12, <1>13, <1>14, <1>15
  DEF Next, Server, Operator

(* The lock goes with the place.                                           *)
LEMMA LockStep ==
  ASSUME TypeOK, LockInv, Next
  PROVE  LockInv'
<1>1. CASE CheckFiscalStatus
  <2>1. /\ pc \in CheckPlaces /\ ret' = ret /\ lock' = lock
        /\ ret \in {"idle", "open", "sell", "close", "cancel"}
        /\ pc' \in CheckPlaces \/ pc' = ret \/ (pc' = "unlock" /\ ret # "idle")
    BY <1>1, CheckStep DEF InCheck, TypeOK
  <2>2. QED BY <2>1 DEF LockInv, Inside, At, CheckPlaces
<1>2. CASE PrintFiscalBill
  <2>1. /\ pc \in {"open", "sell", "close"} /\ lock' = lock
        /\ \/ pc' = "poll" /\ ret' = pc
           \/ pc' \in {"sell", "close", "unlock"}
    <3>1. CASE CloseOnlineWithoutExt
      BY <1>2, <3>1 DEF PrintFiscalBill, CloseOnlineWithoutExt
    <3>2. CASE ~CloseOnlineWithoutExt
      <4>1. /\ pc \in {"open", "sell", "close"} /\ lock' = lock
            /\ NextCommand(pc) \/ AgainAfterAnswer(pc) \/ AgainAfterFailure(pc) \/ GiveUp(pc)
        BY <1>2, <3>2 DEF PrintFiscalBill
      <4>2. \/ pc' = "poll" /\ ret' = pc
            \/ pc' = "unlock"
            \/ pc' = Following(pc)
        BY <4>1, BillCommand
      <4>3. QED BY <4>1, <4>2 DEF Following
    <3>3. QED BY <3>1, <3>2
  <2>2. QED BY <2>1 DEF LockInv, Inside, At, CheckPlaces
<1>3. CASE ConnectFiscalFast \/ CanselFiscalBill \/ DayReport
  <2>1. lock' = 0 /\ (pc' \in {"connect", "report"} \/ (pc' = "poll" /\ ret' = "cancel"))
    BY <1>3 DEF ConnectFiscalFast, CanselFiscalBill, DayReport, Start, FPend
  <2>2. QED BY <2>1 DEF LockInv, Inside, At, CheckPlaces
<1>4. CASE ConnectPolls \/ ConnectStatus \/ CanselBill \/ PrintDayReportClear
  <2>1. /\ pc \in {"connect", "connstatus", "cancel", "report"} /\ lock' = lock
        /\ pc' \in {"connstatus", "unlock"}
    BY <1>4 DEF ConnectPolls, ConnectStatus, CanselBill, PrintDayReportClear
  <2>2. QED BY <2>1 DEF LockInv, Inside, At, CheckPlaces
<1>5. CASE PrintCheck \/ CheckBeforePayout
  <2>1. /\ pc = "idle" /\ lock' = lock
        /\ pc' \in {"idle", "bills"} \/ (pc' = "poll" /\ ret' = "idle")
    BY <1>5 DEF PrintCheck, CheckBeforePayout, CheckThen
  <2>2. QED BY <2>1 DEF LockInv, Inside, At, CheckPlaces
<1>6. CASE NextBill
  <2>1. /\ pc = "bills"
        /\ \/ pc' \in {"idle", "bills"} /\ lock' = lock
           \/ lock' = 0 /\ pc' = "poll" /\ ret' = "open"
    BY <1>6 DEF NextBill, Start, FPend, callVars
  <2>2. QED BY <2>1 DEF LockInv, Inside, At, CheckPlaces
<1>7. CASE Unlock
  <2>1. lock = 0
    BY <1>7 DEF Unlock, LockInv, Inside, At
  <2>2. lock' = 1 /\ (pc' \in {"bills", "idle"} \/ (pc' = "poll" /\ ret' = "idle"))
    BY <1>7, <2>1 DEF Unlock, FPost, CheckThen
  <2>3. QED BY <2>2 DEF LockInv, Inside, At, CheckPlaces
<1>8. CASE Environment
  <2>1. pc' = pc /\ ret' = ret /\ lock' = lock
    BY <1>8 DEF Environment, Pay, Printed, PowerSwitch, PaperOut, PaperIn, DayPasses,
       Outside, callVars
  <2>2. QED BY <2>1 DEF LockInv, Inside, At
<1>9. QED
  BY <1>1, <1>2, <1>3, <1>4, <1>5, <1>6, <1>7, <1>8 DEF Next, Server, Operator

(* A place keeps its kind of job, and res is FALSE until the job ends.      *)
LEMMA JobStep ==
  ASSUME TypeOK, JobInv, Next
  PROVE  JobInv'
<1>1. CASE CheckFiscalStatus
  <2>1. /\ pc \in CheckPlaces /\ ret' = ret /\ job' = job /\ res' = res
        /\ ret \in {"idle", "open", "sell", "close", "cancel"}
        /\ pc' \in CheckPlaces \/ pc' = ret \/ (pc' = "unlock" /\ ret # "idle")
    BY <1>1, CheckStep DEF InCheck, TypeOK
  <2>2. QED BY <2>1 DEF JobInv, At, CheckPlaces
<1>2. CASE PrintFiscalBill
  <2>1. /\ pc \in {"open", "sell", "close"} /\ job' = job
        /\ \/ pc' = "poll" /\ ret' = pc /\ res' = res
           \/ pc' = "unlock"
           \/ pc' \in {"sell", "close"} /\ res' = FALSE
    <3>1. CASE CloseOnlineWithoutExt
      BY <1>2, <3>1 DEF PrintFiscalBill, CloseOnlineWithoutExt
    <3>2. CASE ~CloseOnlineWithoutExt
      <4>1. /\ pc \in {"open", "sell", "close"} /\ job' = job
            /\ NextCommand(pc) \/ AgainAfterAnswer(pc) \/ AgainAfterFailure(pc) \/ GiveUp(pc)
        BY <1>2, <3>2 DEF PrintFiscalBill
      <4>2. \/ pc' = "poll" /\ ret' = pc /\ res' = res
            \/ pc' = "unlock"
            \/ pc' = Following(pc) /\ res' = (pc = "close")
        BY <4>1, BillCommand
      <4>3. QED BY <4>1, <4>2 DEF Following
    <3>3. QED BY <3>1, <3>2
  <2>2. QED BY <2>1 DEF JobInv, At, CheckPlaces
<1>3. CASE ConnectFiscalFast \/ CanselFiscalBill \/ DayReport
  <2>1. /\ pc = "idle" /\ res' = res
        /\ \/ pc' = "connect" /\ job' = "connect"
           \/ pc' = "report" /\ job' = "report"
           \/ pc' = "poll" /\ ret' = "cancel" /\ job' = "cancel"
    BY <1>3 DEF ConnectFiscalFast, CanselFiscalBill, DayReport, Start
  <2>2. QED BY <2>1 DEF JobInv, At, CheckPlaces
<1>4. CASE ConnectPolls \/ ConnectStatus \/ CanselBill \/ PrintDayReportClear
  <2>1. \/ pc' = "unlock"
        \/ pc = "connect" /\ pc' = "connstatus" /\ job' = job /\ res' = res
    BY <1>4 DEF ConnectPolls, ConnectStatus, CanselBill, PrintDayReportClear
  <2>2. QED BY <2>1 DEF JobInv, At, CheckPlaces
<1>5. CASE PrintCheck \/ CheckBeforePayout
  <2>1. /\ pc = "idle" /\ res' = res
        /\ pc' \in {"idle", "bills"} \/ (pc' = "poll" /\ ret' = "idle")
    BY <1>5 DEF PrintCheck, CheckBeforePayout, CheckThen
  <2>2. QED BY <2>1 DEF JobInv, At, CheckPlaces
<1>6. CASE NextBill
  <2>1. /\ pc = "bills" /\ res' = res
        /\ \/ pc' \in {"idle", "bills"}
           \/ job' \in Bills /\ pc' = "poll" /\ ret' = "open"
    BY <1>6 DEF NextBill, Start, callVars, TypeOK, Bills
  <2>2. QED BY <2>1 DEF JobInv, At, CheckPlaces
<1>7. CASE Unlock
  <2>1. res' = FALSE /\ (pc' \in {"bills", "idle"} \/ (pc' = "poll" /\ ret' = "idle"))
    BY <1>7 DEF Unlock, CheckThen
  <2>2. QED BY <2>1 DEF JobInv, At, CheckPlaces
<1>8. CASE Environment
  <2>1. pc' = pc /\ ret' = ret /\ job' = job /\ res' = res
    BY <1>8 DEF Environment, Pay, Printed, PowerSwitch, PaperOut, PaperIn, DayPasses,
       Outside, callVars
  <2>2. QED BY <2>1 DEF JobInv, At
<1>9. QED
  BY <1>1, <1>2, <1>3, <1>4, <1>5, <1>6, <1>7, <1>8 DEF Next, Server, Operator

-----------------------------------------------------------------------------
(* The closing of a bill takes the document with its one sale away, and     *)
(* without a document it is refused: it cannot be obeyed twice.             *)
LEMMA CloseOnce ==
  ASSUME TypeOK, BillInv, At("close"), NEW a \in Answers, Exchange("close", a)
  PROVE  /\ OneBillOneSale'
         /\ a = "ok" => closedNow' = 1
         /\ \/ closedNow' = 0 /\ reg'.mode = "doc" /\ reg'.sales = 1
            \/ closedNow' = 1 /\ reg'.mode # "doc"
<1>1. /\ \/ closedNow = 0 /\ reg.mode = "doc" /\ reg.sales = 1
         \/ closedNow = 1 /\ reg.mode # "doc"
      /\ closedNow <= 1 /\ closed \subseteq {1}
  BY DEF BillInv, OneBillOneSale
<1>2. CASE Accepts("close") /\ Obeys("close")
  <2>1. reg.mode = "doc"
    BY <1>2, Zenon DEF Accepts
  <2>2. closedNow' = 1 /\ closed' \subseteq {1}
    <3>1. closedNow = 0 /\ reg.sales = 1
      BY <1>1, <2>1
    <3>2. closedNow' = closedNow + 1 /\ closed' = closed \cup {reg.sales}
      BY <1>2 DEF Obeys
    <3>3. QED BY <1>1, <3>1, <3>2
  <2>3. reg' = [reg EXCEPT !.mode = "shift", !.sales = 0, !.busy = TRUE]
    BY <1>2 DEF Obeys, After
  <2>4. reg'.mode # "doc"
    BY <2>3 DEF TypeOK, Registers
  <2>5. QED BY <2>2, <2>4 DEF OneBillOneSale
<1>3. CASE UNCHANGED <<reg, closedNow, closed>> /\ a # "ok"
  BY <1>1, <1>3 DEF OneBillOneSale
<1>4. "ok" \notin Failures
  BY DEF Failures, Garbled, Codes
<1>5. QED BY <1>2, <1>3, <1>4 DEF Exchange

(* A command answered at the first attempt takes the bill one place on.     *)
LEMMA FirstAttempt ==
  ASSUME TypeOK, BillInv, NEW cmd \in {"open", "sell"}, pc = cmd, NextCommand(cmd)
  PROVE  closedNow' = 0 /\ reg'.mode = "doc" /\ reg'.sales = (IF cmd = "open" THEN 0 ELSE 1)
<1>1. ~repeat /\ Exchange(cmd, "ok")
  BY DEF NextCommand
<1>2. Obeys(cmd)
  BY <1>1 DEF Exchange, Failures, Garbled, Codes
<1>3. closedNow = 0 /\ (cmd = "sell" => reg.mode = "doc" /\ reg.sales = 0)
  BY <1>1 DEF BillInv, At
<1>4. closedNow' = 0
  BY <1>2, <1>3 DEF Obeys
<1>5. CASE cmd = "open"
  <2>1. reg' = [reg EXCEPT !.mode = "doc", !.sales = 0]
    BY <1>2, <1>5 DEF Obeys, After
  <2>2. QED BY <1>4, <1>5, <2>1 DEF TypeOK, Registers
<1>6. CASE cmd = "sell"
  <2>1. reg' = [reg EXCEPT !.sales = reg.sales + 1]
    BY <1>2, <1>6 DEF Obeys, After
  <2>2. QED BY <1>3, <1>4, <1>6, <2>1 DEF TypeOK, Registers
<1>7. QED BY <1>5, <1>6

LEMMA BillStep ==
  ASSUME IInv, Next
  PROVE  BillInv'
<1>1. TypeOK /\ JobInv /\ BillInv /\ OneBillOneSale
  BY DEF IInv, BillInv
<1>2. CASE CheckFiscalStatus
  <2>1. /\ pc \in CheckPlaces /\ ret' = ret /\ repeat' = repeat /\ res' = res
        /\ ret \in {"idle", "open", "sell", "close", "cancel"}
        /\ pc' \in CheckPlaces \/ pc' = ret \/ (pc' = "unlock" /\ ret # "idle")
        /\ closedNow' = closedNow /\ closed' = closed
        /\ reg'.mode = "doc" <=> reg.mode = "doc"
        /\ reg'.sales = reg.sales
    BY <1>1, <1>2, CheckStep DEF InCheck, TypeOK
  <2>2. res = FALSE
    BY <1>1, <2>1 DEF JobInv, CheckPlaces, TypeOK
  <2>3. OneBillOneSale' /\ RecordMeansBill'
    BY <1>1, <2>1, <2>2 DEF OneBillOneSale, RecordMeansBill
  <2>4. QED BY <1>1, <2>1, <2>3 DEF BillInv, At, CheckPlaces
<1>3. CASE PrintFiscalBill
  <2>1. CASE CloseOnlineWithoutExt
    <3>1. /\ pc' = "unlock" /\ UNCHANGED <<closedNow, closed, settings, job>>
          /\ job = "online" /\ ~settings.ext
      BY <1>3, <2>1 DEF PrintFiscalBill, CloseOnlineWithoutExt, NoExchange
    <3>2. OneBillOneSale' /\ RecordMeansBill'
      BY <1>1, <3>1 DEF OneBillOneSale, RecordMeansBill
    <3>3. QED BY <3>1, <3>2 DEF BillInv, At, CheckPlaces
  <2>2. CASE ~CloseOnlineWithoutExt
    <3>1. /\ pc \in {"open", "sell", "close"} /\ At(pc)
          /\ NextCommand(pc) \/ AgainAfterAnswer(pc) \/ AgainAfterFailure(pc) \/ GiveUp(pc)
      BY <1>3, <2>2 DEF PrintFiscalBill, At
    <3>2. PICK a \in Answers : Exchange(pc, a)
      BY <1>1, <3>1, BillCommand
    <3>3. OneBillOneSale'
      <4>1. CASE pc = "close"
        BY <1>1, <3>1, <3>2, <4>1, CloseOnce
      <4>2. CASE pc # "close"
        <5>1. closedNow' = closedNow /\ closed' = closed
          BY <1>1, <3>1, <3>2, <4>2, ExchangeOther DEF Commands
        <5>2. QED BY <1>1, <5>1 DEF OneBillOneSale
      <4>3. QED BY <4>1, <4>2
    <3>4. pc \in {"open", "sell"} => closedNow' = 0
      <4>1. CASE pc \in {"open", "sell"}
        <5>1. closedNow' = closedNow
          BY <1>1, <3>2, <4>1, ExchangeOther DEF Commands
        <5>2. QED BY <1>1, <4>1, <5>1 DEF BillInv, At
      <4>2. QED BY <4>1
    <3>5. res = FALSE
      BY <1>1, <3>1 DEF JobInv, TypeOK
    <3>6. CASE NextCommand(pc)
      <4>1. pc' = Following(pc) /\ res' = (pc = "close") /\ repeat' = repeat
        BY <3>6 DEF NextCommand
      <4>2. CASE pc \in {"open", "sell"}
        <5>1. closedNow' = 0 /\ reg'.mode = "doc" /\ reg'.sales = (IF pc = "open" THEN 0 ELSE 1)
          BY <1>1, <3>6, <4>2, FirstAttempt
        <5>2. pc' = (IF pc = "open" THEN "sell" ELSE "close")
          BY <4>1, <4>2 DEF Following
        <5>3. RecordMeansBill'
          BY <5>2 DEF RecordMeansBill
        <5>4. QED BY <3>3, <4>2, <5>1, <5>2, <5>3 DEF BillInv, At, CheckPlaces
      <4>3. CASE pc = "close"
        <5>1. Exchange("close", "ok") /\ pc' = "unlock"
          BY <3>6, <4>1, <4>3 DEF NextCommand, Following
        <5>2. closedNow' = 1
          BY <1>1, <3>1, <4>3, <5>1, CloseOnce DEF Answers
        <5>3. RecordMeansBill'
          BY <5>2 DEF RecordMeansBill
        <5>4. QED BY <3>3, <5>1, <5>3 DEF BillInv, At, CheckPlaces
      <4>4. QED BY <3>1, <4>2, <4>3
    <3>7. CASE AgainAfterAnswer(pc) \/ AgainAfterFailure(pc)
      <4>1. pc' = "poll" /\ ret' = pc /\ repeat'
        BY <3>7 DEF AgainAfterAnswer, AgainAfterFailure, CheckThen
      <4>2. RecordMeansBill'
        BY <4>1 DEF RecordMeansBill
      <4>3. pc = "close" => \/ closedNow' = 0 /\ reg'.mode = "doc" /\ reg'.sales = 1
                            \/ closedNow' = 1 /\ reg'.mode # "doc"
        BY <1>1, <3>1, <3>2, CloseOnce
      <4>4. QED BY <3>1, <3>3, <3>4, <4>1, <4>2, <4>3 DEF BillInv, At, CheckPlaces
    <3>8. CASE GiveUp(pc)
      <4>1. pc' = "unlock" /\ res' = FALSE
        BY <3>5, <3>8 DEF GiveUp
      <4>2. QED BY <3>3, <4>1 DEF BillInv, At, CheckPlaces, RecordMeansBill
    <3>9. QED BY <3>1, <3>6, <3>7, <3>8
  <2>3. QED BY <2>1, <2>2
<1>4. CASE ConnectFiscalFast \/ CanselFiscalBill \/ DayReport \/ PrintCheck \/ CheckBeforePayout
  <2>1. /\ closedNow' = closedNow /\ closed' = closed
        /\ pc' \in {"connect", "report", "idle", "bills"} \/ (pc' = "poll" /\ ret' \in {"cancel", "idle"})
    BY <1>4 DEF ConnectFiscalFast, CanselFiscalBill, DayReport, PrintCheck, CheckBeforePayout,
       Start, CheckThen, historyVars
  <2>2. QED BY <1>1, <2>1 DEF BillInv, OneBillOneSale, RecordMeansBill, At, CheckPlaces
<1>5. CASE ConnectPolls \/ ConnectStatus \/ CanselBill \/ PrintDayReportClear
  <2>1. /\ pc' \in {"connstatus", "unlock"} /\ job' = job
        /\ pc \in {"connect", "connstatus", "cancel", "report"}
    BY <1>5 DEF ConnectPolls, ConnectStatus, CanselBill, PrintDayReportClear
  <2>2. job \notin Bills
    BY <1>1, <2>1 DEF JobInv, At, Bills
  <2>3. closedNow' = closedNow /\ closed' = closed
    <3>1. \/ UNCHANGED <<closedNow, closed>>
          \/ \E cmd \in {"status", "cancel", "zreport"} : \E a \in Answers : Exchange(cmd, a)
      BY <1>5, CodesKept DEF ConnectPolls, ConnectStatus, CanselBill, PrintDayReportClear,
         Answers
    <3>2. QED BY <1>1, <3>1, ExchangeOther DEF Commands
  <2>4. QED BY <1>1, <2>1, <2>2, <2>3 DEF BillInv, OneBillOneSale, RecordMeansBill, At, CheckPlaces
<1>6. CASE NextBill
  <2>1. /\ closedNow' \in {0, closedNow} /\ closed' = closed
        /\ pc' \in {"idle", "bills"} \/ (pc' = "poll" /\ ret' = "open" /\ closedNow' = 0)
    <3>1. closed' = closed
      BY <1>6 DEF NextBill
    <3>2. \/ closedNow' = closedNow /\ pc' \in {"idle", "bills"}
          \/ closedNow' = 0 /\ pc' = "poll" /\ ret' = "open"
      BY <1>6 DEF NextBill, Start, callVars
    <3>3. QED BY <3>1, <3>2
  <2>2. OneBillOneSale'
    BY <1>1, <2>1 DEF OneBillOneSale
  <2>3. QED BY <2>1, <2>2 DEF BillInv, RecordMeansBill, At, CheckPlaces
<1>7. CASE Unlock
  <2>1. /\ closedNow' = closedNow /\ closed' = closed
        /\ pc' \in {"bills", "idle"} \/ (pc' = "poll" /\ ret' = "idle")
    BY <1>7 DEF Unlock, CheckThen, historyVars
  <2>2. QED BY <1>1, <2>1 DEF BillInv, OneBillOneSale, RecordMeansBill, At, CheckPlaces
<1>8. CASE Environment
  <2>1. /\ UNCHANGED <<settings, callVars, closedNow, closed>>
    BY <1>8 DEF Environment, Pay, Printed, PowerSwitch, PaperOut, PaperIn, DayPasses, Outside
  <2>2. (reg'.mode = "doc" <=> reg.mode = "doc") /\ reg'.sales = reg.sales
    BY <1>1, <1>8 DEF Environment, Pay, Printed, PowerSwitch, PaperOut, PaperIn, DayPasses,
       TypeOK, Registers
  <2>3. QED
    BY <1>1, <2>1, <2>2 DEF callVars, BillInv, OneBillOneSale, RecordMeansBill, At
<1>9. QED
  BY <1>2, <1>3, <1>4, <1>5, <1>6, <1>7, <1>8 DEF Next, Server, Operator

-----------------------------------------------------------------------------
LEMMA Inductive == Spec => []IInv
<1>1. Init => IInv
  <2>1. SUFFICES ASSUME Init PROVE IInv
    OBVIOUS
  <2>2. MaxFaults \in Nat /\ MaxSales \in Nat /\ MaxPayments \in Nat
    BY BoundAssumption
  <2>3. reg \in Registers
    <3>1. 0 \in 0..MaxSales
      BY <2>2
    <3>2. QED BY <2>1, <3>1 DEF Init, Registers
  <2>4. TypeOK
    <3>1. payments \in 0..MaxPayments /\ faults \in 0..MaxFaults
      BY <2>1, <2>2 DEF Init
    <3>2. /\ settings \in Settings
          /\ pc \in Places /\ job \in Jobs /\ ret = "idle"
          /\ repeat = FALSE /\ err = "zero" /\ res = FALSE
          /\ lock = 1 /\ FiscalConnState = TRUE /\ errors = {} /\ owed = {}
          /\ closedNow = 0 /\ closed = {}
      BY <2>1 DEF Init, Places, Jobs
    <3>3. QED BY <2>3, <3>1, <3>2 DEF TypeOK
  <2>5. LockInv /\ JobInv /\ BillInv
    BY <2>1 DEF Init, LockInv, JobInv, BillInv, OneBillOneSale, RecordMeansBill, Inside, At, CheckPlaces
  <2>6. QED BY <2>4, <2>5 DEF IInv
<1>2. IInv /\ [Next]_vars => IInv'
  <2>1. SUFFICES ASSUME IInv, [Next]_vars PROVE IInv'
    OBVIOUS
  <2>2. CASE Next
    BY <2>1, <2>2, TypeStep, LockStep, JobStep, BillStep DEF IInv
  <2>3. CASE UNCHANGED vars
    BY <2>1, <2>3 DEF IInv, TypeOK, LockInv, JobInv, BillInv, OneBillOneSale,
       RecordMeansBill, Inside, At, vars, callVars, flagVars, historyVars
  <2>4. QED BY <2>1, <2>2, <2>3
<1>3. QED BY <1>1, <1>2, PTL DEF Spec

(* Types: the lock is a binary semaphore however the jobs end.              *)
THEOREM TypeCorrect == Spec => []TypeOK
<1>1. IInv => TypeOK
  BY DEF IInv
<1>2. QED BY <1>1, Inductive, PTL

(* PrintFiscalBill (fr.c:627): at most one bill is closed for a payment and *)
(* it holds one sale, whatever is lost, refused or repeated.                *)
THEOREM OneBill == Spec => []OneBillOneSale
<1>1. IInv => OneBillOneSale
  BY DEF IInv, BillInv
<1>2. QED BY <1>1, Inductive, PTL

(* FPend and FPost (fr.c:424): every way out gives the register back.       *)
THEOREM LockFree == Spec => []LockGivenBack
<1>1. IInv => LockGivenBack
  <2>1. SUFFICES ASSUME IInv, pc \in {"idle", "bills"} PROVE lock = 1
    BY DEF LockGivenBack
  <2>2. ~Inside
    BY <2>1 DEF Inside, At, CheckPlaces
  <2>3. QED BY <2>1, <2>2 DEF IInv, LockInv, TypeOK
<1>2. QED BY <1>1, Inductive, PTL

(* EVENT_PRINT_CHECK (app_serv.c:816): the record of a printed bill stands  *)
(* for a bill that was closed.                                             *)
THEOREM RecordTrue == Spec => []RecordMeansBill
<1>1. IInv => RecordMeansBill
  BY DEF IInv, BillInv
<1>2. QED BY <1>1, Inductive, PTL

-----------------------------------------------------------------------------
(* The steps of a visit.  What each place still needs is a number, and how  *)
(* often the register can obey a command is never more than MaxSales.       *)
LEMMA Needs ==
  /\ DOMAIN CheckLeft = CheckPlaces
  /\ \A c \in CheckPlaces : CheckLeft[c] \in 1..4
  /\ MaxSales \in Nat \ {0} /\ PerCommand = 5 * MaxSales + 6 /\ PerBill = 3 * PerCommand + 6
  /\ \A S : ForBills(S) \in Nat
  /\ \A S : \A b \in Bills : b \in S => ForBills(S) = PerBill + ForBills(S \ {b})
<1>1. MaxSales \in Nat \ {0} /\ PerCommand = 5 * MaxSales + 6 /\ PerBill = 3 * PerCommand + 6
  BY BoundAssumption DEF PerCommand, PerBill
<1>2. PerBill \in Nat
  BY <1>1
<1>3. \A S : ForBills(S) \in Nat
  BY <1>2 DEF ForBills
<1>4. \A S : \A b \in Bills : b \in S => ForBills(S) = PerBill + ForBills(S \ {b})
  BY <1>2 DEF ForBills, Bills
<1>5. DOMAIN CheckLeft = CheckPlaces /\ \A c \in CheckPlaces : CheckLeft[c] \in 1..4
  BY DEF CheckLeft, CheckPlaces
<1>6. QED BY <1>1, <1>3, <1>4, <1>5

LEMMA CanObeyBound ==
  ASSUME reg \in Registers, NEW cmd \in {"open", "sell", "close"}
  PROVE  CanObey(cmd) \in 0..MaxSales
<1>1. MaxSales \in Nat \ {0} /\ reg.sales \in 0..MaxSales
  BY BoundAssumption DEF Registers
<1>2. QED BY <1>1 DEF CanObey

LEMMA StepsAtPlaces ==
  /\ StepsAt("idle") = 0
  /\ StepsAt("bills") = 1 + ForBills(owed)
  /\ \A c \in {"open", "sell", "close"} : StepsAt(c) = ForCommand(c) + 2 + ForBills(owed \ {job})
  /\ StepsAt("unlock") = IF job \in Bills THEN 2 + ForBills(owed \ {job}) ELSE 5
  /\ StepsAt("connect") = 7
  /\ \A c \in {"connstatus", "cancel", "report"} : StepsAt(c) = 6
BY DEF StepsAt

LEMMA ForCommandBound ==
  ASSUME TypeOK, NEW cmd \in {"open", "sell", "close"}
  PROVE  /\ ForCommand(cmd) \in Nat \ {0}
         /\ ~repeat => ForCommand(cmd) >= PerCommand
<1>1. CanObey(cmd) \in 0..MaxSales
  BY CanObeyBound DEF TypeOK
<1>2. CASE repeat
  BY <1>1, <1>2, Needs DEF ForCommand
<1>3. CASE ~repeat
  BY <1>3, Needs DEF ForCommand
<1>4. QED BY <1>2, <1>3

(* The poll comes before the status, the status before what it leads to.    *)
LEMMA CheckOrder ==
  ASSUME TypeOK, CheckFiscalStatus, pc' \in CheckPlaces
  PROVE  CheckLeft[pc'] < CheckLeft[pc]
<1>1. ret \notin CheckPlaces /\ "idle" \notin CheckPlaces /\ "unlock" \notin CheckPlaces
  BY DEF TypeOK, CheckPlaces
<1>2. ~ReturnsNegative /\ ~Returns0 /\ ~CheckExit
  BY <1>1 DEF ReturnsNegative, Returns0, CheckExit
<1>3. /\ CheckLeft["poll"] = 4 /\ CheckLeft["status"] = 3 /\ CheckLeft["tobuf"] = 2
      /\ CheckLeft["zreport"] = 1 /\ CheckLeft["frombuf"] = 1
      /\ CheckLeft["continue"] = 1 /\ CheckLeft["openday"] = 1
  BY DEF CheckLeft
<1>4. \/ pc = "poll" /\ pc' = "status"
      \/ pc = "status" /\ pc' \in {"continue", "openday", "zreport", "tobuf"}
      \/ pc = "tobuf" /\ pc' = "frombuf"
  BY <1>2 DEF CheckFiscalStatus, PollReady, PollTimeout, PollLost, StatusFails, StatusPaper,
     PrintContinue, StatusMode, CloseDay, ReportsFromBuf, OpenDay
<1>5. QED BY <1>3, <1>4

(* What a place needs changes only with the register's document and with    *)
(* the server's own variables.                                             *)
LEMMA StepsAtKept ==
  ASSUME job' = job, owed' = owed, repeat' = repeat,
         reg'.mode = "doc" <=> reg.mode = "doc", reg'.sales = reg.sales, NEW c \in Places
  PROVE  StepsAt(c)' = StepsAt(c)
<1>1. ForBills(owed)' = ForBills(owed) /\ ForBills(owed \ {job})' = ForBills(owed \ {job})
  BY DEF ForBills, PerBill, PerCommand
<1>2. \A d \in {"open", "sell", "close"} : ForCommand(d)' = ForCommand(d)
  BY DEF ForCommand, CanObey, PerCommand
<1>3. QED BY <1>1, <1>2 DEF StepsAt

LEMMA CheckCounts ==
  ASSUME IInv, CheckFiscalStatus
  PROVE  StepsLeft' < StepsLeft
<1>1. /\ TypeOK /\ JobInv /\ pc \in CheckPlaces
      /\ pc' \in CheckPlaces \/ pc' = ret \/ (pc' = "unlock" /\ ret # "idle")
      /\ ret' = ret /\ job' = job /\ owed' = owed /\ repeat' = repeat
      /\ reg'.mode = "doc" <=> reg.mode = "doc"
      /\ reg'.sales = reg.sales
      /\ ret \in {"idle", "open", "sell", "close", "cancel"}
  BY CheckStep DEF IInv, InCheck, TypeOK
<1>2. /\ ret \in Places /\ ret \notin CheckPlaces
      /\ "unlock" \in Places /\ "unlock" \notin CheckPlaces
  BY <1>1 DEF Places, Commands, CheckPlaces
<1>3. StepsAt(ret)' = StepsAt(ret) /\ StepsAt("unlock")' = StepsAt("unlock")
  BY <1>1, <1>2, StepsAtKept
<1>4. StepsLeft = StepsAt(ret) + CheckLeft[pc] /\ CheckLeft[pc] \in 1..4
  BY <1>1, Needs DEF StepsLeft, Destination
<1>5. /\ StepsAt(ret) \in Nat /\ StepsAt("unlock") \in Nat
      /\ ret # "idle" => StepsAt("unlock") < StepsAt(ret)
  <2>1. CASE ret = "idle"
    BY <2>1, Needs, StepsAtPlaces
  <2>2. CASE ret = "cancel"
    <3>1. job \notin Bills
      BY <1>1, <2>2 DEF JobInv, At, Bills
    <3>2. QED BY <2>2, <3>1, StepsAtPlaces
  <2>3. CASE ret \in {"open", "sell", "close"}
    <3>1. job \in Bills
      BY <1>1, <2>3 DEF JobInv, At
    <3>2. ForCommand(ret) \in Nat \ {0}
      BY <1>1, <2>3, ForCommandBound
    <3>3. StepsAt(ret) = ForCommand(ret) + 2 + ForBills(owed \ {job})
      BY <2>3, StepsAtPlaces
    <3>4. StepsAt("unlock") = 2 + ForBills(owed \ {job})
      BY <3>1, StepsAtPlaces
    <3>5. ForBills(owed \ {job}) \in Nat
      BY Needs
    <3>6. QED BY <3>2, <3>3, <3>4, <3>5
  <2>4. QED BY <1>1, <2>1, <2>2, <2>3
<1>6. CASE pc' \in CheckPlaces
  <2>1. StepsLeft' = StepsAt(ret)' + CheckLeft[pc']
    BY <1>1, <1>6, Needs DEF StepsLeft, Destination
  <2>2. CheckLeft[pc'] < CheckLeft[pc] /\ CheckLeft[pc'] \in 1..4
    BY <1>1, <1>6, CheckOrder, Needs
  <2>3. QED BY <1>3, <1>4, <1>5, <2>1, <2>2
<1>7. CASE pc' \notin CheckPlaces
  <2>1. StepsLeft' = StepsAt(pc)'
    <3>1. StepsLeft' = StepsAt(pc)' + 0 /\ (pc' = ret \/ pc' = "unlock")
      BY <1>1, <1>7, Needs DEF StepsLeft, Destination
    <3>2. StepsAt(pc)' \in Nat
      BY <1>1, <1>3, <1>5, <3>1
    <3>3. QED BY <3>1, <3>2
  <2>2. QED BY <1>1, <1>3, <1>4, <1>5, <1>7, <2>1
<1>8. QED BY <1>6, <1>7

(* A command that is answered cannot be obeyed so often any more: the       *)
(* document is open, has one sale more, or is closed.                      *)
LEMMA ObeyedOnce ==
  ASSUME TypeOK, NEW cmd \in {"open", "sell", "close"}, Exchange(cmd, "ok")
  PROVE  CanObey(cmd)' = CanObey(cmd) - 1
<1>1. Accepts(cmd) /\ Obeys(cmd) /\ reg \in Registers
  BY DEF Exchange, TypeOK, Failures, Garbled, Codes
<1>2. CASE cmd = "open"
  <2>1. reg.mode = "shift"
    BY <1>1, <1>2, Zenon DEF Accepts
  <2>2. reg' = [reg EXCEPT !.mode = "doc", !.sales = 0]
    BY <1>1, <1>2 DEF Obeys, After
  <2>3. reg'.mode = "doc"
    BY <1>1, <2>2 DEF Registers
  <2>4. QED BY <1>2, <2>1, <2>3 DEF CanObey
<1>3. CASE cmd = "sell"
  <2>1. reg'.sales = reg.sales + 1
    BY <1>1, <1>3 DEF Obeys, After, Registers
  <2>2. MaxSales \in Nat /\ reg.sales \in 0..MaxSales
    BY <1>1, BoundAssumption DEF Registers
  <2>3. QED BY <1>3, <2>1, <2>2 DEF CanObey
<1>4. CASE cmd = "close"
  <2>1. reg.mode = "doc"
    BY <1>1, <1>4, Zenon DEF Accepts
  <2>2. reg' = [reg EXCEPT !.mode = "shift", !.sales = 0, !.busy = TRUE]
    BY <1>1, <1>4 DEF Obeys, After
  <2>3. reg'.mode = "shift"
    BY <1>1, <2>2 DEF Registers
  <2>4. QED BY <1>4, <2>1, <2>3 DEF CanObey
<1>5. QED BY <1>2, <1>3, <1>4

LEMMA CommandCounts ==
  ASSUME IInv, PrintFiscalBill, ~CloseOnlineWithoutExt
  PROVE  StepsLeft' < StepsLeft
<1>1. PICK cmd \in {"open", "sell", "close"} :
        /\ pc = cmd
        /\ NextCommand(cmd) \/ AgainAfterAnswer(cmd) \/ AgainAfterFailure(cmd) \/ GiveUp(cmd)
        /\ job' = job /\ owed' = owed
  BY DEF PrintFiscalBill
<1>2. TypeOK /\ job \in Bills /\ reg' \in Registers /\ repeat \in BOOLEAN
  BY <1>1, BillCommand DEF IInv, JobInv, At, TypeOK
<1> DEFINE rest == 2 + ForBills(owed \ {job})
<1>3. /\ rest \in Nat
      /\ \A c \in {"open", "sell", "close"} : StepsAt(c)' = ForCommand(c)' + rest
      /\ StepsAt("unlock")' = rest
  <2>1. ForBills(owed \ {job})' = ForBills(owed \ {job}) /\ ForBills(owed \ {job}) \in Nat
    BY <1>1, Needs DEF ForBills, PerBill, PerCommand
  <2>2. \A c \in {"open", "sell", "close"} :
          StepsAt(c)' = ForCommand(c)' + 2 + ForBills(owed \ {job})'
    BY DEF StepsAt
  <2>3. StepsAt("unlock")' = 2 + ForBills(owed \ {job})'
    BY <1>1, <1>2 DEF StepsAt
  <2>4. \A c \in {"open", "sell", "close"} : ForCommand(c)' \in Nat
    <3>1. SUFFICES ASSUME NEW c \in {"open", "sell", "close"} PROVE ForCommand(c)' \in Nat
      OBVIOUS
    <3>2. CanObey(c)' \in 0..MaxSales
      BY <1>2, CanObeyBound, BoundAssumption DEF CanObey, Registers
    <3>3. QED BY <3>2, Needs DEF ForCommand
  <2>5. QED BY <2>1, <2>2, <2>3, <2>4
<1>4. cmd \notin CheckPlaces /\ "unlock" \notin CheckPlaces /\ "poll" \in CheckPlaces
  BY DEF CheckPlaces
<1>5. /\ StepsLeft = ForCommand(cmd) + rest
      /\ ForCommand(cmd) \in Nat \ {0} /\ (~repeat => ForCommand(cmd) >= PerCommand)
  <2>1. StepsLeft = StepsAt(cmd) + 0
    BY <1>1, <1>4, Needs DEF StepsLeft, Destination
  <2>2. StepsAt(cmd) = ForCommand(cmd) + 2 + ForBills(owed \ {job})
    BY StepsAtPlaces
  <2>3. ForCommand(cmd) \in Nat \ {0} /\ (~repeat => ForCommand(cmd) >= PerCommand)
    BY <1>2, ForCommandBound
  <2>4. QED BY <2>1, <2>2, <2>3, Needs
<1> HIDE DEF rest
<1>6. ASSUME pc' = "unlock" PROVE StepsLeft' < StepsLeft
  <2>1. StepsLeft' = StepsAt("unlock")' + 0
    BY <1>4, <1>6, Needs DEF StepsLeft, Destination
  <2>2. QED BY <1>3, <1>5, <2>1
<1>7. ASSUME pc' = "poll", ret' = cmd PROVE StepsLeft' = ForCommand(cmd)' + rest + 4
  <2>1. StepsLeft' = StepsAt(cmd)' + CheckLeft["poll"]
    BY <1>4, <1>7, Needs DEF StepsLeft, Destination
  <2>2. CheckLeft["poll"] = 4
    BY DEF CheckLeft
  <2>3. QED BY <1>3, <2>1, <2>2
<1>8. CASE NextCommand(cmd)
  <2>1. ~repeat /\ repeat' = repeat /\ pc' = Following(cmd)
    BY <1>8 DEF NextCommand
  <2>2. CASE cmd = "close"
    BY <1>6, <2>1, <2>2 DEF Following
  <2>3. CASE cmd \in {"open", "sell"}
    <3>1. pc' = IF cmd = "open" THEN "sell" ELSE "close"
      BY <2>1, <2>3 DEF Following
    <3>2. StepsLeft' = (IF cmd = "open" THEN StepsAt("sell")' ELSE StepsAt("close")') + 0
      BY <2>3, <3>1, Needs DEF StepsLeft, Destination, CheckPlaces
    <3>3. ForCommand("sell")' = 2 * PerCommand /\ ForCommand("close")' = PerCommand
      BY <2>1 DEF ForCommand, PerCommand
    <3>4. ForCommand(cmd) = IF cmd = "open" THEN 3 * PerCommand ELSE 2 * PerCommand
      BY <2>1, <2>3 DEF ForCommand
    <3>5. PerCommand \in Nat \ {0}
      BY Needs
    <3>6. QED BY <1>3, <1>5, <2>3, <3>2, <3>3, <3>4, <3>5
  <2>4. QED BY <2>2, <2>3
<1>9. CASE AgainAfterAnswer(cmd)
  <2>1. repeat /\ repeat' = repeat /\ pc' = "poll" /\ ret' = cmd /\ Exchange(cmd, "ok")
    BY <1>9 DEF AgainAfterAnswer, CheckThen
  <2>2. CanObey(cmd)' = CanObey(cmd) - 1 /\ CanObey(cmd) \in 0..MaxSales
    BY <1>2, <2>1, ObeyedOnce, CanObeyBound DEF TypeOK
  <2>3. ForCommand(cmd)' = 5 * CanObey(cmd)' + 1 /\ ForCommand(cmd) = 5 * CanObey(cmd) + 1
    BY <2>1 DEF ForCommand
  <2>4. QED BY <1>3, <1>5, <1>7, <2>1, <2>2, <2>3, Needs
<1>10. CASE AgainAfterFailure(cmd)
  <2>1. ~repeat /\ repeat' = TRUE /\ pc' = "poll" /\ ret' = cmd
    BY <1>10 DEF AgainAfterFailure, CheckThen
  <2>2. CanObey(cmd)' \in 0..MaxSales
    BY <1>2, BoundAssumption DEF CanObey, Registers
  <2>3. ForCommand(cmd)' = 5 * CanObey(cmd)' + 1
    BY <2>1 DEF ForCommand
  <2>4. QED BY <1>3, <1>5, <1>7, <2>1, <2>2, <2>3, Needs
<1>11. CASE GiveUp(cmd)
  BY <1>6, <1>11 DEF GiveUp
<1>12. QED BY <1>1, <1>8, <1>9, <1>10, <1>11

(* The steps of the server outside of CheckFiscalStatus and the commands.   *)
LEMMA OtherCounts ==
  ASSUME IInv, pc # "idle",
         \/ CloseOnlineWithoutExt /\ PrintFiscalBill
         \/ ConnectPolls \/ ConnectStatus \/ NextBill
         \/ CanselBill \/ PrintDayReportClear \/ Unlock
  PROVE  StepsLeft' < StepsLeft
<1>1. TypeOK /\ JobInv
  BY DEF IInv
<1>2. ASSUME pc \notin CheckPlaces PROVE StepsLeft = StepsAt(pc) + 0
  BY <1>2, Needs DEF StepsLeft, Destination
<1>3. /\ \A c \in {"bills", "idle", "unlock", "connstatus", "connect", "cancel", "report", "close"} :
           c \notin CheckPlaces
      /\ "poll" \in CheckPlaces /\ CheckLeft["poll"] = 4
  BY DEF CheckPlaces, CheckLeft
<1>4. /\ pc' = "idle" => StepsLeft' = 0
      /\ pc' = "connstatus" => StepsLeft' = 6
      /\ pc' = "unlock" /\ job' \notin Bills => StepsLeft' = 5
      /\ pc' = "poll" /\ ret' = "idle" => StepsLeft' = 4
  BY <1>3, Needs DEF StepsLeft, Destination, StepsAt
<1>5. pc' = "bills" => StepsLeft' = 1 + ForBills(owed)'
  <2>1. ForBills(owed)' \in Nat
    BY Needs DEF ForBills, PerBill, PerCommand
  <2>2. QED BY <1>3, <2>1, Needs DEF StepsLeft, Destination, StepsAt
<1>6. CASE CloseOnlineWithoutExt /\ PrintFiscalBill
  <2>1. pc = "close" /\ pc' = "unlock" /\ job' = job /\ owed' = owed /\ job \in Bills
    BY <1>6 DEF CloseOnlineWithoutExt, PrintFiscalBill, Bills
  <2>2. StepsLeft = ForCommand("close") + 2 + ForBills(owed \ {job}) + 0
    BY <1>2, <1>3, <2>1, StepsAtPlaces
  <2>3. StepsLeft' = 2 + ForBills(owed \ {job})
    <3>1. ForBills(owed \ {job})' = ForBills(owed \ {job}) /\ ForBills(owed \ {job}) \in Nat
      BY <2>1, Needs DEF ForBills, PerBill, PerCommand
    <3>2. StepsLeft' = 2 + ForBills(owed \ {job})' + 0
      BY <1>3, <2>1, Needs DEF StepsLeft, Destination, StepsAt
    <3>3. QED BY <3>1, <3>2
  <2>4. ForCommand("close") \in Nat \ {0} /\ ForBills(owed \ {job}) \in Nat
    BY <1>1, ForCommandBound, Needs
  <2>5. QED BY <2>2, <2>3, <2>4
<1>7. CASE ConnectPolls
  <2>1. pc = "connect" /\ job' = job /\ pc' \in {"connstatus", "unlock"} /\ job \notin Bills
    BY <1>1, <1>7 DEF ConnectPolls, JobInv, Bills
  <2>2. StepsLeft = 7
    BY <1>2, <1>3, <2>1, StepsAtPlaces
  <2>3. QED BY <1>4, <2>1, <2>2
<1>8. CASE ConnectStatus \/ CanselBill \/ PrintDayReportClear
  <2>1. /\ pc \in {"connstatus", "cancel", "report"} /\ job' = job /\ pc' = "unlock"
        /\ job \notin Bills
    BY <1>1, <1>8 DEF ConnectStatus, CanselBill, PrintDayReportClear, JobInv, At, Bills
  <2>2. StepsLeft = 6
    BY <1>2, <1>3, <2>1, StepsAtPlaces
  <2>3. QED BY <1>4, <2>1, <2>2
<1>9. CASE NextBill
  <2>1. pc = "bills" /\ StepsLeft = 1 + ForBills(owed) /\ ForBills(owed) \in Nat
    <3>1. pc = "bills"
      BY <1>9 DEF NextBill
    <3>2. QED BY <1>2, <1>3, <3>1, StepsAtPlaces, Needs
  <2> DEFINE b == IF "cash" \in owed THEN "cash" ELSE "online"
  <2>2. /\ b \in Bills /\ (owed # {} => b \in owed)
        /\ \/ pc' = "idle"
           \/ owed # {} /\ owed' = owed \ {b} /\ pc' = "bills"
           \/ /\ owed # {} /\ owed' = owed /\ job' = b /\ pc' = "poll" /\ ret' = "open"
              /\ repeat' = repeat /\ reg' = reg
    <3>1. b \in Bills /\ (owed # {} => b \in owed)
      BY <1>1 DEF TypeOK, Bills
    <3>2. CASE owed = {} /\ pc' = "idle"
      BY <3>1, <3>2
    <3>3. CASE owed # {} /\ owed' = owed \ {b} /\ UNCHANGED callVars
      BY <2>1, <3>1, <3>3 DEF callVars
    <3>4. CASE owed # {} /\ Start(b, "poll") /\ ret' = "open" /\ UNCHANGED owed
      BY <1>9, <3>1, <3>4 DEF NextBill, Start
    <3>5. QED BY <1>9, <3>2, <3>3, <3>4 DEF NextBill
  <2> HIDE DEF b
  <2>3. CASE pc' = "idle"
    BY <1>4, <2>1, <2>3
  <2>4. CASE owed # {} /\ owed' = owed \ {b} /\ pc' = "bills"
    <3>1. ForBills(owed)' = ForBills(owed \ {b})
      BY <2>4 DEF ForBills, PerBill, PerCommand
    <3>2. /\ ForBills(owed) = PerBill + ForBills(owed \ {b}) /\ PerBill \in Nat \ {0}
          /\ ForBills(owed \ {b}) \in Nat
      BY <2>2, <2>4, Needs
    <3>3. QED BY <1>5, <2>1, <2>4, <3>1, <3>2
  <2>5. CASE owed # {} /\ owed' = owed /\ job' = b /\ pc' = "poll" /\ ret' = "open"
             /\ repeat' = repeat /\ reg' = reg
    <3>1. ForBills(owed \ {job})' = ForBills(owed \ {b})
      BY <2>5 DEF ForBills, PerBill, PerCommand
    <3>2. /\ ForBills(owed) = PerBill + ForBills(owed \ {b}) /\ PerBill = 3 * PerCommand + 6
          /\ ForBills(owed \ {b}) \in Nat /\ PerCommand \in Nat \ {0}
      BY <2>2, <2>5, Needs
    <3>3. ForCommand("open")' = IF repeat THEN 5 * CanObey("open") + 1 ELSE 3 * PerCommand
      BY <2>5 DEF ForCommand, CanObey, PerCommand
    <3>4. CanObey("open") \in 0..MaxSales /\ PerCommand = 5 * MaxSales + 6 /\ MaxSales \in Nat
      BY <1>1, CanObeyBound, Needs DEF TypeOK
    <3>5. StepsLeft' = ForCommand("open")' + 2 + ForBills(owed \ {job})' + 4
      BY <1>3, <2>5, Needs DEF StepsLeft, Destination, StepsAt
    <3>6. QED BY <2>1, <3>1, <3>2, <3>3, <3>4, <3>5
  <2>6. QED BY <2>2, <2>3, <2>4, <2>5
<1>10. CASE Unlock
  <2>1. /\ pc = "unlock" /\ owed' = owed \ {job}
        /\ \/ job \notin Bills /\ pc' = "poll" /\ ret' = "idle"
           \/ job \in Bills /\ pc' = "bills"
           \/ pc' = "idle"
    BY <1>10 DEF Unlock, CheckThen, Bills
  <2>2. /\ StepsLeft = IF job \in Bills THEN 2 + ForBills(owed \ {job}) ELSE 5
        /\ ForBills(owed \ {job}) \in Nat
    BY <1>2, <1>3, <2>1, StepsAtPlaces, Needs
  <2>3. ForBills(owed)' = ForBills(owed \ {job})
    BY <2>1 DEF ForBills, PerBill, PerCommand
  <2>4. QED BY <1>4, <1>5, <2>1, <2>2, <2>3
<1>11. QED BY <1>6, <1>7, <1>8, <1>9, <1>10

LEMMA OthersCostNothing ==
  ASSUME IInv, pc # "idle", Next, ~Server
  PROVE  StepsLeft' = StepsLeft
<1>1. TypeOK
  BY DEF IInv
<1>2. Environment /\ ~\E bills \in SUBSET Bills \ {{}} : Pay(bills)
  BY DEF Next, Operator, CheckBeforePayout, CanselFiscalBill, DayReport, Pay
<1>3. UNCHANGED <<callVars, owed>>
  BY <1>2 DEF Environment, Printed, PowerSwitch, PaperOut, PaperIn, DayPasses, Outside
<1>4. (reg'.mode = "doc" <=> reg.mode = "doc") /\ reg'.sales = reg.sales
  BY <1>1, <1>2 DEF Environment, Printed, PowerSwitch, PaperOut, PaperIn, DayPasses,
     TypeOK, Registers
<1>5. Destination \in Places /\ Destination' = Destination
  BY <1>1, <1>3 DEF Destination, TypeOK, Places, Commands, CheckLeft, callVars
<1>6. PICK c \in Places : Destination = c /\ Destination' = c
  BY <1>5
<1>7. StepsAt(c)' = StepsAt(c)
  BY <1>3, <1>4, StepsAtKept DEF callVars
<1>8. QED BY <1>3, <1>6, <1>7 DEF StepsLeft, callVars

(* CheckFiscalStatus and PrintFiscalBill (fr.c:23, fr.c:627): for every     *)
(* capacity of the register, every number of faults and every loss, refusal *)
(* and repetition each step of the server takes it nearer to its queue.     *)
THEOREM VisitsEnd == Spec => EveryStepCounts
<1>1. IInv => StepsLeft \in Nat
  <2>1. SUFFICES ASSUME IInv PROVE StepsLeft \in Nat
    OBVIOUS
  <2>2. Destination \in Places \ CheckPlaces
    BY <2>1 DEF IInv, TypeOK, Destination, CheckLeft, Places, Commands, CheckPlaces
  <2>3. \A c \in {"open", "sell", "close"} : ForCommand(c) \in Nat
    BY <2>1, ForCommandBound DEF IInv
  <2>4. ForBills(owed) \in Nat /\ ForBills(owed \ {job}) \in Nat
    BY Needs
  <2>5. \A c \in Places \ CheckPlaces : StepsAt(c) \in Nat
    BY <2>3, <2>4, StepsAtPlaces DEF Places, Commands, CheckPlaces
  <2>6. QED BY <2>2, <2>5, Needs DEF StepsLeft
<1>2. ASSUME IInv, pc # "idle", Next, Server PROVE StepsLeft' < StepsLeft
  <2>1. ~ConnectFiscalFast /\ ~PrintCheck
    BY <1>2 DEF ConnectFiscalFast, PrintCheck
  <2>2. CASE CheckFiscalStatus
    BY <1>2, <2>2, CheckCounts
  <2>3. CASE PrintFiscalBill
    BY <1>2, <2>3, CommandCounts, OtherCounts
  <2>4. CASE ConnectPolls \/ ConnectStatus \/ NextBill \/ CanselBill \/ PrintDayReportClear
             \/ Unlock
    BY <1>2, <2>4, OtherCounts
  <2>5. QED BY <1>2, <2>1, <2>2, <2>3, <2>4 DEF Server
<1>3. IInv /\ [Next]_vars /\ StepsLeft \in Nat /\ (StepsLeft \in Nat)'
        => [pc # "idle" => StepsLeft' <= StepsLeft /\ (Server => StepsLeft' < StepsLeft)]_vars
  <2>1. SUFFICES ASSUME IInv, pc # "idle", Next, StepsLeft \in Nat, StepsLeft' \in Nat
                 PROVE  StepsLeft' <= StepsLeft /\ (Server => StepsLeft' < StepsLeft)
    OBVIOUS
  <2>2. CASE Server
    <3>1. StepsLeft' < StepsLeft
      BY <1>2, <2>1, <2>2
    <3>2. QED BY <2>1, <3>1
  <2>3. CASE ~Server
    BY <2>1, <2>3, OthersCostNothing
  <2>4. QED BY <2>2, <2>3
<1>4. QED BY <1>1, <1>3, Inductive, PTL DEF Spec, EveryStepCounts

=============================================================================
