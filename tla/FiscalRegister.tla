--------------------------- MODULE FiscalRegister ---------------------------
(***************************************************************************)
(* The fiscal register (PROJECT/services/fr.c, PROJECT/drivers/fiscal) as   *)
(* the event server drives it: EVENT_SEC looks for a register that is lost  *)
(* or in error, EVENT_PRINT_CHECK has a bill printed for the cash and one   *)
(* for the card money, the operator's key prints a report or cancels a bill *)
(* that was left open.                                                     *)
(*                                                                         *)
(* A step is one exchange with the register, with everything the code does  *)
(* before the next one.  An exchange is answered, or refused with an error  *)
(* code, or brings no answer or one that is not the command's: then the     *)
(* register may have obeyed all the same.  The driver reports the first by  *)
(* FISC_OK, the second by FISC_ERR and a code, a missing answer by FISC_ERR *)
(* and the code of an earlier exchange, since it leaves *err alone, a wrong *)
(* one by FISC_ERR and 0.  The bytes of an exchange, the sums, the text of  *)
(* a bill and its two formats, whose control is the same, are left out; a   *)
(* bill is the number of its sales.                                        *)
(***************************************************************************)
EXTENDS Integers, FiniteSets

CONSTANTS
  Settings,      \* the settings a machine of the run may have
  MaxSales,      \* sales the register takes in one document
  MaxPayments,   \* bound: payments
  MaxFaults      \* bound: exchanges lost, spoilt or refused by a defect,
                 \*        power cuts, paper-outs and ends of a shift

AllSettings == [ext : BOOLEAN,       \* CommandV2: extended format of the commands
                ignore : BOOLEAN,    \* DisableFiscalErrors
                autoclose : 0..2]    \* EnableFiscalDayClear

ASSUME SettingsAssumption == Settings \subseteq AllSettings
ASSUME BoundAssumption == MaxSales \in Nat \ {0} /\ MaxPayments \in Nat /\ MaxFaults \in Nat

Bills == {"cash", "online"}

Jobs == Bills \cup {"none", "connect", "cancel", "report"}

(* What is on the line next; "idle": the server waits for an event.        *)
Commands == {"open", "sell", "close", "cancel", "report", "status",
             "continue", "zreport", "tobuf", "frombuf", "openday"}
Places == Commands \cup {"idle", "bills", "poll", "connect", "connstatus", "unlock"}

(* What an error code does: set a flag TstCriticalFiscalError looks at, set *)
(* one it does not look at (20, 2F, 71 and 93), or set none.               *)
Codes == {"code", "minor", "unknown"}
Flags == {"conn", "paper", "code", "day", "minor"}

Registers ==
  [on : BOOLEAN, mode : {"shift", "expired", "closed", "doc"},
   paper : {"ok", "passive", "active", "wait"}, busy : BOOLEAN, full : BOOLEAN,
   sales : 0..MaxSales]

VARIABLES
  settings,      \* fixed while the machine runs
  pc, job,       \* where the server is, and for what
  ret,           \* where CheckFiscalStatus goes on when it returns 0
  repeat,        \* the flag repeat of PrintFiscalBill
  err,           \* its err: a code, or "zero"
  res,           \* the job under way returns 0
  lock,          \* FLock: 1 when free
  FiscalConnState,
  errors,        \* ERROR_FR_CONN and the flags from ERROR_FR on
  owed,          \* bills EVENT_PRINT_CHECK has to print
  reg,           \* the register: power, mode, paper, sales of the document
  closedNow,     \* history: bills closed for the payment under way
  closed,        \* history: numbers of sales in the bills that were closed
  payments, faults  \* history: for the bounds

callVars == <<pc, job, ret, repeat, err, res, lock>>
flagVars == <<FiscalConnState, errors>>
historyVars == <<closedNow, closed, payments, faults>>
vars == <<settings, callVars, flagVars, owed, reg, historyVars>>

-----------------------------------------------------------------------------
(* The register, seen through the commands of fiscal.c and the status codes *)
(* fr.c distinguishes.                                                     *)

Ready == reg.on /\ ~reg.busy

Accepts(cmd) ==
  /\ cmd \in {"open", "sell", "close", "zreport", "frombuf"} => reg.paper = "ok"
  /\ cmd = "open" => reg.mode = "shift"
  /\ cmd \in {"sell", "close", "cancel"} => reg.mode = "doc"
  /\ cmd = "sell" => reg.sales < MaxSales
  /\ cmd = "close" => reg.sales > 0
  /\ cmd \in {"zreport", "tobuf"} => reg.mode \in {"shift", "expired"}
  /\ cmd = "tobuf" => ~reg.full
  /\ cmd = "frombuf" => reg.mode # "doc"
  /\ cmd = "openday" => reg.mode = "closed"
  /\ cmd = "continue" => reg.paper = "wait"

After(cmd) ==
  CASE cmd = "open" -> [reg EXCEPT !.mode = "doc", !.sales = 0]
    [] cmd = "sell" -> [reg EXCEPT !.sales = reg.sales + 1]
    [] cmd \in {"close", "cancel"} -> [reg EXCEPT !.mode = "shift", !.sales = 0, !.busy = TRUE]
    [] cmd = "frombuf" -> [reg EXCEPT !.full = FALSE, !.busy = TRUE]
    [] cmd = "zreport" -> [reg EXCEPT !.mode = "closed", !.busy = TRUE]
    [] cmd = "tobuf" -> [reg EXCEPT !.mode = "closed"]
    [] cmd = "openday" -> [reg EXCEPT !.mode = "shift"]
    [] cmd = "continue" -> [reg EXCEPT !.paper = "ok"]
    [] OTHER -> reg

Obeys(cmd) ==
  /\ reg' = After(cmd)
  /\ IF cmd = "close"
     THEN closedNow' = closedNow + 1 /\ closed' = closed \cup {reg.sales}
     ELSE UNCHANGED <<closedNow, closed>>

(* FiscSendCommand and FiscReceiveAnswer: a register that is printing       *)
(* answers NAK; the driver polls until it is ready, takes that for the      *)
(* acceptance of the command and waits for an answer that never comes.  A   *)
(* command that does not fit is refused with a code of the table; a defect  *)
(* refuses any command with any code.  "zero": the answer has the length or *)
(* the command of another one and the code 0.                              *)
Garbled == {"none", "zero"}
Failures == Garbled \cup Codes

Exchange(cmd, answer) ==
  \/ /\ answer = "ok" /\ Ready /\ Accepts(cmd)
     /\ Obeys(cmd)
     /\ UNCHANGED faults
  \/ /\ answer = "code" /\ Ready /\ ~Accepts(cmd)
     /\ UNCHANGED <<reg, closedNow, closed, faults>>
  \/ /\ answer = "none" /\ ~Ready
     /\ UNCHANGED <<reg, closedNow, closed, faults>>
  \/ /\ answer \in Failures /\ Ready /\ faults < MaxFaults
     /\ faults' = faults + 1
     /\ \/ answer \in Garbled /\ Accepts(cmd) /\ Obeys(cmd)
        \/ UNCHANGED <<reg, closedNow, closed>>

(* What the driver leaves in *err.                                         *)
ErrAfter(old, answer) ==
  IF answer = "none" THEN old ELSE IF answer \in Codes THEN answer ELSE "zero"

-----------------------------------------------------------------------------

(* TstCriticalFiscalError looks at the codes of FiscalCriticalErrorsTable   *)
(* only; TstCriticalErrors adds the connection, unless both are to be       *)
(* ignored.                                                                *)
CriticalFlags == errors \ {"minor"}
CriticalFiscal == CriticalFlags \ {"conn"} # {}
Critical == ~settings.ignore /\ CriticalFlags # {}

SetFiscalErrorByCode(code) == errors \cup ({code} \cap {"code", "minor"})
ClearFiscalErrors(flags) == flags \cap {"conn"}

Connected == FiscalConnState' = TRUE
Disconnected(flags) ==
  /\ FiscalConnState' = FALSE
  /\ errors' = ClearFiscalErrors(flags) \cup {"conn"}

(* A document of before the start may still be open.                       *)
Init ==
  /\ settings \in Settings
  /\ pc = "idle" /\ job = "none" /\ ret = "idle"
  /\ repeat = FALSE /\ err = "zero" /\ res = FALSE
  /\ lock = 1
  /\ FiscalConnState = TRUE /\ errors = {}
  /\ owed = {}
  /\ reg \in [on : {TRUE}, mode : {"shift", "doc"}, paper : {"ok"}, busy : {FALSE},
              full : {settings.autoclose = 2, FALSE}, sales : {0}]
  /\ closedNow = 0 /\ closed = {} /\ payments = 0 /\ faults = 0

(* FPend; FPost follows on every way out.                                  *)
FPend == lock = 1 /\ lock' = 0

(* CheckFiscalStatus is called and will go on at r.                        *)
CheckThen(r) == pc' = "poll" /\ ret' = r

-----------------------------------------------------------------------------
(* CheckFiscalStatus.                                                      *)

(* It returns: 0 leads on, anything else gives the job up.                 *)
GivesUpAlways == pc' = "unlock"
ReturnsNegative == pc' = IF ret = "idle" THEN "idle" ELSE "unlock"
Returns0 == pc' = ret

(* check_exit: a pass that began too late, since the register was busy      *)
(* before, returns -1 for a status in order.                               *)
CheckExit == Returns0 \/ ReturnsNegative

InCheck == UNCHANGED <<settings, job, ret, repeat, err, res, lock, owed, payments>>

NoExchange == UNCHANGED <<reg, closedNow, closed, faults>>

(* A pass of the loop begins with a poll; while the register is busy the    *)
(* loop goes on (a step that changes nothing) until WAIT_PRINT_TIMEOUT.     *)
PollReady ==
  /\ pc = "poll" /\ Ready
  /\ pc' = "status"
  /\ InCheck /\ NoExchange /\ UNCHANGED flagVars

PollTimeout ==
  /\ pc = "poll" /\ reg.on /\ reg.busy
  /\ ReturnsNegative
  /\ InCheck /\ NoExchange /\ UNCHANGED flagVars

PollLost ==
  /\ pc = "poll"
  /\ \/ ~reg.on /\ UNCHANGED faults
     \/ reg.on /\ faults < MaxFaults /\ faults' = faults + 1
  /\ FiscalConnState' = FALSE
  /\ errors' = errors \cup {"conn"}
  /\ ReturnsNegative
  /\ InCheck /\ UNCHANGED <<reg, closedNow, closed>>

(* The full status is not answered, or refused with a code.                *)
StatusFails ==
  /\ pc = "status"
  /\ \/ /\ \E a \in Garbled : Exchange("status", a)
        /\ Disconnected(errors)
     \/ \E code \in Codes :
          /\ Exchange("status", code)
          /\ Connected
          /\ errors' = SetFiscalErrorByCode(code) \ {"conn"}
  /\ ReturnsNegative
  /\ InCheck

(* The submodes without paper: once paper is back in the middle of a        *)
(* document the register is told to go on printing.                        *)
StatusPaper ==
  /\ pc = "status" /\ Ready /\ reg.paper # "ok"
  /\ Connected
  /\ errors' = (errors \cup {"paper"}) \ {"conn"}
  /\ IF reg.paper = "wait" THEN pc' = "continue" ELSE ReturnsNegative
  /\ InCheck /\ NoExchange

PrintContinue ==
  /\ pc = "continue"
  /\ \E a \in {"ok"} \cup Failures : Exchange("continue", a)
  /\ ReturnsNegative
  /\ InCheck /\ UNCHANGED flagVars

(* The modes: 0-2 are in order and one here, 3 is a shift of more than 24   *)
(* hours, 4 a closed shift; an open document (8) is left as it is.          *)
StatusMode ==
  /\ pc = "status" /\ Ready /\ reg.paper = "ok"
  /\ Connected
  /\ LET known == errors \ {"conn", "paper"}
     IN \/ reg.mode = "shift" /\ errors' = {} /\ CheckExit
        \/ reg.mode = "doc" /\ errors' = known /\ CheckExit
        \/ reg.mode = "closed" /\ errors' = known /\ pc' = "openday"
        \/ reg.mode = "expired" /\ settings.autoclose = 0 /\ errors' = known \cup {"day"} /\ CheckExit
        \/ reg.mode = "expired" /\ settings.autoclose = 1 /\ errors' = known /\ pc' = "zreport"
        \/ reg.mode = "expired" /\ settings.autoclose = 2 /\ errors' = known /\ pc' = "tobuf"
  /\ InCheck /\ NoExchange

(* The report of an expired shift leaves err at the 0 of the status when it *)
(* is not answered, and CheckFiscalStatus returns 0.                       *)
CloseDay ==
  /\ pc \in {"zreport", "tobuf"}
  /\ \/ /\ \E a \in {"ok"} \cup Garbled : Exchange(pc, a)
        /\ UNCHANGED errors
        /\ CheckExit
     \/ \E code \in Codes :
          /\ Exchange(pc, code)
          /\ errors' = SetFiscalErrorByCode(code)
          /\ IF pc = "tobuf" /\ reg.full /\ code = "code" THEN pc' = "frombuf"
             ELSE ReturnsNegative
  /\ InCheck /\ UNCHANGED FiscalConnState

(* The buffer of reports was full (4B) and is printed.  Without an answer   *)
(* err keeps the 4B.                                                       *)
ReportsFromBuf ==
  /\ pc = "frombuf"
  /\ \E a \in {"ok"} \cup Failures :
       /\ Exchange("frombuf", a)
       /\ errors' = SetFiscalErrorByCode(ErrAfter("code", a))
       /\ IF a \in {"ok", "zero"} THEN CheckExit ELSE ReturnsNegative
  /\ InCheck /\ UNCHANGED FiscalConnState

OpenDay ==
  /\ pc = "openday"
  /\ \/ /\ Exchange("openday", "ok")
        /\ errors' = ClearFiscalErrors(errors) /\ UNCHANGED FiscalConnState
        /\ CheckExit
     \/ /\ \E code \in Codes :
             Exchange("openday", code) /\ errors' = SetFiscalErrorByCode(code)
        /\ UNCHANGED FiscalConnState
        /\ ReturnsNegative
     \/ /\ \E a \in Garbled : Exchange("openday", a)
        /\ Disconnected(errors)
        /\ ReturnsNegative
  /\ InCheck

CheckFiscalStatus ==
  \/ PollReady \/ PollTimeout \/ PollLost
  \/ StatusFails \/ StatusPaper \/ PrintContinue \/ StatusMode
  \/ CloseDay \/ ReportsFromBuf \/ OpenDay

-----------------------------------------------------------------------------
(* PrintFiscalBill.                                                        *)

(* The error branch of the three commands: a code, new or left from before, *)
(* sets its flag, if it has one; no code means no connection.              *)
Refusal(code) ==
  IF code = "zero" THEN Disconnected(errors)
  ELSE errors' = SetFiscalErrorByCode(code) /\ UNCHANGED FiscalConnState

Fails(cmd) ==
  /\ \E a \in Failures : Exchange(cmd, a) /\ err' = ErrAfter(err, a)
  /\ Refusal(err')

Following(cmd) == IF cmd = "open" THEN "sell" ELSE IF cmd = "sell" THEN "close" ELSE "unlock"

(* A command answered at the first attempt leads to the next one.           *)
NextCommandAnyTime(cmd) ==
  /\ Exchange(cmd, "ok") /\ err' = "zero"
  /\ repeat' = FALSE
  /\ pc' = Following(cmd) /\ res' = (cmd = "close")
  /\ UNCHANGED <<ret, flagVars>>
NextCommand(cmd) ==
  /\ ~repeat
  /\ Exchange(cmd, "ok") /\ err' = "zero"
  /\ pc' = Following(cmd) /\ res' = (cmd = "close")
  /\ UNCHANGED <<repeat, ret, flagVars>>

(* Once an attempt has failed the flag stays set, and the command is made   *)
(* again even after it has been answered.                                  *)
AgainAfterAnswer(cmd) ==
  /\ repeat
  /\ Exchange(cmd, "ok") /\ err' = "zero"
  /\ CheckThen(cmd)
  /\ UNCHANGED <<repeat, res, flagVars>>

AgainAfterFailure(cmd) ==
  /\ ~repeat
  /\ Fails(cmd)
  /\ repeat' = TRUE
  /\ CheckThen(cmd)
  /\ UNCHANGED res

(* The second failure ends it.                                             *)
GiveUpNever(cmd) ==
  /\ repeat
  /\ Fails(cmd)
  /\ CheckThen(cmd)
  /\ UNCHANGED <<repeat, res>>
GiveUpSilently(cmd) ==
  /\ repeat
  /\ Fails(cmd)
  /\ pc' = "unlock" /\ res' = TRUE
  /\ UNCHANGED <<repeat, ret>>
GiveUpAnew(cmd) ==
  /\ repeat
  /\ Fails(cmd)
  /\ repeat' = FALSE
  /\ CheckThen("open")
  /\ UNCHANGED res
GiveUp(cmd) ==
  /\ repeat
  /\ Fails(cmd)
  /\ pc' = "unlock"
  /\ UNCHANGED <<repeat, ret, res>>

(* The card bill without the extended format is closed by no command: both  *)
(* conditions of the online branch need ext.                               *)
CloseOnlineWithoutExt ==
  /\ pc = "close" /\ job = "online" /\ ~settings.ext
  /\ pc' = "unlock" /\ res' = TRUE
  /\ UNCHANGED <<ret, repeat, err, flagVars>> /\ NoExchange

PrintFiscalBill ==
  /\ \/ /\ \/ pc \in {"open", "sell"}
           \/ pc = "close" /\ (job = "cash" \/ settings.ext)
        /\ NextCommand(pc) \/ AgainAfterAnswer(pc) \/ AgainAfterFailure(pc) \/ GiveUp(pc)
     \/ CloseOnlineWithoutExt
  /\ UNCHANGED <<settings, job, lock, owed, payments>>

-----------------------------------------------------------------------------
(* The other jobs, and the events that start them.                         *)

Start(j, place) ==
  /\ FPend
  /\ job' = j /\ pc' = place
  /\ UNCHANGED <<repeat, res>>

(* EVENT_SEC, every tenth second: a register that is lost or in error is    *)
(* looked for at all speeds of the line.                                   *)
LostOnly == ~FiscalConnState
LostOrInError == ~FiscalConnState \/ CriticalFiscal

ConnectFiscalFast ==
  /\ pc = "idle"
  /\ LostOrInError
  /\ Start("connect", "connect")
  /\ UNCHANGED <<settings, ret, err, flagVars, owed, reg, historyVars>>

ConnectPolls ==
  /\ pc = "connect"
  /\ \/ /\ reg.on
        /\ pc' = "connstatus"
        /\ UNCHANGED <<flagVars, faults>>
     \/ /\ IF reg.on THEN faults < MaxFaults /\ faults' = faults + 1 ELSE UNCHANGED faults
        /\ FiscalConnState' = FALSE /\ errors' = errors \cup {"conn"}
        /\ pc' = "unlock"
  /\ UNCHANGED <<settings, job, ret, repeat, err, res, lock, owed, reg, closedNow,
                 closed, payments>>

ConnectStatus ==
  /\ pc = "connstatus"
  /\ pc' = "unlock"
  /\ \/ /\ Exchange("status", "ok")
        /\ Connected /\ errors' = errors \ {"conn"} /\ res' = TRUE
     \/ /\ \E code \in Codes :
             Exchange("status", code) /\ errors' = SetFiscalErrorByCode(code) \ {"conn"}
        /\ Connected /\ res' = TRUE
     \/ /\ \E a \in Garbled : Exchange("status", a)
        /\ Disconnected(errors) /\ UNCHANGED res
  /\ UNCHANGED <<settings, job, ret, repeat, err, lock, owed, payments>>

(* EVENT_SEC with the price of a token in the machine: no lock is taken.    *)
CheckBeforePayout ==
  /\ pc = "idle" /\ owed # {} /\ ~Critical
  /\ CheckThen("idle")
  /\ job' = "none"
  /\ UNCHANGED <<settings, repeat, err, res, lock, flagVars, owed, reg, historyVars>>

(* EVENT_PRINT_CHECK.  With a critical error the money is counted as paid   *)
(* for without a bill.                                                     *)
PrintCheck ==
  /\ pc = "idle" /\ owed # {}
  /\ \/ Critical /\ owed' = {} /\ UNCHANGED pc
     \/ ~Critical /\ pc' = "bills" /\ UNCHANGED owed
  /\ UNCHANGED <<settings, job, ret, repeat, err, res, lock, flagVars, reg, historyVars>>

(* The bill for the cash comes first.  err is a local variable without an   *)
(* initial value; CheckFiscalStatus has one of its own.                    *)
NextBill ==
  /\ pc = "bills"
  /\ LET b == IF "cash" \in owed THEN "cash" ELSE "online"
     IN \/ /\ owed = {}
           /\ pc' = "idle"
           /\ UNCHANGED <<job, ret, repeat, err, res, lock, owed, closedNow>>
        \/ /\ owed # {} /\ ~FiscalConnState
           /\ owed' = owed \ {b}
           /\ UNCHANGED <<callVars, closedNow>>
        \/ /\ owed # {} /\ FiscalConnState
           /\ Start(b, "poll") /\ ret' = "open"
           /\ err' \in Codes \cup {"zero"}
           /\ closedNow' = 0
           /\ UNCHANGED owed
  /\ UNCHANGED <<settings, flagVars, reg, closed, payments, faults>>

(* The operator's key, in the service mode: cancel an open bill ...        *)
CanselFiscalBill ==
  /\ pc = "idle"
  /\ Start("cancel", "poll") /\ ret' = "cancel"
  /\ UNCHANGED <<settings, err, flagVars, owed, reg, historyVars>>

CanselBill ==
  /\ pc = "cancel"
  /\ \E a \in {"ok"} \cup Failures : Exchange("cancel", a) /\ res' = (a = "ok")
  /\ pc' = "unlock"
  /\ UNCHANGED <<settings, job, ret, repeat, err, lock, flagVars, owed, payments>>

(* ... or print a Z-report.  Its err is not set without an answer.         *)
DayReport ==
  /\ pc = "idle" /\ FiscalConnState
  /\ Start("report", "report")
  /\ err' \in Codes \cup {"zero"}
  /\ UNCHANGED <<settings, ret, flagVars, owed, reg, historyVars>>

PrintDayReportClear ==
  /\ pc = "report"
  /\ \E a \in {"ok"} \cup Failures : Exchange("zreport", a) /\ err' = ErrAfter(err, a)
  /\ errors' = SetFiscalErrorByCode(err') \ {"day"}
  /\ pc' = "unlock"
  /\ UNCHANGED <<settings, job, ret, repeat, res, lock, FiscalConnState, owed, payments>>

(* FPost, and what the caller does with the result: a lost register found   *)
(* again and a cancelled bill are followed by a check of the status; a      *)
(* bill is not owed any more, whatever became of it.  The local variables   *)
(* end here.                                                               *)
FPostIfDone == lock' = IF res THEN lock + 1 ELSE lock
FPost == lock' = lock + 1

Unlock ==
  /\ pc = "unlock"
  /\ FPost
  /\ job' = "none"
  /\ IF job = "cancel" \/ (job = "connect" /\ res) THEN CheckThen("idle")
     ELSE pc' = (IF job \in Bills THEN "bills" ELSE "idle") /\ ret' = "idle"
  /\ repeat' = FALSE /\ err' = "zero" /\ res' = FALSE
  /\ owed' = owed \ {job}
  /\ UNCHANGED <<settings, flagVars, reg, historyVars>>

Server ==
  \/ CheckFiscalStatus \/ PrintFiscalBill
  \/ ConnectFiscalFast \/ ConnectPolls \/ ConnectStatus
  \/ PrintCheck \/ NextBill
  \/ CanselBill \/ PrintDayReportClear \/ Unlock

Operator == CanselFiscalBill \/ DayReport

-----------------------------------------------------------------------------
(* The customer and the register on its own.                               *)

Outside == UNCHANGED <<settings, callVars, flagVars, closedNow, closed>>

Pay(bills) ==
  /\ pc = "idle" /\ payments < MaxPayments
  /\ payments' = payments + 1 /\ owed' = owed \cup bills
  /\ Outside /\ UNCHANGED <<reg, faults>>

Printed ==
  /\ reg.busy
  /\ reg' = [reg EXCEPT !.busy = FALSE]
  /\ Outside /\ UNCHANGED <<owed, payments, faults>>

(* Power of the register; the document it had open stays open.             *)
PowerSwitch ==
  /\ reg.on => faults < MaxFaults
  /\ faults' = IF reg.on THEN faults + 1 ELSE faults
  /\ reg' = [reg EXCEPT !.on = ~@, !.busy = FALSE]
  /\ Outside /\ UNCHANGED <<owed, payments>>

PaperOut ==
  /\ reg.on /\ reg.paper = "ok" /\ faults < MaxFaults
  /\ faults' = faults + 1
  /\ reg' = [reg EXCEPT !.paper = IF reg.busy THEN "active" ELSE "passive"]
  /\ Outside /\ UNCHANGED <<owed, payments>>

PaperIn ==
  /\ reg.paper \in {"passive", "active"}
  /\ reg' = [reg EXCEPT !.paper = IF @ = "active" THEN "wait" ELSE "ok"]
  /\ Outside /\ UNCHANGED <<owed, payments, faults>>

(* 24 hours of a shift are over.                                           *)
DayPasses ==
  /\ reg.mode = "shift" /\ faults < MaxFaults
  /\ faults' = faults + 1
  /\ reg' = [reg EXCEPT !.mode = "expired"]
  /\ Outside /\ UNCHANGED <<owed, payments>>

Environment ==
  \/ \E bills \in SUBSET Bills \ {{}} : Pay(bills)
  \/ Printed \/ PowerSwitch \/ PaperOut \/ PaperIn \/ DayPasses

Next == Server \/ CheckBeforePayout \/ Operator \/ Environment

Spec == Init /\ [][Next]_vars

(* The server runs whenever it has something to do, EVENT_SEC comes every   *)
(* second, and a register that prints gets done.                           *)
FairSpec == Spec /\ WF_vars(Server) /\ WF_vars(Printed) /\ SF_vars(ConnectFiscalFast)

-----------------------------------------------------------------------------

TypeOK ==
  /\ settings \in Settings
  /\ pc \in Places /\ job \in Jobs
  /\ ret \in {"idle", "open", "sell", "close", "cancel"}
  /\ repeat \in BOOLEAN /\ err \in Codes \cup {"zero"} /\ res \in BOOLEAN
  /\ lock \in {0, 1}
  /\ FiscalConnState \in BOOLEAN /\ errors \subseteq Flags
  /\ owed \subseteq Bills
  /\ reg \in Registers
  /\ closedNow \in Nat /\ closed \subseteq Nat
  /\ payments \in 0..MaxPayments /\ faults \in 0..MaxFaults

(* However its commands fail and are repeated, PrintFiscalBill never has    *)
(* more than one bill closed for a payment, and every bill that is closed   *)
(* holds exactly one sale.                                                 *)
OneBillOneSale == closedNow <= 1 /\ closed \subseteq {1}

(* Every way out of a job gives the lock back: the register is free         *)
(* whenever the server waits for an event.                                 *)
LockGivenBack == pc \in {"idle", "bills"} => lock = 1

(* EVENT_PRINT_CHECK writes the record of a printed bill only when the bill *)
(* was closed, with the extended format or for cash.                       *)
RecordMeansBill ==
  pc = "unlock" /\ job \in Bills /\ res /\ (job = "cash" \/ settings.ext)
    => closedNow = 1

(* The server comes back from the register: the attempts of a bill end,     *)
(* however they fail.                                                      *)
ServerReturns == pc # "idle" ~> pc = "idle"

(* Steps the server can still make before it waits for an event again: what *)
(* is left of CheckFiscalStatus and of what follows it.  A command that is  *)
(* repeated after a failure ends with the first refusal, so what counts is  *)
(* how often the register can still obey it.                               *)
CheckLeft == [poll |-> 4, status |-> 3, tobuf |-> 2, zreport |-> 1, frombuf |-> 1,
              continue |-> 1, openday |-> 1]
Destination == IF pc \in DOMAIN CheckLeft THEN ret ELSE pc

CanObey(cmd) == IF cmd = "sell" THEN MaxSales - reg.sales
                ELSE IF (cmd = "open") <=> (reg.mode = "doc") THEN 0 ELSE 1

PerCommand == 5 * MaxSales + 6
PerBill == 3 * PerCommand + 6
ForBills(S) == (IF "cash" \in S THEN PerBill ELSE 0) + (IF "online" \in S THEN PerBill ELSE 0)

ForCommand(cmd) ==
  IF repeat THEN 5 * CanObey(cmd) + 1
  ELSE CASE cmd = "open" -> 3 * PerCommand
         [] cmd = "sell" -> 2 * PerCommand
         [] cmd = "close" -> PerCommand

StepsAt(place) ==
  CASE place = "idle" -> 0
    [] place = "bills" -> 1 + ForBills(owed)
    [] place \in {"open", "sell", "close"} -> ForCommand(place) + 2 + ForBills(owed \ {job})
    [] place = "unlock" -> IF job \in Bills THEN 2 + ForBills(owed \ {job}) ELSE 5
    [] place = "connect" -> 7
    [] place \in {"connstatus", "cancel", "report"} -> 6

StepsLeft ==
  StepsAt(Destination) + (IF pc \in DOMAIN CheckLeft THEN CheckLeft[pc] ELSE 0)

(* A visit to the register is over after a number of steps known when it    *)
(* begins, however many exchanges fail and whatever the register does       *)
(* meanwhile: each step of the server is one less.                         *)
EveryStepCounts ==
  [][pc # "idle" => StepsLeft' <= StepsLeft /\ (Server => StepsLeft' < StepsLeft)]_vars

Healthy ==
  /\ reg.on /\ reg.paper = "ok" /\ reg.mode # "doc"
  /\ reg.mode = "expired" => settings.autoclose # 0

(* A register that works is found again, and the errors that stop the       *)
(* machine are cleared without anybody's help, unless it stops working.  A  *)
(* code outside FiscalCriticalErrorsTable may stay: EVENT_SEC looks for a   *)
(* register that is lost or has a critical error.                          *)
ErrorsClear == CriticalFlags # {} /\ Healthy ~> CriticalFlags = {} \/ ~Healthy

=============================================================================
