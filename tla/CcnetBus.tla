------------------------------ MODULE CcnetBus ------------------------------
(***************************************************************************)
(* The bill validator and its bus.  Two tasks give it commands: the         *)
(* validator task polls it and reconnects it, and the event server opens    *)
(* it, closes it and lets it stack a bill (PROJECT/services/validator.c,    *)
(* PROJECT/drivers/ccnet/CCRSProtocol.c).  A command is put into the one    *)
(* buffer cc_buf, the lock VLock is taken, and Transmit sends what the      *)
(* buffer holds, up to three times.  The other task may fill the buffer     *)
(* while it waits for the lock.  The validator task has the higher          *)
(* priority; it sleeps while bytes go over the line and between two polls.  *)
(*                                                                         *)
(* The device is external.  It reports a stacked bill until its report is   *)
(* acknowledged.  The queue of the server is shared with the other tasks:   *)
(* a post may find it full, and is lost then.                               *)
(*                                                                         *)
(* An operator directly above another one with the same parameters is a     *)
(* likely mistake in that code, used by no action.                          *)
(***************************************************************************)
EXTENDS Integers

CONSTANTS
  MaxBills,      \* bound: bills put into the device
  MaxFaults      \* bound: frames the line loses or damages, and bills the
                 \* device reports by an index outside the bill table

ASSUME BoundsAssumption == MaxBills \in Nat /\ MaxFaults \in Nat

Tasks == {"validator", "server"}
Commands == {"RESET", "GET_BILL_TABLE", "POLL", "ENABLE", "DISABLE", "PACK"}
Replies == {"ACK", "NAK", "INV_CMD", "TABLE", "IDLING", "ESCROW", "PACKED", "fail"}

VARIABLES
  lock,          \* the task that holds VLock, or "free"
  cc_buf,        \* the command in the buffer
  damaged,       \* the buffer was filled while its bytes were sent
  reply,         \* what TransmitCMD returned in this pass, "fail" for an error
  pc,            \* where in Transmit a task is, or "idle"
  try,           \* the pass of the loop in Transmit
  step,          \* what the validator task is doing
  seen,          \* the answer it got, or "none" yet
  VConnStat, VBillCount,
  stacked, escrow,     \* EVENT_BILL_STACKED, _ESCROW in the server's queue
  enabled, bill,       \* the device: open for bills, the bill inside
  inserted, packed, credited,          \* history
  unposted,      \* history: bills in VBillCount whose event was lost
  lostAcks, misread,   \* history: reports of a packed bill whose acknowledgement
                       \* got lost, and those the server read for its answer
  dropped,       \* history: bills wiped out by a report with a wrong index
  faults         \* history

busVars == <<lock, cc_buf, damaged, reply, pc, try>>
taskVars == <<step, seen, VConnStat, VBillCount, stacked, escrow, credited,
              unposted>>
deviceVars == <<enabled, bill, inserted, packed>>
lineVars == <<lostAcks, misread, dropped, faults>>
vars == <<busVars, taskVars, deviceVars, lineVars>>

Init ==
  /\ lock = "free" /\ cc_buf = "POLL" /\ damaged = FALSE
  /\ reply = "none" /\ pc = [t \in Tasks |-> "idle"] /\ try = 0
  /\ step = "sleep" /\ seen = "none"
  /\ VConnStat = FALSE /\ VBillCount = 0 /\ stacked = 0 /\ escrow = 0
  /\ enabled = FALSE /\ bill = "none"
  /\ inserted = 0 /\ packed = 0 /\ credited = 0
  /\ unposted = 0 /\ lostAcks = 0 /\ misread = 0 /\ dropped = 0 /\ faults = 0

-----------------------------------------------------------------------------
(* Calling a command: the buffer is filled before the lock is taken.  The   *)
(* validator task takes a free lock before anyone else can run.            *)

Fill(command) ==
  /\ cc_buf' = command
  /\ damaged' = (damaged \/ \E u \in Tasks : pc[u] = "sending")
  /\ UNCHANGED reply

ValidatorCalls(command) ==
  /\ Fill(command)
  /\ seen' = "none"
  /\ IF lock = "free"
     THEN /\ lock' = "validator" /\ try' = 1
          /\ pc' = [pc EXCEPT !["validator"] = "send"]
     ELSE /\ pc' = [pc EXCEPT !["validator"] = "lock"]
          /\ UNCHANGED <<lock, try>>

ServerCalls(command) ==
  /\ Fill(command)
  /\ pc' = [pc EXCEPT !["server"] = "lock"]
  /\ UNCHANGED <<lock, try>>

(* The validator task is ready to run; only the lock may be handed on.  It  *)
(* waits for the lock, for the line, for an answer and between two polls.   *)
ValidatorReady ==
  \/ pc["validator"] = "idle" /\ step # "sleep"
  \/ pc["validator"] = "send"

ServerMay == pc["server"] = "idle" /\ ~ValidatorReady

-----------------------------------------------------------------------------
(* Transmit.                                                               *)

LockFreeAlways == TRUE
LockFree == lock = "free"

VPend(t) ==
  /\ pc[t] = "lock" /\ LockFree
  /\ lock' = t /\ try' = 1
  /\ pc' = [pc EXCEPT ![t] =
              IF t = "validator" /\ step = "bus" THEN "hold" ELSE "send"]
  /\ UNCHANGED <<cc_buf, damaged, reply, taskVars, deviceVars, lineVars>>

Runs(t) == t = "server" => ~ValidatorReady

SendCommand(t) ==
  /\ pc[t] = "send" /\ Runs(t)
  /\ damaged' = FALSE
  /\ pc' = [pc EXCEPT ![t] = "sending"]
  /\ UNCHANGED <<lock, cc_buf, reply, try, taskVars, deviceVars, lineVars>>

(* The device obeys a frame that arrives, and answers it.                  *)
Obeyed(command) ==
  /\ enabled' = CASE command = "ENABLE" -> TRUE
                  [] command \in {"DISABLE", "RESET"} -> FALSE
                  [] OTHER -> enabled
  /\ bill' = CASE command = "PACK" /\ bill = "escrow" -> "packed"
               [] command = "RESET" /\ bill = "escrow" -> "none"
               [] OTHER -> bill
  /\ packed' = IF command = "PACK" /\ bill = "escrow" THEN packed + 1 ELSE packed
  /\ UNCHANGED inserted

Answer(command) ==
  CASE command = "POLL" -> CASE bill = "escrow" -> "ESCROW"
                             [] bill = "packed" -> "PACKED"
                             [] OTHER -> "IDLING"
    [] command = "GET_BILL_TABLE" -> "TABLE"
    [] command = "PACK" /\ bill # "escrow" -> "INV_CMD"
    [] OTHER -> "ACK"

Faulty == faults < MaxFaults /\ faults' = faults + 1

(* A frame arrives whole when nobody touched the buffer; a fault may still   *)
(* spoil the answer.                                                       *)
Arrives ==
  /\ ~damaged
  /\ Obeyed(cc_buf)
  /\ \/ reply' = Answer(cc_buf) /\ UNCHANGED faults
     \/ reply' = "fail" /\ Faulty

NotArrives ==
  /\ \/ damaged /\ UNCHANGED faults
     \/ ~damaged /\ Faulty
  /\ reply' \in {"fail", "NAK"}
  /\ UNCHANGED deviceVars

Sent(t) ==
  /\ pc[t] = "sending" /\ Runs(t)
  /\ Arrives \/ NotArrives
  /\ pc' = [pc EXCEPT ![t] = "answer"]
  /\ UNCHANGED <<lock, cc_buf, damaged, try, taskVars, lostAcks, misread, dropped>>

(* The validator task reads tmpBuffer before another task can run.          *)
Return(t) ==
  /\ lock' = "free"
  /\ pc' = [pc EXCEPT ![t] = "idle"]
  /\ seen' = IF t = "server" THEN seen ELSE reply
  /\ reply' = "none" /\ try' = 0
  /\ UNCHANGED <<cc_buf, damaged, step, VConnStat, VBillCount, stacked, escrow,
                 credited, unposted>>

(* Data is acknowledged; the acknowledgement may be lost.                  *)
Data == reply \notin {"ACK", "NAK", "fail"}

Acknowledge(t) ==
  /\ pc[t] = "answer" /\ Runs(t) /\ Data
  /\ \/ /\ bill' = (IF bill = "packed" /\ reply = "PACKED" THEN "none" ELSE bill)
        /\ UNCHANGED <<lostAcks, faults>>
     \/ /\ Faulty /\ UNCHANGED bill
        /\ lostAcks' = lostAcks + (IF reply = "PACKED" THEN 1 ELSE 0)
  /\ misread' = misread + (IF t = "server" /\ reply = "PACKED" THEN 1 ELSE 0)
  /\ Return(t)
  /\ UNCHANGED <<enabled, inserted, packed, dropped>>

RepeatedOnceMore == reply \in {"NAK", "fail"} /\ try <= 3
Repeated == reply \in {"NAK", "fail"} /\ try < 3

Repeat(t) ==
  /\ pc[t] = "answer" /\ Runs(t) /\ Repeated
  /\ try' = try + 1 /\ reply' = "none"
  /\ pc' = [pc EXCEPT ![t] = "send"]
  /\ UNCHANGED <<lock, cc_buf, damaged, taskVars, deviceVars, lineVars>>

VPost(t) ==
  /\ pc[t] = "answer" /\ Runs(t) /\ ~Data /\ ~Repeated
  /\ Return(t)
  /\ UNCHANGED <<deviceVars, lineVars>>

Transmit(t) ==
  VPend(t) \/ SendCommand(t) \/ Sent(t) \/ Acknowledge(t) \/ Repeat(t) \/ VPost(t)

-----------------------------------------------------------------------------
(* ValidatorTask.                                                          *)

Goes(next) == step' = next
Calls(next, command) == Goes(next) /\ ValidatorCalls(command)
SleepsNot == Calls("poll", "POLL")
Sleeps == Goes("sleep") /\ seen' = "none" /\ UNCHANGED busVars

Turn(at) == pc["validator"] = "idle" /\ step = at
Answered(at) == Turn(at) /\ seen # "none"

BillsAlone == UNCHANGED <<VBillCount, unposted, dropped, stacked>>
Outside == UNCHANGED <<credited, deviceVars, lostAcks, misread>>

(* CC_BusReset: the reset line is held for a while under the lock.          *)
BusResetBegins ==
  /\ Goes("bus") /\ seen' = "none"
  /\ IF lock = "free"
     THEN /\ lock' = "validator" /\ try' = 1
          /\ pc' = [pc EXCEPT !["validator"] = "hold"]
     ELSE /\ pc' = [pc EXCEPT !["validator"] = "lock"]
          /\ UNCHANGED <<lock, try>>
  /\ UNCHANGED <<cc_buf, damaged, reply>>

BusResetEnds ==
  /\ pc["validator"] = "hold"
  /\ pc' = [pc EXCEPT !["validator"] = "idle"]
  /\ lock' = "free" /\ try' = 0
  /\ Obeyed("RESET") \/ UNCHANGED deviceVars
  /\ UNCHANGED <<cc_buf, damaged, reply, taskVars, lineVars>>

Wakes ==
  /\ Turn("sleep")
  /\ IF VConnStat THEN Calls("poll", "POLL") ELSE BusResetBegins
  /\ UNCHANGED <<VConnStat, escrow, faults>> /\ BillsAlone /\ Outside

(* ValidatorConnect, and the poll that follows it.                         *)
ValidatorConnect ==
  /\ \/ /\ Turn("bus")
        /\ Calls("reset", "RESET") /\ UNCHANGED VConnStat
     \/ /\ Answered("reset") /\ seen = "ACK"
        /\ Calls("table", "GET_BILL_TABLE") /\ UNCHANGED VConnStat
     \/ /\ Answered("table") /\ seen \notin {"fail", "INV_CMD"}
        /\ Calls("shut", "DISABLE") /\ UNCHANGED VConnStat
     \/ /\ Answered("shut") /\ seen = "ACK"
        /\ Calls("poll", "POLL") /\ VConnStat' = TRUE
     \/ /\ \/ Answered("reset") /\ seen # "ACK"
           \/ Answered("table") /\ seen \in {"fail", "INV_CMD"}
           \/ Answered("shut") /\ seen # "ACK"
        /\ Sleeps /\ UNCHANGED VConnStat
  /\ UNCHANGED <<escrow, faults>> /\ BillsAlone /\ Outside

NoAnswer ==
  /\ Answered("poll") /\ seen = "fail"
  /\ VConnStat' = FALSE
  /\ Sleeps
  /\ UNCHANGED <<escrow, faults>> /\ BillsAlone /\ Outside

BillPacked ==
  /\ Answered("poll") /\ seen = "PACKED"
  /\ Calls("close", "DISABLE")
  /\ UNCHANGED <<VConnStat, escrow, faults>> /\ BillsAlone /\ Outside

(* An index outside the bill table wipes out what is not fetched yet.       *)
Wiped(reported) ==
  /\ VBillCount' = 0 /\ unposted' = 0
  /\ dropped' = dropped + VBillCount + reported
  /\ Faulty

PostedNot == stacked
Posted == stacked + 1

BillCounted ==
  /\ Answered("close")
  /\ \E lost \in BOOLEAN :
       /\ stacked' = IF lost THEN stacked ELSE Posted
       /\ \/ /\ VBillCount' = VBillCount + 1
             /\ unposted' = IF lost THEN unposted + 1 ELSE unposted
             /\ UNCHANGED <<dropped, faults>>
          \/ Wiped(1)
  /\ VConnStat' = TRUE
  /\ Sleeps
  /\ UNCHANGED escrow /\ Outside

(* EVENT_BILL_ESCROW waits in the queue once; more of it do the same.      *)
OtherState ==
  /\ Answered("poll") /\ seen \notin {"fail", "PACKED"}
  /\ \/ /\ seen # "ESCROW"
        /\ BillsAlone /\ UNCHANGED <<escrow, faults>>
     \/ /\ seen = "ESCROW" /\ escrow' \in {escrow, 1}
        /\ \/ BillsAlone /\ UNCHANGED faults
           \/ Wiped(0) /\ UNCHANGED stacked
  /\ VConnStat' = TRUE
  /\ Sleeps
  /\ Outside

ValidatorTask ==
  Wakes \/ ValidatorConnect \/ NoAnswer \/ BillPacked \/ BillCounted \/ OtherState

-----------------------------------------------------------------------------
(* The event server, as far as it uses the validator.                      *)

IsValidatorConnected == VConnStat

CallsIfConnected(command) ==
  IF IsValidatorConnected THEN ServerCalls(command) ELSE UNCHANGED busVars

Elsewhere == UNCHANGED <<step, seen, VConnStat, deviceVars, lineVars>>

(* GetResetBillCount.                                                      *)
FetchedKept == VBillCount
Fetched == 0

BillStacked ==
  /\ ServerMay /\ stacked > 0
  /\ stacked' = stacked - 1
  /\ credited' = credited + VBillCount /\ VBillCount' = Fetched
  /\ unposted' = 0
  /\ CallsIfConnected("ENABLE") \/ UNCHANGED busVars
  /\ UNCHANGED escrow /\ Elsewhere

BillEscrow ==
  /\ ServerMay /\ escrow > 0
  /\ escrow' = escrow - 1
  /\ CallsIfConnected("PACK")
  /\ UNCHANGED <<VBillCount, unposted, stacked, credited>> /\ Elsewhere

(* Other handlers open the validator or close it.                          *)
OpensOrCloses ==
  /\ ServerMay /\ IsValidatorConnected
  /\ \E command \in {"ENABLE", "DISABLE"} : ServerCalls(command)
  /\ UNCHANGED <<VBillCount, unposted, stacked, escrow, credited>> /\ Elsewhere

-----------------------------------------------------------------------------
(* The customer and the device.                                            *)

BillInserted ==
  /\ enabled /\ bill = "none" /\ inserted < MaxBills
  /\ bill' = "escrow" /\ inserted' = inserted + 1
  /\ UNCHANGED <<busVars, taskVars, enabled, packed, lineVars>>

BillReturned ==
  /\ bill = "escrow" /\ bill' = "none"
  /\ UNCHANGED <<busVars, taskVars, enabled, inserted, packed, lineVars>>

Next ==
  \/ \E t \in Tasks : Transmit(t)
  \/ ValidatorTask \/ BusResetEnds
  \/ BillStacked \/ BillEscrow \/ OpensOrCloses
  \/ BillInserted \/ BillReturned

Spec == Init /\ [][Next]_vars

(* The tasks run.  A task that waits for the lock asks for it every other   *)
(* tick, and gets it at once when it is free by then.  The server runs      *)
(* whenever the validator task waits, and its queue is first in first out.  *)
FairSpec ==
  /\ Spec
  /\ \A t \in Tasks : WF_vars(Transmit(t)) /\ SF_vars(VPend(t))
  /\ WF_vars(ValidatorTask) /\ WF_vars(BusResetEnds) /\ SF_vars(BillStacked)

-----------------------------------------------------------------------------

TypeOK ==
  /\ lock \in Tasks \cup {"free"}
  /\ cc_buf \in Commands
  /\ damaged \in BOOLEAN /\ VConnStat \in BOOLEAN /\ enabled \in BOOLEAN
  /\ {reply, seen} \subseteq Replies \cup {"none"}
  /\ pc \in [Tasks -> {"idle", "lock", "hold", "send", "sending", "answer"}]
  /\ try \in 0..3
  /\ step \in {"sleep", "bus", "reset", "table", "shut", "poll", "close"}
  /\ bill \in {"none", "escrow", "packed"} /\ inserted \in 0..MaxBills
  /\ {VBillCount, unposted, stacked, packed, credited, lostAcks, misread, dropped}
       \subseteq Nat
  /\ escrow \in 0..1 /\ faults \in 0..MaxFaults

InTransmit(t) == pc[t] \notin {"idle", "lock"}

(* One task at a time is on the bus, from its first frame to the end of its *)
(* last pass, however the two wait for each other.                         *)
OneOnBus == \A t \in Tasks : InTransmit(t) => lock = t

(* Every bill is credited once, whatever frames are lost and repeated: the  *)
(* money the server has fetched and is to fetch, with the bill the          *)
(* validator task has just been told of and the one the device still        *)
(* reports, is what went into the stacker.  Three things break that, and    *)
(* are counted: a report whose acknowledgement got lost is made again; one  *)
(* that the server reads, whose command the validator task's poll replaced  *)
(* in the buffer, is not counted by anybody; and a report with an index     *)
(* outside the bill table wipes out what the server has not fetched yet.    *)
EveryBillOnce ==
  LET told == IF step = "close" \/ seen = "PACKED" THEN 1 ELSE 0
      reported == IF bill = "packed" THEN 1 ELSE 0
  IN credited + VBillCount + told + reported + misread + dropped = packed + lostAcks

(* What was counted reaches the server's books, unless every event that     *)
(* announced it found the queue full: the money of such a bill waits for    *)
(* the next one, whose event credits both.                                  *)
CountedIsCredited == VBillCount > unposted ~> VBillCount = 0

(* The poll goes on: the validator task always comes back to its sleep.     *)
PollGoesOn == []<>(step = "sleep")

(* What the comment at CCRSProtocol.c:150 says: the function sends a        *)
(* command and repeats it after an error.  What Transmit sends for the      *)
(* validator task, in every pass, is the command that task called it for.   *)
CommandOf ==
  [reset |-> "RESET", table |-> "GET_BILL_TABLE", shut |-> "DISABLE",
   poll |-> "POLL", close |-> "DISABLE"]
SendsItsCommand ==
  [][SendCommand("validator") => cc_buf = CommandOf[step]]_vars

=============================================================================
