-------------------------- MODULE CcnetBusProofs --------------------------
(***************************************************************************)
(* Proofs about CcnetBus: the lock keeps the two tasks apart, and no bill   *)
(* is credited twice.                                                       *)
(***************************************************************************)
EXTENDS CcnetBus, TLAPS

PcOK == pc \in [Tasks -> {"idle", "lock", "hold", "send", "sending", "answer"}]

BusInv == PcOK /\ OneOnBus

LEMMA InitBusInv == Init => BusInv
BY DEF Init, BusInv, PcOK, OneOnBus, InTransmit, Tasks

(* A task that calls a command takes the lock only when nobody holds it.    *)
LEMMA CallKeepsBusInv ==
  ASSUME NEW command, BusInv,
         \/ ValidatorCalls(command) /\ pc["validator"] = "idle"
         \/ ServerCalls(command)
  PROVE  BusInv'
<1>1. CASE ValidatorCalls(command)
  BY <1>1 DEF BusInv, PcOK, OneOnBus, InTransmit, Tasks, ValidatorCalls
<1>2. CASE ServerCalls(command)
  BY <1>2 DEF BusInv, PcOK, OneOnBus, InTransmit, Tasks, ServerCalls
<1>3. QED
  BY <1>1, <1>2

(* A step of Transmit: only VPend takes the lock, and only a free one; only *)
(* the task that holds it gives it back.                                   *)
LEMMA TransmitKeepsBusInv ==
  ASSUME NEW t \in Tasks, BusInv, Transmit(t)
  PROVE  BusInv'
<1>1. CASE VPend(t)
  BY <1>1 DEF BusInv, PcOK, OneOnBus, InTransmit, Tasks, VPend, LockFree
<1>2. CASE SendCommand(t)
  BY <1>2 DEF BusInv, PcOK, OneOnBus, InTransmit, Tasks, SendCommand
<1>3. CASE Sent(t)
  BY <1>3 DEF BusInv, PcOK, OneOnBus, InTransmit, Tasks, Sent
<1>4. CASE Acknowledge(t)
  BY <1>4 DEF BusInv, PcOK, OneOnBus, InTransmit, Tasks, Acknowledge, Return
<1>5. CASE Repeat(t)
  BY <1>5 DEF BusInv, PcOK, OneOnBus, InTransmit, Tasks, Repeat
<1>6. CASE VPost(t)
  BY <1>6 DEF BusInv, PcOK, OneOnBus, InTransmit, Tasks, VPost, Return
<1>7. QED
  BY <1>1, <1>2, <1>3, <1>4, <1>5, <1>6 DEF Transmit

(* The bus reset takes the lock as a command does, and gives it back.       *)
LEMMA BusResetKeepsBusInv ==
  ASSUME BusInv, (BusResetBegins /\ pc["validator"] = "idle") \/ BusResetEnds
  PROVE  BusInv'
<1>1. CASE BusResetBegins /\ pc["validator"] = "idle"
  BY <1>1 DEF BusInv, PcOK, OneOnBus, InTransmit, Tasks, BusResetBegins
<1>2. CASE BusResetEnds
  BY <1>2 DEF BusInv, PcOK, OneOnBus, InTransmit, Tasks, BusResetEnds
<1>3. QED
  BY <1>1, <1>2

(* The validator task calls a command only between two calls of its own,    *)
(* and leaves the bus alone otherwise.                                     *)
LEMMA ValidatorTaskOnBus ==
  ValidatorTask =>
    \/ UNCHANGED busVars
    \/ BusResetBegins /\ pc["validator"] = "idle"
    \/ \E command \in Commands :
         ValidatorCalls(command) /\ pc["validator"] = "idle"
BY DEF ValidatorTask, Wakes, ValidatorConnect, NoAnswer, BillPacked, BillCounted,
   OtherState, Calls, Sleeps, Turn, Answered, Commands

LEMMA OthersOnBus ==
  BillStacked \/ BillEscrow \/ OpensOrCloses \/ BillInserted \/ BillReturned =>
    UNCHANGED busVars \/ \E command \in Commands : ServerCalls(command)
BY DEF BillStacked, BillEscrow, OpensOrCloses, BillInserted, BillReturned,
   CallsIfConnected, Commands

LEMMA StepKeepsBusInv == BusInv /\ [Next]_vars => BusInv'
<1> SUFFICES ASSUME BusInv, [Next]_vars PROVE BusInv'
  OBVIOUS
<1>1. CASE UNCHANGED busVars
  BY <1>1 DEF busVars, BusInv, PcOK, OneOnBus, InTransmit
<1>2. CASE \E t \in Tasks : Transmit(t)
  BY <1>2, TransmitKeepsBusInv
<1>3. CASE ValidatorTask
  BY <1>1, <1>3, ValidatorTaskOnBus, CallKeepsBusInv, BusResetKeepsBusInv
<1>4. CASE BillStacked \/ BillEscrow \/ OpensOrCloses \/ BillInserted \/ BillReturned
  BY <1>1, <1>4, OthersOnBus, CallKeepsBusInv
<1>5. CASE UNCHANGED vars
  BY <1>1, <1>5 DEF vars
<1>6. CASE BusResetEnds
  BY <1>6, BusResetKeepsBusInv
<1>7. QED
  BY <1>2, <1>3, <1>4, <1>5, <1>6 DEF Next

(* The validator task and the event server are never inside Transmit        *)
(* together, for any number of bills and faults: who has left VPend and has *)
(* not come to VPost holds the lock.                                       *)
THEOREM OneTaskOnBus == Spec => []OneOnBus
<1>1. BusInv => OneOnBus
  BY DEF BusInv
<1>2. QED
  BY <1>1, InitBusInv, StepKeepsBusInv, PTL DEF Spec

-----------------------------------------------------------------------------
(* Types, and the count of the bills on their way to the books.            *)

Counts ==
  /\ VBillCount \in Nat /\ stacked \in Nat /\ packed \in Nat
  /\ credited \in Nat /\ lostAcks \in Nat /\ misread \in Nat
  /\ unposted \in Nat /\ dropped \in Nat

LEMMA CountsAreNats ==
  {VBillCount, unposted, stacked, packed, credited, lostAcks, misread, dropped}
    \subseteq Nat <=> Counts
BY DEF Counts

LEMMA InitTypeOK == Init => TypeOK
<1> SUFFICES ASSUME Init PROVE TypeOK
  OBVIOUS
<1>1. Counts /\ escrow \in 0..1 /\ inserted \in 0..MaxBills /\ faults \in 0..MaxFaults
  BY BoundsAssumption DEF Init, Counts
<1>2. {reply, seen} \subseteq Replies \cup {"none"} /\ try \in 0..3
  BY DEF Init
<1>3. /\ lock \in Tasks \cup {"free"} /\ cc_buf \in Commands
      /\ damaged \in BOOLEAN /\ VConnStat \in BOOLEAN /\ enabled \in BOOLEAN
      /\ pc \in [Tasks -> {"idle", "lock", "hold", "send", "sending", "answer"}]
  BY DEF Init, Commands
<1>4. /\ step \in {"sleep", "bus", "reset", "table", "shut", "poll", "close"}
      /\ bill \in {"none", "escrow", "packed"}
  BY DEF Init
<1>5. QED
  BY <1>1, <1>2, <1>3, <1>4, CountsAreNats DEF TypeOK

(* What the device makes of a frame, or of the reset line, is of its type.  *)
LEMMA ObeyedKeepsTypes ==
  ASSUME TypeOK, NEW command, Obeyed(command) \/ UNCHANGED deviceVars
  PROVE  /\ bill' \in {"none", "escrow", "packed"} /\ packed' \in Nat
         /\ enabled' \in BOOLEAN /\ inserted' = inserted
<1>1. packed \in Nat /\ bill \in {"none", "escrow", "packed"} /\ enabled \in BOOLEAN
  BY CountsAreNats DEF TypeOK, Counts
<1>2. CASE Obeyed(command)
  <2>1. bill' \in {"none", "escrow", "packed"}
    BY <1>1, <1>2 DEF Obeyed
  <2>2. enabled' \in BOOLEAN
    <3>1. CASE command = "ENABLE"
      BY <1>2, <3>1 DEF Obeyed
    <3>2. CASE command \in {"DISABLE", "RESET"}
      BY <1>2, <3>2 DEF Obeyed
    <3>3. CASE command \notin {"ENABLE", "DISABLE", "RESET"}
      BY <1>1, <1>2, <3>3 DEF Obeyed
    <3>4. QED
      BY <3>1, <3>2, <3>3
  <2>3. packed' \in Nat /\ inserted' = inserted
    BY <1>1, <1>2 DEF Obeyed
  <2>4. QED
    BY <2>1, <2>2, <2>3
<1>3. CASE UNCHANGED deviceVars
  BY <1>1, <1>3 DEF deviceVars
<1>4. QED
  BY <1>2, <1>3

LEMMA TransmitKeepsTypeOK ==
  ASSUME NEW t \in Tasks, TypeOK, Transmit(t)
  PROVE  TypeOK'
<1>1. CASE VPend(t)
  BY <1>1 DEF TypeOK, VPend, taskVars, deviceVars, lineVars, Tasks
<1>2. CASE SendCommand(t)
  BY <1>2 DEF TypeOK, SendCommand, taskVars, deviceVars, lineVars
<1>3. CASE Sent(t)
  <2>1. {reply'} \subseteq Replies /\ faults' \in 0..MaxFaults
    BY <1>3, BoundsAssumption
       DEF TypeOK, Sent, Arrives, NotArrives, Faulty, Answer, Replies
  <2>2. /\ bill' \in {"none", "escrow", "packed"} /\ packed' \in Nat
        /\ enabled' \in BOOLEAN /\ inserted' = inserted
    BY <1>3, ObeyedKeepsTypes DEF Sent, Arrives, NotArrives
  <2>3. QED
    BY <1>3, <2>1, <2>2 DEF TypeOK, Sent, taskVars
<1>4. CASE Acknowledge(t)
  <2>1. /\ faults' \in 0..MaxFaults /\ lostAcks' \in Nat /\ misread' \in Nat
        /\ bill' \in {"none", "escrow", "packed"}
    BY <1>4, BoundsAssumption DEF TypeOK, Acknowledge, Faulty
  <2>2. QED
    BY <1>4, <2>1 DEF TypeOK, Acknowledge, Return
<1>5. CASE Repeat(t)
  BY <1>5 DEF TypeOK, Repeat, Repeated, taskVars, deviceVars, lineVars
<1>6. CASE VPost(t)
  BY <1>6 DEF TypeOK, VPost, Return, deviceVars, lineVars
<1>7. QED
  BY <1>1, <1>2, <1>3, <1>4, <1>5, <1>6 DEF Transmit

(* What a call leaves of the bus is of its type.                           *)
BusTypeOK ==
  /\ lock \in Tasks \cup {"free"} /\ cc_buf \in Commands /\ damaged \in BOOLEAN
  /\ {reply, seen} \subseteq Replies \cup {"none"}
  /\ pc \in [Tasks -> {"idle", "lock", "hold", "send", "sending", "answer"}] /\ try \in 0..3

LEMMA CallKeepsBusType ==
  ASSUME TypeOK, NEW command \in Commands,
         \/ ValidatorCalls(command)
         \/ ServerCalls(command) /\ UNCHANGED seen
         \/ UNCHANGED busVars /\ seen' \in {seen, "none"}
         \/ BusResetBegins
  PROVE  BusTypeOK'
<1>1. CASE ValidatorCalls(command)
  BY <1>1 DEF TypeOK, BusTypeOK, ValidatorCalls, Fill, Tasks
<1>2. CASE ServerCalls(command) /\ UNCHANGED seen
  BY <1>2 DEF TypeOK, BusTypeOK, ServerCalls, Fill, Tasks
<1>3. CASE UNCHANGED busVars /\ seen' \in {seen, "none"}
  BY <1>3 DEF TypeOK, BusTypeOK, busVars
<1>4. CASE BusResetBegins
  BY <1>4 DEF TypeOK, BusTypeOK, BusResetBegins, Tasks
<1>5. QED
  BY <1>1, <1>2, <1>3, <1>4

LEMMA BusResetKeepsTypeOK == TypeOK /\ BusResetEnds => TypeOK'
<1> SUFFICES ASSUME TypeOK, BusResetEnds PROVE TypeOK'
  OBVIOUS
<1>1. /\ bill' \in {"none", "escrow", "packed"} /\ packed' \in Nat
      /\ enabled' \in BOOLEAN /\ inserted' = inserted
  BY ObeyedKeepsTypes DEF BusResetEnds
<1>2. QED
  BY <1>1 DEF TypeOK, BusResetEnds, taskVars, lineVars, Tasks

LEMMA ValidatorKeepsTypeOK == TypeOK /\ ValidatorTask => TypeOK'
<1> SUFFICES ASSUME TypeOK, ValidatorTask PROVE TypeOK'
  OBVIOUS
<1>1. \E command \in Commands :
         \/ ValidatorCalls(command)
         \/ UNCHANGED busVars /\ seen' \in {seen, "none"}
         \/ BusResetBegins
  BY DEF ValidatorTask, Wakes, ValidatorConnect, NoAnswer, BillPacked, BillCounted,
     OtherState, Calls, Sleeps, Commands
<1>2. BusTypeOK'
  BY <1>1, CallKeepsBusType
<1>3. /\ VConnStat' \in BOOLEAN
      /\ step' \in {"sleep", "bus", "reset", "table", "shut", "poll", "close"}
      /\ escrow' \in 0..1
  <2>1. VConnStat \in BOOLEAN /\ escrow \in 0..1
    BY DEF TypeOK
  <2>2. CASE Wakes \/ NoAnswer \/ BillPacked \/ BillCounted \/ OtherState
    <3>1. VConnStat' \in BOOLEAN
      BY <2>1, <2>2 DEF Wakes, NoAnswer, BillPacked, BillCounted, OtherState
    <3>2. escrow' = escrow \/ escrow' = 1
      BY <2>2 DEF Wakes, NoAnswer, BillPacked, BillCounted, OtherState
    <3>3. step' \in {"sleep", "bus", "poll", "close"}
      BY <2>2 DEF Wakes, NoAnswer, BillPacked, BillCounted, OtherState, Calls, Sleeps,
         Goes, BusResetBegins
    <3>4. QED
      BY <2>1, <3>1, <3>2, <3>3
  <2>3. CASE ValidatorConnect
    BY <2>1, <2>3 DEF ValidatorConnect, Calls, Sleeps, Goes
  <2>4. QED
    BY <2>2, <2>3 DEF ValidatorTask
<1>4. /\ VBillCount' \in Nat /\ unposted' \in Nat /\ stacked' \in Nat /\ dropped' \in Nat
      /\ faults' \in 0..MaxFaults
  <2>1. /\ VBillCount \in Nat /\ unposted \in Nat /\ stacked \in Nat /\ dropped \in Nat
        /\ faults \in 0..MaxFaults
    BY CountsAreNats DEF TypeOK, Counts
  <2>2. CASE BillsAlone /\ UNCHANGED faults
    BY <2>1, <2>2 DEF BillsAlone
  <2>3. ASSUME NEW reported \in Nat, Wiped(reported), stacked' \in Nat
        PROVE  /\ VBillCount' \in Nat /\ unposted' \in Nat /\ stacked' \in Nat
               /\ dropped' \in Nat /\ faults' \in 0..MaxFaults
    BY <2>1, <2>3, BoundsAssumption DEF Wiped, Faulty
  <2>4. CASE BillCounted
    <3>1. stacked' \in Nat
      BY <2>1, <2>4 DEF BillCounted, Posted
    <3>2. CASE Wiped(1)
      BY <3>1, <3>2, <2>3
    <3>3. CASE ~Wiped(1)
      BY <2>1, <2>4, <3>1, <3>3 DEF BillCounted
    <3>4. QED
      BY <3>2, <3>3
  <2>5. CASE OtherState
    <3>1. CASE Wiped(0) /\ UNCHANGED stacked
      BY <2>1, <2>3, <3>1
    <3>2. QED
      BY <2>2, <2>5, <3>1 DEF OtherState
  <2>6. CASE Wakes \/ ValidatorConnect \/ NoAnswer \/ BillPacked
    BY <2>2, <2>6 DEF Wakes, ValidatorConnect, NoAnswer, BillPacked
  <2>7. QED
    BY <2>4, <2>5, <2>6 DEF ValidatorTask
<1>5. UNCHANGED <<credited, deviceVars, lostAcks, misread>>
  BY DEF ValidatorTask, Wakes, ValidatorConnect, NoAnswer, BillPacked, BillCounted,
     OtherState, Outside
<1>6. QED
  BY <1>2, <1>3, <1>4, <1>5 DEF TypeOK, BusTypeOK, deviceVars

LEMMA OthersKeepTypeOK ==
  /\ TypeOK
  /\ BillStacked \/ BillEscrow \/ OpensOrCloses \/ BillInserted \/ BillReturned
  => TypeOK'
<1> SUFFICES ASSUME TypeOK,
                    BillStacked \/ BillEscrow \/ OpensOrCloses
                      \/ BillInserted \/ BillReturned
             PROVE  TypeOK'
  OBVIOUS
<1>1. CASE BillStacked \/ BillEscrow \/ OpensOrCloses
  <2>1. BusTypeOK'
    BY <1>1, CallKeepsBusType
       DEF BillStacked, BillEscrow, OpensOrCloses, CallsIfConnected, Elsewhere, Commands
  <2>2. /\ VBillCount' \in Nat /\ stacked' \in Nat /\ credited' \in Nat
        /\ unposted' \in Nat /\ escrow' \in 0..1
    BY <1>1 DEF TypeOK, BillStacked, BillEscrow, OpensOrCloses, Fetched
  <2>3. QED
    BY <1>1, <2>1, <2>2
       DEF TypeOK, BusTypeOK, BillStacked, BillEscrow, OpensOrCloses, Elsewhere, deviceVars,
          lineVars
<1>2. CASE BillInserted \/ BillReturned
  BY <1>2, BoundsAssumption
     DEF TypeOK, BillInserted, BillReturned, busVars, taskVars, lineVars
<1>3. QED
  BY <1>1, <1>2

LEMMA StepKeepsTypeOK == TypeOK /\ [Next]_vars => TypeOK'
<1> SUFFICES ASSUME TypeOK, [Next]_vars PROVE TypeOK'
  OBVIOUS
<1>1. CASE UNCHANGED vars
  BY <1>1 DEF TypeOK, vars, busVars, taskVars, deviceVars, lineVars
<1>2. QED
  BY <1>1, TransmitKeepsTypeOK, ValidatorKeepsTypeOK, BusResetKeepsTypeOK,
     OthersKeepTypeOK DEF Next

(* Every variable of the bus, the validator task and the server keeps its   *)
(* type, for any number of bills and faults.                                *)
THEOREM TypeCorrect == Spec => []TypeOK
BY InitTypeOK, StepKeepsTypeOK, PTL DEF Spec

(* A report on its way is about a bill that is still in the device: it can   *)
(* be made again only if its acknowledgement fails.                        *)
ReportIsTrue == reply = "PACKED" => bill = "packed"

(* A poll in the buffer is the validator task's own, and while that waits    *)
(* for its answer it holds none; so it hears of a packed bill in no other   *)
(* step than the poll.                                                     *)
PollInv ==
  /\ pc["validator"] # "idle" => seen = "none"
  /\ step = "bus" => pc["validator"] \in {"idle", "lock", "hold"}
  /\ pc["validator"] # "idle" /\ cc_buf = "POLL" => step \in {"poll", "bus"}
  /\ pc["validator"] = "hold" => step = "bus"
  /\ pc["validator"] = "answer" /\ reply = "PACKED" => step = "poll"
  /\ seen = "PACKED" => step = "poll"

BillInv == ReportIsTrue /\ PollInv /\ EveryBillOnce

LEMMA InitBillInv == Init => BillInv
BY DEF Init, BillInv, ReportIsTrue, PollInv, EveryBillOnce, Tasks

(* A frame makes a bill of the device a packed one, and the report of a     *)
(* packed bill is new and answers a poll.                                  *)
LEMMA SentKeepsBills ==
  ASSUME NEW t \in Tasks, TypeOK, BusInv, BillInv, Sent(t)
  PROVE  BillInv'
<1>1. ReportIsTrue'
  BY DEF Sent, Arrives, NotArrives, Obeyed, Answer, ReportIsTrue, BillInv
<1>2. packed' - packed = IF bill' = "packed" /\ bill # "packed" THEN 1 ELSE 0
  <2>1. packed \in Nat
    BY CountsAreNats DEF TypeOK, Counts
  <2>2. CASE Obeyed(cc_buf)
    BY <2>1, <2>2 DEF Obeyed
  <2>3. CASE UNCHANGED deviceVars
    BY <2>1, <2>3 DEF deviceVars
  <2>4. QED
    BY <2>2, <2>3 DEF Sent, Arrives, NotArrives
<1>3. bill = "packed" => bill' = "packed"
  BY DEF Sent, Arrives, NotArrives, Obeyed, deviceVars
<1>4. UNCHANGED <<credited, VBillCount, step, seen, lostAcks, misread, dropped, cc_buf>>
  BY DEF Sent, taskVars
<1>5. packed' \in Nat
  BY TransmitKeepsTypeOK DEF TypeOK, Transmit
<1>6. EveryBillOnce'
  BY <1>2, <1>3, <1>4, <1>5 DEF EveryBillOnce, BillInv, TypeOK
<1>7. PollInv'
  <2>1. reply' = "PACKED" => cc_buf = "POLL"
    BY DEF Sent, Arrives, NotArrives, Answer
  <2>2. pc["validator"] # "idle" <=> pc'["validator"] # "idle"
    BY DEF Sent, BusInv, PcOK, Tasks
  <2>3. /\ pc'["validator"] \in {"answer", pc["validator"]}
        /\ pc'["validator"] = "answer" => pc["validator"] \in {"sending", "answer"}
        /\ pc["validator"] = "sending" => step # "bus"
    BY DEF Sent, BusInv, PcOK, Tasks, BillInv, PollInv
  <2>4. step = "bus" => pc["validator"] # "answer"
    BY DEF BillInv, PollInv
  <2>5. QED
    BY <1>4, <2>1, <2>2, <2>3, <2>4 DEF BillInv, PollInv
<1>8. QED
  BY <1>1, <1>6, <1>7 DEF BillInv

(* The acknowledgement hands the bill over from the device to the task, or  *)
(* is lost and counted; what the server takes nobody else hears of.         *)
LEMMA AcknowledgeKeepsBills ==
  ASSUME NEW t \in Tasks, TypeOK, BusInv, BillInv, Acknowledge(t)
  PROVE  BillInv'
<1>1. /\ reply' = "none" /\ seen' = IF t = "server" THEN seen ELSE reply
      /\ UNCHANGED <<credited, VBillCount, step, packed, dropped, cc_buf>>
      /\ pc[t] = "answer" /\ pc' = [pc EXCEPT ![t] = "idle"]
  BY DEF Acknowledge, Return
<1>2. t = "server" \/ t = "validator"
  BY DEF Tasks
<1>3. PollInv'
  BY <1>1, <1>2 DEF BillInv, PollInv, BusInv, PcOK, Tasks
<1>4. Counts /\ Counts'
  BY CountsAreNats, TransmitKeepsTypeOK DEF TypeOK, Counts, Transmit
<1>5. EveryBillOnce'
  <2>1. CASE reply = "PACKED"
    <3>1. \/ bill' = "none" /\ lostAcks' = lostAcks
          \/ bill' = bill /\ lostAcks' = lostAcks + 1
      BY <2>1, <1>4 DEF Acknowledge, BillInv, ReportIsTrue, Counts
    <3>2. misread' = misread + (IF t = "server" THEN 1 ELSE 0)
      BY <2>1 DEF Acknowledge
    <3>3. bill = "packed"
      BY <2>1 DEF BillInv, ReportIsTrue
    <3>4. CASE t = "server"
      <4>1. UNCHANGED <<seen, step, credited, VBillCount, packed, dropped>>
            /\ misread' = misread + 1
        BY <1>1, <3>2, <3>4
      <4>2. credited + VBillCount + (IF step = "close" \/ seen = "PACKED" THEN 1 ELSE 0)
              + 1 + misread + dropped = packed + lostAcks
        BY <3>3 DEF EveryBillOnce, BillInv
      <4>3. CASE bill' = "none" /\ lostAcks' = lostAcks
        BY <1>4, <4>1, <4>2, <4>3 DEF EveryBillOnce, Counts
      <4>4. CASE bill' = bill /\ lostAcks' = lostAcks + 1
        BY <1>4, <3>3, <4>1, <4>2, <4>4 DEF EveryBillOnce, Counts
      <4>5. QED
        BY <3>1, <4>3, <4>4
    <3>5. CASE t = "validator"
      <4>1. step = "poll" /\ seen = "none" /\ seen' = "PACKED"
        BY <1>1, <2>1, <3>5 DEF BillInv, PollInv
      <4>2. UNCHANGED <<step, credited, VBillCount, packed, misread, dropped>>
        BY <1>1, <1>4, <3>2, <3>5 DEF Counts
      <4>3. credited + VBillCount + 0 + 1 + misread + dropped = packed + lostAcks
        BY <3>3, <4>1 DEF EveryBillOnce, BillInv
      <4>4. CASE bill' = "none" /\ lostAcks' = lostAcks
        BY <1>4, <4>1, <4>2, <4>3, <4>4 DEF EveryBillOnce, Counts
      <4>5. CASE bill' = bill /\ lostAcks' = lostAcks + 1
        BY <1>4, <3>3, <4>1, <4>2, <4>3, <4>5 DEF EveryBillOnce, Counts
      <4>6. QED
        BY <3>1, <4>4, <4>5
    <3>6. QED
      BY <1>2, <3>4, <3>5
  <2>2. CASE reply # "PACKED"
    <3>1. UNCHANGED <<bill, lostAcks, misread>>
      BY <1>4, <2>2 DEF Acknowledge, Counts
    <3>2. seen' = "PACKED" <=> seen = "PACKED"
      BY <1>1, <1>2, <2>2 DEF BillInv, PollInv
    <3>3. QED
      BY <1>1, <3>1, <3>2 DEF EveryBillOnce, BillInv
  <2>3. QED
    BY <2>1, <2>2
<1>6. QED
  BY <1>1, <1>3, <1>5 DEF BillInv, ReportIsTrue

LEMMA TransmitKeepsBills ==
  ASSUME NEW t \in Tasks, TypeOK, BusInv, BillInv, Transmit(t)
  PROVE  BillInv'
<1>1. CASE VPend(t) \/ SendCommand(t) \/ Repeat(t)
  <2>1. /\ reply' \in {reply, "none"}
        /\ UNCHANGED <<cc_buf, taskVars, deviceVars, lineVars>>
    BY <1>1 DEF VPend, SendCommand, Repeat
  <2>2. /\ pc["validator"] # "idle" <=> pc'["validator"] # "idle"
        /\ pc'["validator"] = "answer" => pc["validator"] = "answer"
        /\ pc'["validator"] = "hold" => step = "bus"
        /\ step = "bus" => pc'["validator"] \in {"idle", "lock", "hold"}
    BY <1>1 DEF VPend, SendCommand, Repeat, BusInv, PcOK, Tasks, BillInv, PollInv
  <2>3. QED
    BY <2>1, <2>2
       DEF BillInv, ReportIsTrue, PollInv, EveryBillOnce, taskVars, deviceVars, lineVars
<1>2. CASE VPost(t)
  <2>1. /\ reply' = "none" /\ reply # "PACKED"
        /\ seen' = IF t = "server" THEN seen ELSE reply
        /\ UNCHANGED <<cc_buf, step, credited, VBillCount, deviceVars, lineVars>>
        /\ pc[t] = "answer" /\ pc' = [pc EXCEPT ![t] = "idle"]
    BY <1>2 DEF VPost, Return, Data
  <2>2. t = "server" \/ t = "validator"
    BY DEF Tasks
  <2>3. seen' = "PACKED" <=> seen = "PACKED"
    BY <2>1, <2>2 DEF BillInv, PollInv
  <2>4. EveryBillOnce'
    BY <2>1, <2>3 DEF BillInv, EveryBillOnce, deviceVars, lineVars
  <2>5. PollInv'
    BY <2>1, <2>2 DEF BillInv, PollInv, BusInv, PcOK, Tasks
  <2>6. QED
    BY <2>1, <2>4, <2>5 DEF BillInv, ReportIsTrue
<1>3. QED
  BY <1>1, <1>2, SentKeepsBills, AcknowledgeKeepsBills DEF Transmit

(* The validator task keeps hold of the report until it has counted it, and *)
(* turns to something else only when it holds none.                        *)
LEMMA ValidatorKeepsBills ==
  ASSUME TypeOK, BusInv, BillInv, ValidatorTask
  PROVE  BillInv'
<1>1. UNCHANGED <<reply, credited, bill, packed, lostAcks, misread>>
  BY DEF ValidatorTask, Wakes, ValidatorConnect, NoAnswer, BillPacked, BillCounted,
     OtherState, Outside, deviceVars, Calls, Sleeps, ValidatorCalls, Fill,
     BusResetBegins, busVars
<1>2. pc["validator"] = "idle" /\ seen' = "none"
  BY DEF ValidatorTask, Wakes, ValidatorConnect, NoAnswer, BillPacked, BillCounted,
     OtherState, Calls, Sleeps, ValidatorCalls, Turn, Answered, BusResetBegins
<1>3. PollInv'
  <2>1. \/ UNCHANGED busVars /\ step' # "bus"
        \/ /\ pc'["validator"] \in {"send", "lock"} /\ step' # "bus"
           /\ cc_buf' = "POLL" => step' = "poll"
        \/ step' = "bus" /\ pc'["validator"] \in {"hold", "lock"}
    BY DEF ValidatorTask, Wakes, ValidatorConnect, NoAnswer, BillPacked, BillCounted,
       OtherState, Calls, Goes, Sleeps, ValidatorCalls, Fill, BusResetBegins, BusInv,
       PcOK, Tasks
  <2>2. QED
    BY <1>2, <2>1 DEF PollInv, busVars
<1>4. EveryBillOnce'
  <2>1. CASE BillPacked
    <3>1. /\ seen = "PACKED" /\ step' = "close"
          /\ VBillCount' = VBillCount /\ dropped' = dropped
      BY <2>1 DEF BillPacked, BillsAlone, Answered, Calls, Goes
    <3>2. QED
      BY <1>1, <1>2, <3>1 DEF BillInv, EveryBillOnce
  <2>2. CASE BillCounted
    <3>1. /\ step = "close" /\ step' = "sleep"
          /\ VBillCount' + dropped' = VBillCount + dropped + 1
          /\ VBillCount' \in Nat /\ dropped' \in Nat
      BY <2>2, CountsAreNats
         DEF BillCounted, Wiped, Answered, Turn, Sleeps, Goes, TypeOK, Counts
    <3>2. Counts
      BY CountsAreNats DEF TypeOK
    <3>3. PICK r \in 0..1 : r = IF bill = "packed" THEN 1 ELSE 0
      OBVIOUS
    <3>4. credited + VBillCount + 1 + r + misread + dropped = packed + lostAcks
      BY <3>1, <3>3 DEF BillInv, EveryBillOnce
    <3>5. PICK v \in Nat, d \in Nat : VBillCount' = v /\ dropped' = d
      BY <3>1
    <3>6. v + d = VBillCount + dropped + 1
      BY <3>1, <3>5
    <3>7. credited + v + 0 + r + misread + d = packed + lostAcks
      BY <3>2, <3>4, <3>6 DEF Counts
    <3>8. QED
      BY <1>1, <1>2, <3>1, <3>3, <3>5, <3>7 DEF EveryBillOnce
  <2>3. CASE Wakes \/ ValidatorConnect \/ NoAnswer
    <3>1. /\ step' # "close" /\ VBillCount' = VBillCount /\ dropped' = dropped
          /\ step # "close" /\ (step = "poll" => seen # "PACKED")
      BY <2>3 DEF Wakes, ValidatorConnect, NoAnswer, BillsAlone, Calls, Sleeps, Goes,
         Answered, Turn, BusResetBegins
    <3>2. QED
      BY <1>1, <1>2, <3>1 DEF BillInv, PollInv, EveryBillOnce
  <2>4. CASE OtherState
    <3>1. /\ step' = "sleep" /\ step = "poll" /\ seen # "PACKED"
          /\ VBillCount' + dropped' = VBillCount + dropped
          /\ VBillCount' \in Nat /\ dropped' \in Nat
      BY <2>4, CountsAreNats
         DEF OtherState, BillsAlone, Wiped, Answered, Turn, Sleeps, Goes, TypeOK, Counts
    <3>2. Counts
      BY CountsAreNats DEF TypeOK
    <3>3. PICK r \in 0..1 : r = IF bill = "packed" THEN 1 ELSE 0
      OBVIOUS
    <3>4. credited + VBillCount + 0 + r + misread + dropped = packed + lostAcks
      BY <3>1, <3>3 DEF BillInv, EveryBillOnce
    <3>5. PICK v \in Nat, d \in Nat : VBillCount' = v /\ dropped' = d
      BY <3>1
    <3>6. v + d = VBillCount + dropped
      BY <3>1, <3>5
    <3>7. credited + v + 0 + r + misread + d = packed + lostAcks
      BY <3>2, <3>4, <3>6 DEF Counts
    <3>8. QED
      BY <1>1, <1>2, <3>1, <3>3, <3>5, <3>7 DEF EveryBillOnce
  <2>5. QED
    BY <2>1, <2>2, <2>3, <2>4 DEF ValidatorTask
<1>5. QED
  BY <1>1, <1>3, <1>4 DEF BillInv, ReportIsTrue

(* The reset line packs no bill and hands none over.                        *)
LEMMA BusResetKeepsBills ==
  ASSUME TypeOK, BusInv, BillInv, BusResetEnds
  PROVE  BillInv'
<1>1. /\ pc["validator"] = "hold" /\ pc'["validator"] = "idle" /\ step = "bus"
      /\ seen = "none"
      /\ UNCHANGED <<cc_buf, reply, taskVars, lineVars>>
  BY DEF BusResetEnds, BillInv, PollInv, BusInv, PcOK, Tasks
<1>2. packed' = packed /\ (bill' = "packed" <=> bill = "packed")
  <2>1. bill \in {"none", "escrow", "packed"}
    BY DEF TypeOK
  <2>2. QED
    BY <2>1 DEF BusResetEnds, Obeyed, deviceVars
<1>3. PollInv' /\ ReportIsTrue'
  BY <1>1, <1>2 DEF BillInv, PollInv, ReportIsTrue, taskVars
<1>4. EveryBillOnce'
  BY <1>1, <1>2 DEF BillInv, EveryBillOnce, taskVars, lineVars
<1>5. QED
  BY <1>3, <1>4 DEF BillInv

(* The server calls for no poll, and moves money from one count to the      *)
(* other.                                                                  *)
LEMMA OthersKeepBills ==
  ASSUME TypeOK, BusInv, BillInv,
         BillStacked \/ BillEscrow \/ OpensOrCloses \/ BillInserted \/ BillReturned
  PROVE  BillInv'
<1>1. CASE BillStacked \/ BillEscrow \/ OpensOrCloses
  <2>1. UNCHANGED <<reply, seen, step, bill, packed, lostAcks, misread, dropped>>
    BY <1>1 DEF BillStacked, BillEscrow, OpensOrCloses, Elsewhere, CallsIfConnected,
       ServerCalls, Fill, busVars, deviceVars, lineVars
  <2>2. credited' + VBillCount' = credited + VBillCount
    BY <1>1 DEF BillStacked, BillEscrow, OpensOrCloses, Fetched, TypeOK
  <2>3. Counts /\ Counts'
    BY <1>1, OthersKeepTypeOK, CountsAreNats DEF TypeOK, Counts
  <2>4. EveryBillOnce'
    BY <2>1, <2>2, <2>3 DEF BillInv, EveryBillOnce, Counts
  <2>5. /\ cc_buf' \in {cc_buf, "ENABLE", "DISABLE", "PACK"}
        /\ pc'["validator"] = pc["validator"]
    BY <1>1 DEF BillStacked, BillEscrow, OpensOrCloses, CallsIfConnected, ServerCalls,
       Fill, busVars, BusInv, PcOK, Tasks
  <2>6. QED
    BY <2>1, <2>4, <2>5 DEF BillInv, PollInv, ReportIsTrue
<1>2. CASE BillInserted \/ BillReturned
  <2>1. /\ bill # "packed" /\ bill' # "packed"
        /\ UNCHANGED <<busVars, taskVars, packed, lineVars>>
    BY <1>2 DEF BillInserted, BillReturned
  <2>2. QED
    BY <2>1 DEF BillInv, ReportIsTrue, PollInv, EveryBillOnce, busVars, taskVars, lineVars
<1>3. QED
  BY <1>1, <1>2

LEMMA StepKeepsBillInv == TypeOK /\ BusInv /\ BillInv /\ [Next]_vars => BillInv'
<1> SUFFICES ASSUME TypeOK, BusInv, BillInv, [Next]_vars PROVE BillInv'
  OBVIOUS
<1>1. CASE UNCHANGED vars
  BY <1>1 DEF BillInv, ReportIsTrue, PollInv, EveryBillOnce, vars, busVars, taskVars,
     deviceVars, lineVars
<1>2. QED
  BY <1>1, TransmitKeepsBills, ValidatorKeepsBills, BusResetKeepsBills, OthersKeepBills
     DEF Next

(* Every bill that went into the stacker is credited once or on its way to  *)
(* be credited, for any number of bills and faults, but for the reports     *)
(* whose acknowledgement was lost, those the server reads, and the bills a  *)
(* report with a wrong index wipes out.                                     *)
THEOREM BillsCreditedOnce == Spec => []EveryBillOnce
<1>1. BillInv => EveryBillOnce
  BY DEF BillInv
<1>2. QED
  BY <1>1, InitBillInv, InitBusInv, StepKeepsBusInv, StepKeepsBillInv, TypeCorrect,
     PTL DEF Spec

=============================================================================
