----------------------------- MODULE SavedMoney -----------------------------
(***************************************************************************)
(* The books of the changer in its FRAM chip: the lines of accepted money,  *)
(* each with a CRC, and the counters, the short ones bare and the long ones *)
(* in one block with a CRC (PROJECT/app/app_serv.c, PROJECT/app/journal.c). *)
(*                                                                         *)
(* UserApp changes them in one step per handler.  Here every handler is the *)
(* sequence of writes it makes, power may be lost in the middle of any of   *)
(* them, also of those the start-up makes, and the start-up repairs what it *)
(* can.  The CRC of a cell is the content it was computed from: that two    *)
(* contents have the same CRC is left out.                                 *)
(*                                                                         *)
(* An operator directly above another one with the same parameters is a     *)
(* likely mistake in that code, used by no action.                          *)
(***************************************************************************)
EXTENDS Integers, Sequences

CONSTANTS
  HopperCost,    \* price of a token
  MaxCredit,     \* bound: roubles one event credits
  MaxHandlers,   \* bound: handlers that run
  MaxLosses,     \* bound: losses of power
  Torn           \* content of a cell whose write was cut short

Lines == {"money", "bank", "rest", "coin"}
Counters == {"Coin", "AllCash", "Bank", "Money", "CoinOut"}
NoCounts == [c \in Counters |-> 0]

ASSUME BooksAssumption ==
  /\ HopperCost \in Nat \ {0} /\ MaxCredit \in Nat
  /\ MaxHandlers \in Nat /\ MaxLosses \in Nat
  /\ Torn \notin Int /\ Torn \notin [Counters -> Nat]

VARIABLES
  value, crc,    \* the lines of accepted money and their CRCs
  short,         \* Counters
  long,          \* CountersLong, or Torn
  todo,          \* the writes the running handler has still to make
  boot,          \* what the start-up looks at next, or "up"
  was, want,     \* history: the lines before and after the last handler
  touched,       \* history: the lines it writes
  wiped,         \* history: the long counters were found torn once
  forgiven,      \* history: money the timeouts gave up
  atRisk,        \* history: money on the lines of interrupted handlers
  handlers, losses

framVars == <<value, crc, short, long>>
lastVars == <<was, want, touched>>
vars == <<framVars, todo, boot, lastVars, wiped, forgiven, atRisk, handlers, losses>>

(* The start-up looks at the long counters first, then at the lines.       *)
Stages == {"long", "money", "bank", "rest", "coin", "up"}
After == [long |-> "money", money |-> "bank", bank |-> "rest", rest |-> "coin",
          coin |-> "up"]

-----------------------------------------------------------------------------
(* Writes, and the sequences of writes that the functions make.            *)

Write(kind, of, to) == [kind |-> kind, of |-> of, to |-> to]

SetAccepted(l, m) == <<Write("value", l, m), Write("crc", l, m)>>

IncCounter(c, m) == <<Write("short", c, m), Write("long", c, m)>>

WipeNothing == <<>>
WipeCounters == <<Write("wipe", "long", 0), Write("clear", "Money", 0),
                  Write("clear", "Others", 0)>>

Plus(n, m) == IF n = Torn THEN Torn ELSE n + m

ClearedBy(w) == IF w.of = "Money" THEN {"Money"} ELSE Counters \ {"Money"}

Performed(w) ==
  /\ value' = IF w.kind = "value" THEN [value EXCEPT ![w.of] = w.to] ELSE value
  /\ crc' = IF w.kind = "crc" THEN [crc EXCEPT ![w.of] = w.to] ELSE crc
  /\ short' = CASE w.kind = "short" -> [short EXCEPT ![w.of] = Plus(@, w.to)]
                [] w.kind = "clear" ->
                     [c \in Counters |-> IF c \in ClearedBy(w) THEN 0 ELSE short[c]]
                [] OTHER -> short
  /\ long' = CASE w.kind = "long" -> [long EXCEPT ![w.of] = @ + w.to]
               [] w.kind = "wipe" -> NoCounts
               [] OTHER -> long

CutShort(w) ==
  /\ value' = IF w.kind = "value" THEN [value EXCEPT ![w.of] = Torn] ELSE value
  /\ crc' = IF w.kind = "crc" THEN [crc EXCEPT ![w.of] = Torn] ELSE crc
  /\ short' = CASE w.kind = "short" -> [short EXCEPT ![w.of] = Torn]
                [] w.kind = "clear" ->
                     [c \in Counters |-> IF c \in ClearedBy(w) THEN Torn ELSE short[c]]
                [] OTHER -> short
  /\ long' = IF w.kind \in {"long", "wipe"} THEN Torn ELSE long

Init ==
  /\ value = [l \in Lines |-> 0] /\ crc = value
  /\ short = NoCounts /\ long = NoCounts
  /\ todo = <<>> /\ boot = "up"
  /\ was = value /\ want = value /\ touched = {}
  /\ wiped = FALSE /\ forgiven = 0 /\ atRisk = 0
  /\ handlers = 0 /\ losses = 0

-----------------------------------------------------------------------------
(* The handlers of the event server.                                       *)

Ready == boot = "up" /\ todo = <<>>

Handler(writes, lines) ==
  /\ handlers < MaxHandlers
  /\ todo' = writes
  /\ was' = value /\ want' = lines
  /\ touched' = {writes[i].of : i \in DOMAIN writes} \cap Lines
  /\ handlers' = handlers + 1
  /\ UNCHANGED <<framVars, boot, wiped, atRisk, losses>>

Earns(writes, lines) == Handler(writes, lines) /\ UNCHANGED forgiven

(* A coin or a bill: they are kept on one line.                            *)
MoneyInserted ==
  Ready /\ \E m \in 1..MaxCredit :
    LET money == value["money"] + m IN
    Earns(SetAccepted("money", money) \o IncCounter("Coin", m)
              \o IncCounter("AllCash", m),
            [value EXCEPT !["money"] = money])

BankInserted ==
  Ready /\ \E m \in 1..MaxCredit :
    LET bank == value["bank"] + m IN
    Earns(SetAccepted("bank", bank) \o IncCounter("Bank", m),
            [value EXCEPT !["bank"] = bank])

Accepted == value["money"] + value["bank"] + value["rest"]

TokensCounted ==
  /\ Ready /\ Accepted >= HopperCost
  /\ \E n \in 0..(Accepted \div HopperCost) - 1 :
       Earns(SetAccepted("coin", n), [value EXCEPT !["coin"] = n])

PayoutEnded ==
  /\ Ready /\ Accepted >= HopperCost
  /\ LET rest == Accepted % HopperCost IN
     Earns(IncCounter("CoinOut", Accepted \div HopperCost)
               \o SetAccepted("coin", 0) \o SetAccepted("rest", rest),
             [value EXCEPT !["coin"] = 0, !["rest"] = rest])

PaidUncounted(l) == SetAccepted(l, 0)
Paid(l) ==
  IF value[l] > 0 THEN IncCounter("Money", value[l]) \o SetAccepted(l, 0) ELSE <<>>

PrintCheck ==
  /\ Ready
  /\ Earns(Paid("money") \o Paid("bank"),
           [value EXCEPT !["money"] = 0, !["bank"] = 0])

Forgives(writes, lines) ==
  /\ Handler(writes, lines)
  /\ forgiven' = forgiven + value["money"] + value["bank"]

(* The credit has expired, or the motor was stopped by its timeout.        *)
CreditTimeout ==
  /\ Ready /\ Accepted > 0
  /\ Forgives(SetAccepted("rest", 0) \o SetAccepted("bank", 0) \o SetAccepted("money", 0),
              [value EXCEPT !["money"] = 0, !["bank"] = 0, !["rest"] = 0])

MotorTimeout ==
  /\ Ready
  /\ Forgives(SetAccepted("money", 0) \o SetAccepted("bank", 0),
              [value EXCEPT !["money"] = 0, !["bank"] = 0])

-----------------------------------------------------------------------------
(* The chip, and the start-up after a loss of power.                       *)

WriteArrayFram ==
  /\ todo # <<>>
  /\ Performed(Head(todo))
  /\ todo' = Tail(todo)
  /\ UNCHANGED <<boot, lastVars, wiped, forgiven, atRisk, handlers, losses>>

Larger(a, b) == IF a < b THEN b ELSE a
AtStake(l) == Larger(was[l], want[l])

PowerLoss ==
  /\ losses < MaxLosses
  /\ losses' = losses + 1
  /\ todo' = <<>> /\ boot' = "long"
  /\ \/ UNCHANGED framVars
     \/ todo # <<>> /\ CutShort(Head(todo))
  /\ atRisk' = IF boot = "up" /\ todo # <<>>
               THEN atRisk + AtStake("money") + AtStake("bank") ELSE atRisk
  /\ UNCHANGED <<lastVars, wiped, forgiven, handlers>>

CheckLongCounters ==
  /\ boot = "long" /\ todo = <<>>
  /\ todo' = IF long = Torn THEN WipeCounters ELSE <<>>
  /\ wiped' = (wiped \/ long = Torn)
  /\ boot' = After[boot]
  /\ UNCHANGED <<framVars, lastVars, forgiven, atRisk, handlers, losses>>

SealedAlways(l) == TRUE
Sealed(l) == value[l] = crc[l] /\ value[l] # Torn

LoadAcceptedMoney ==
  /\ boot \in Lines /\ todo = <<>>
  /\ todo' = IF Sealed(boot) THEN <<>> ELSE SetAccepted(boot, 0)
  /\ boot' = After[boot]
  /\ UNCHANGED <<framVars, lastVars, wiped, forgiven, atRisk, handlers, losses>>

Next ==
  \/ MoneyInserted \/ BankInserted \/ TokensCounted \/ PayoutEnded \/ PrintCheck
  \/ CreditTimeout \/ MotorTimeout
  \/ WriteArrayFram \/ PowerLoss \/ CheckLongCounters \/ LoadAcceptedMoney

Spec == Init /\ [][Next]_vars

-----------------------------------------------------------------------------

TypeOK ==
  /\ value \in [Lines -> Nat \cup {Torn}] /\ crc \in [Lines -> Nat \cup {Torn}]
  /\ short \in [Counters -> Nat \cup {Torn}]
  /\ long \in [Counters -> Nat] \cup {Torn}
  /\ boot \in Stages
  /\ was \in [Lines -> Nat] /\ want \in [Lines -> Nat] /\ touched \subseteq Lines
  /\ wiped \in BOOLEAN
  /\ {forgiven, atRisk, handlers, losses} \subseteq Nat
  /\ Ready => value \in [Lines -> Nat] /\ long \in [Counters -> Nat]

(* Whatever writes a loss of power cut short, those of the repair included, *)
(* after the start-up each line is what it was before the interrupted       *)
(* handler, what that handler meant it to be, or nothing; and a line the    *)
(* handler did not write is what it was.                                   *)
LinesSurvive ==
  Ready => \A l \in Lines :
             value[l] \in IF l \in touched THEN {was[l], want[l], 0} ELSE {was[l]}

(* The long counters say where the money went: what came in was paid for,   *)
(* given up by a timeout, or is still accepted, except for what was on the  *)
(* lines when power was lost inside a handler.                             *)
BooksDrift ==
  Ready /\ ~wiped =>
    LET missing == long["AllCash"] + long["Bank"] - long["Money"]
                     - value["money"] - value["bank"] - forgiven
    IN missing \in -atRisk..atRisk

=============================================================================
