------------------------- MODULE SavedMoneyProofs -------------------------
(***************************************************************************)
(* Proofs about SavedMoney: what a loss of power may leave on the lines of  *)
(* accepted money, and how far the long counters may drift.                *)
(*                                                                         *)
(* The invariant has three modes.  Idle: nothing is being written and every *)
(* line is whole.  Hand: a handler is writing, and every line is on its way *)
(* from what it was to what the handler wants.  Repair: a handler was       *)
(* interrupted, its lines hold anything of the old and the new value, and   *)
(* the start-up has dealt with some of them.                               *)
(***************************************************************************)
EXTENDS SavedMoney, SequenceTheorems, TLAPS

LineWrites == [kind : {"value", "crc"}, of : Lines, to : Nat]
CountWrites == [kind : {"short", "long"}, of : Counters, to : Nat]
WipeWrites == [kind : {"wipe", "clear"}, of : {"long", "Money", "Others"}, to : {0}]
Writes == LineWrites \cup CountWrites \cup WipeWrites

(* The writes for l are at the places of the set at.                       *)
Only(s, l, at) == \A i \in 1..Len(s) : s[i].of = l => i \in at

Allowed(l) == IF l \in touched THEN {was[l], want[l], 0} ELSE {was[l]}

Whole(l) == value[l] = crc[l] /\ value[l] \in Nat /\ value[l] \in Allowed(l)

Stake == AtStake("money") + AtStake("bank")

(* The money of the long counters, and what writes to come will add to it.  *)
Earned == long["AllCash"] + long["Bank"] - long["Money"] - forgiven

Effect(s, i) ==
  IF i \in 1..Len(s) /\ s[i].kind = "long"
  THEN IF s[i].of \in {"AllCash", "Bank"} THEN s[i].to
       ELSE IF s[i].of = "Money" THEN -s[i].to ELSE 0
  ELSE 0

Due(s) == Effect(s, 1) + (Effect(s, 2) + (Effect(s, 3) + (Effect(s, 4)
            + (Effect(s, 5) + (Effect(s, 6) + (Effect(s, 7) + Effect(s, 8)))))))

Types ==
  /\ value \in [Lines -> Nat \cup {Torn}] /\ crc \in [Lines -> Nat \cup {Torn}]
  /\ short \in [Counters -> Nat \cup {Torn}]
  /\ long \in [Counters -> Nat] \cup {Torn}
  /\ todo \in Seq(Writes)
  /\ boot \in Stages
  /\ was \in [Lines -> Nat] /\ want \in [Lines -> Nat] /\ touched \subseteq Lines
  /\ wiped \in BOOLEAN
  /\ forgiven \in Nat /\ atRisk \in Nat /\ handlers \in Nat /\ losses \in Nat

Idle ==
  /\ todo = <<>>
  /\ long \in [Counters -> Nat]
  /\ \A l \in Lines : Whole(l)
  /\ ~wiped => Earned - value["money"] - value["bank"] \in -atRisk..atRisk

Unwritten(l) ==
  /\ value[l] = was[l] /\ crc[l] = was[l]
  /\ \E i \in 1..Len(todo) - 1 :
       /\ todo[i] = Write("value", l, want[l])
       /\ todo[i + 1] = Write("crc", l, want[l])
       /\ Only(todo, l, {i, i + 1})

Half(l) ==
  /\ value[l] = want[l] /\ crc[l] = was[l]
  /\ todo # <<>> /\ todo[1] = Write("crc", l, want[l])
  /\ Only(todo, l, {1})

Written(l) == value[l] = want[l] /\ crc[l] = want[l] /\ Only(todo, l, {})

(* The counters only rise by what came in, or only by what was paid.        *)
OneWay(s, from, to) ==
  \/ (\A i \in 1..8 : Effect(s, i) >= 0) /\ Due(s) <= to
  \/ (\A i \in 1..8 : Effect(s, i) <= 0) /\ -Due(s) <= from

OnLines(lines) == lines["money"] + lines["bank"]

Hand ==
  /\ boot = "up"
  /\ long \in [Counters -> Nat]
  /\ Len(todo) <= 8
  /\ \A i \in 1..Len(todo) : todo[i] \notin WipeWrites
  /\ \A l \in Lines :
       IF l \in touched THEN Unwritten(l) \/ Half(l) \/ Written(l)
       ELSE want[l] = was[l] /\ Written(l)
  /\ ~wiped =>
       /\ Earned + Due(todo) - OnLines(want) \in -atRisk..atRisk
       /\ OneWay(todo, Stake - OnLines(want), OnLines(want))

Loose(l) ==
  IF l \in touched THEN value[l] \in {was[l], want[l], 0, Torn}
  ELSE value[l] = was[l] /\ crc[l] = was[l]

(* The lines the start-up has not looked at yet.                           *)
Ahead == [long |-> Lines, money |-> Lines, bank |-> Lines \ {"money"},
          rest |-> {"rest", "coin"}, coin |-> {"coin"}, up |-> {}]

Repairs(l) ==
  /\ l \in touched /\ boot = After[l]
  /\ \/ todo = SetAccepted(l, 0)
     \/ todo = <<Write("crc", l, 0)>> /\ value[l] = 0

Repair ==
  /\ \A l \in Lines : Loose(l)
  /\ \/ todo = <<>>
     \/ boot = "money" /\ wiped /\ \A i \in 1..Len(todo) : todo[i] \in WipeWrites
     \/ \E l \in Lines : Repairs(l)
  /\ \A l \in Lines \ Ahead[boot] : Repairs(l) \/ Whole(l)
  /\ \/ long \in [Counters -> Nat]
     \/ boot = "long"
     \/ boot = "money" /\ wiped /\ todo # <<>> /\ Head(todo).kind = "wipe"
  /\ ~wiped /\ long # Torn => Earned \in -(atRisk - Stake)..atRisk

Inv == Types /\ (Idle \/ Hand \/ Repair)

-----------------------------------------------------------------------------
(* Sequences of writes.                                                    *)

LEMMA TwoAndTwo ==
  ASSUME NEW S, NEW a \in S, NEW b \in S, NEW c \in S, NEW d \in S
  PROVE  <<a, b>> \o <<c, d>> = <<a, b, c, d>>
<1>1. <<a, b>> \in Seq(S) /\ <<c, d>> \in Seq(S) /\ <<a, b, c, d>> \in Seq(S)
  OBVIOUS
<1>2. /\ <<a, b>> \o <<c, d>> \in Seq(S)
      /\ Len(<<a, b>> \o <<c, d>>) = 4
      /\ \A i \in 1..4 : (<<a, b>> \o <<c, d>>)[i]
                           = IF i <= 2 THEN <<a, b>>[i] ELSE <<c, d>>[i - 2]
  BY <1>1, ConcatProperties, Len(<<a, b>>) = 2, Len(<<c, d>>) = 2
<1>3. \A i \in 1..4 : (<<a, b>> \o <<c, d>>)[i] = <<a, b, c, d>>[i]
  BY <1>2
<1>4. QED
  BY <1>1, <1>2, <1>3, SeqEqual, Len(<<a, b, c, d>>) = 4

LEMMA FourAndTwo ==
  ASSUME NEW S, NEW a \in S, NEW b \in S, NEW c \in S, NEW d \in S,
         NEW e \in S, NEW f \in S
  PROVE  <<a, b, c, d>> \o <<e, f>> = <<a, b, c, d, e, f>>
<1>1. /\ <<a, b, c, d>> \in Seq(S) /\ <<e, f>> \in Seq(S)
      /\ <<a, b, c, d, e, f>> \in Seq(S)
  OBVIOUS
<1>2. /\ <<a, b, c, d>> \o <<e, f>> \in Seq(S)
      /\ Len(<<a, b, c, d>> \o <<e, f>>) = 6
      /\ \A i \in 1..6 : (<<a, b, c, d>> \o <<e, f>>)[i]
                           = IF i <= 4 THEN <<a, b, c, d>>[i] ELSE <<e, f>>[i - 4]
  BY <1>1, ConcatProperties, Len(<<a, b, c, d>>) = 4, Len(<<e, f>>) = 2
<1>3. \A i \in 1..6 :
        (<<a, b, c, d>> \o <<e, f>>)[i] = <<a, b, c, d, e, f>>[i]
  BY <1>2
<1>4. QED
  BY <1>1, <1>2, <1>3, SeqEqual, Len(<<a, b, c, d, e, f>>) = 6

LEMMA FourAndFour ==
  ASSUME NEW S, NEW a \in S, NEW b \in S, NEW c \in S, NEW d \in S,
         NEW e \in S, NEW f \in S, NEW g \in S, NEW h \in S
  PROVE  <<a, b, c, d>> \o <<e, f, g, h>> = <<a, b, c, d, e, f, g, h>>
<1>1. /\ <<a, b, c, d>> \in Seq(S) /\ <<e, f, g, h>> \in Seq(S)
      /\ <<a, b, c, d, e, f, g, h>> \in Seq(S)
  OBVIOUS
<1>2. /\ <<a, b, c, d>> \o <<e, f, g, h>> \in Seq(S)
      /\ Len(<<a, b, c, d>> \o <<e, f, g, h>>) = 8
      /\ \A i \in 1..8 : (<<a, b, c, d>> \o <<e, f, g, h>>)[i]
                           = IF i <= 4 THEN <<a, b, c, d>>[i] ELSE <<e, f, g, h>>[i - 4]
  BY <1>1, ConcatProperties, Len(<<a, b, c, d>>) = 4, Len(<<e, f, g, h>>) = 4
<1>3. \A i \in 1..8 :
        (<<a, b, c, d>> \o <<e, f, g, h>>)[i] = <<a, b, c, d, e, f, g, h>>[i]
  BY <1>2
<1>4. QED
  BY <1>1, <1>2, <1>3, SeqEqual, Len(<<a, b, c, d, e, f, g, h>>) = 8

LEMMA WritesAre ==
  /\ \A k \in {"value", "crc"}, l \in Lines, m \in Nat : Write(k, l, m) \in Writes
  /\ \A k \in {"short", "long"}, c \in Counters, m \in Nat : Write(k, c, m) \in Writes
BY DEF Write, Writes, LineWrites, CountWrites

LEMMA NothingAdded == \A n \in Int : n + 0 = n
OBVIOUS

LEMMA SumIsInt == \A m, n \in Int : m + n \in Int
OBVIOUS

(* What is left of the effects after the first write.                      *)
LEMMA DueOfTail ==
  ASSUME Types, todo # <<>>, Len(todo) <= 8
  PROVE  /\ \A i \in 1..8 : Effect(todo, i) \in Int
         /\ \A i \in 1..7 : Effect(Tail(todo), i) = Effect(todo, i + 1)
         /\ Effect(Tail(todo), 8) = 0
         /\ Due(todo) \in Int
         /\ Due(Tail(todo)) = Due(todo) - Effect(todo, 1)
<1>1. todo \in Seq(Writes) /\ Len(todo) \in Nat
  BY DEF Types
<1>2. \A i \in 1..Len(todo) : todo[i].to \in Nat
  BY <1>1 DEF Writes, LineWrites, CountWrites, WipeWrites
<1>3. \A i \in 1..8 : Effect(todo, i) \in Int
  BY <1>2 DEF Effect
<1>4. /\ Len(Tail(todo)) = Len(todo) - 1
      /\ \A i \in 1..Len(todo) - 1 : Tail(todo)[i] = todo[i + 1]
  BY <1>1, HeadTailProperties
<1>5. \A i \in 1..7 : Effect(Tail(todo), i) = Effect(todo, i + 1)
  <2>1. TAKE i \in 1..7
  <2>2. CASE i <= Len(todo) - 1
    <3>1. i \in 1..Len(Tail(todo)) /\ i + 1 \in 1..Len(todo)
      BY <1>1, <1>4, <2>2
    <3>2. Tail(todo)[i] = todo[i + 1]
      BY <1>1, <1>4, <2>2
    <3>3. QED
      BY <3>1, <3>2 DEF Effect
  <2>3. CASE ~(i <= Len(todo) - 1)
    BY <1>1, <1>4, <2>3 DEF Effect
  <2>4. QED
    BY <2>2, <2>3
<1>6. Effect(Tail(todo), 8) = 0
  BY <1>1, <1>4 DEF Effect
<1>7. Due(todo) \in Int /\ Due(Tail(todo)) = Due(todo) - Effect(todo, 1)
  <2> PICK a \in Int, b \in Int, c \in Int, d \in Int :
        /\ a = Effect(todo, 1) /\ b = Effect(todo, 2)
        /\ c = Effect(todo, 3) /\ d = Effect(todo, 4)
    BY <1>3
  <2> PICK e \in Int, f \in Int, g \in Int, h \in Int :
        /\ e = Effect(todo, 5) /\ f = Effect(todo, 6)
        /\ g = Effect(todo, 7) /\ h = Effect(todo, 8)
    BY <1>3
  <2> DEFINE rest == b + (c + (d + (e + (f + (g + h)))))
  <2>1. Due(todo) = a + rest
    BY DEF Due
  <2>2. Due(Tail(todo)) = b + (c + (d + (e + (f + (g + (h + 0))))))
    <3>1. /\ Effect(Tail(todo), 1) = b /\ Effect(Tail(todo), 2) = c
          /\ Effect(Tail(todo), 3) = d /\ Effect(Tail(todo), 4) = e
          /\ Effect(Tail(todo), 5) = f /\ Effect(Tail(todo), 6) = g
          /\ Effect(Tail(todo), 7) = h
      BY <1>5
    <3>2. QED
      BY <1>6, <3>1 DEF Due
  <2>3. h + 0 = h /\ rest \in Int
    <3>1. h + 0 = h
      BY NothingAdded, Zenon
    <3>2. f + (g + h) \in Int
      BY SumIsInt, Zenon
    <3>3. d + (e + (f + (g + h))) \in Int
      BY <3>2, SumIsInt, Zenon
    <3>4. rest \in Int
      BY <3>3, SumIsInt, Zenon
    <3>5. QED
      BY <3>1, <3>4
  <2>4. Due(Tail(todo)) = rest
    BY <2>2, <2>3
  <2> HIDE DEF rest
  <2>5. Due(Tail(todo)) = Due(todo) - Effect(todo, 1)
    BY <2>1, <2>3, <2>4
  <2>6. a + rest \in Int
    BY <2>3, SumIsInt, Zenon
  <2>7. QED
    BY <2>1, <2>5, <2>6
<1>8. QED
  BY <1>3, <1>5, <1>6, <1>7

-----------------------------------------------------------------------------
(* The event server waits: every line is whole.                            *)

LEMMA InitInv == Init => Inv
<1> SUFFICES ASSUME Init PROVE Inv
  OBVIOUS
<1>1. long \in [Counters -> Nat] /\ short \in [Counters -> Nat] /\ value \in [Lines -> Nat]
  BY DEF Init, NoCounts
<1>2. Types
  <2>1. value \in [Lines -> Nat \cup {Torn}] /\ crc = value /\ was = value /\ want = value
    BY <1>1 DEF Init
  <2>2. short \in [Counters -> Nat \cup {Torn}]
    BY <1>1
  <2>3. todo \in Seq(Writes) /\ touched \subseteq Lines /\ boot \in Stages
    BY DEF Init, Stages
  <2>4. QED
    BY <1>1, <2>1, <2>2, <2>3 DEF Init, Types
<1>3. Idle
  BY <1>1 DEF Init, Idle, Whole, Allowed, Earned, NoCounts, Counters, Lines
<1>4. QED
  BY <1>2, <1>3 DEF Inv

LEMMA StakeIsNat ==
  ASSUME Types
  PROVE  /\ Stake \in Nat /\ OnLines(want) \in Nat /\ OnLines(want) <= Stake
         /\ OnLines(was) \in Nat /\ OnLines(was) <= Stake
BY DEF Types, Stake, AtStake, Larger, OnLines, Lines

LEMMA EarnedIsInt ==
  ASSUME Types, long \in [Counters -> Nat]
  PROVE  Earned \in Int
<1>1. /\ long["AllCash"] \in Nat /\ long["Bank"] \in Nat /\ long["Money"] \in Nat
      /\ forgiven \in Nat
  BY DEF Types, Counters
<1>2. QED
  BY <1>1 DEF Earned

LEMMA ReadyIsIdle ==
  ASSUME Inv, Ready
  PROVE  Idle
<1>1. CASE Idle
  BY <1>1
<1>2. CASE Hand
  <2>1. \A l \in Lines : Written(l)
    BY <1>2 DEF Hand, Ready, Unwritten, Half
  <2>2. \A l \in Lines : Whole(l)
    BY <1>2, <2>1 DEF Written, Whole, Allowed, Hand, Inv, Types
  <2>3. Due(todo) = 0
    BY DEF Ready, Due, Effect
  <2>4. OnLines(want) = value["money"] + value["bank"]
    BY <2>1 DEF Written, OnLines, Lines
  <2>5. /\ Earned \in Int /\ value["money"] \in Nat /\ value["bank"] \in Nat
    <3>1. value["money"] \in Nat /\ value["bank"] \in Nat
      BY <2>2 DEF Whole, Lines
    <3>2. QED
      BY <1>2, <3>1, EarnedIsInt DEF Hand, Inv
  <2>6. ~wiped => Earned - value["money"] - value["bank"] \in -atRisk..atRisk
    BY <1>2, <2>3, <2>4, <2>5 DEF Hand, Inv, Types
  <2>7. QED
    BY <1>2, <2>2, <2>6 DEF Idle, Hand, Ready
<1>3. CASE Repair
  <2>1. \A l \in Lines : Whole(l)
    BY <1>3 DEF Repair, Repairs, Ready, Ahead, SetAccepted
  <2>2. long \in [Counters -> Nat]
    BY <1>3 DEF Repair, Ready
  <2>3. /\ value["money"] \in Nat /\ value["bank"] \in Nat
        /\ value["money"] <= AtStake("money") /\ value["bank"] <= AtStake("bank")
    BY <2>1 DEF Whole, Allowed, AtStake, Larger, Lines, Inv, Types
  <2>4. Earned \in Int /\ long # Torn
    BY <2>2, EarnedIsInt, BooksAssumption DEF Inv
  <2>5. ~wiped => Earned - value["money"] - value["bank"] \in -atRisk..atRisk
    <3>1. Stake = AtStake("money") + AtStake("bank")
      BY DEF Stake
    <3>2. AtStake("money") \in Nat /\ AtStake("bank") \in Nat
      BY DEF AtStake, Larger, Lines, Inv, Types
    <3>3. ~wiped => Earned \in -(atRisk - Stake)..atRisk
      BY <1>3, <2>4 DEF Repair
    <3>4. /\ atRisk \in Nat
          /\ ~wiped => -(atRisk - Stake) <= Earned /\ Earned <= atRisk
      BY <2>4, <3>1, <3>2, <3>3 DEF Inv, Types
    <3>5. QED
      BY <2>3, <2>4, <3>1, <3>2, <3>4
  <2>6. QED
    BY <2>1, <2>2, <2>5 DEF Idle, Ready
<1>4. QED
  BY <1>1, <1>2, <1>3 DEF Inv

(* The writes of a handler and the lines it wants fit each other.          *)
Plan(writes, lines, up) ==
  /\ writes \in Seq(Writes) /\ Len(writes) <= 8
  /\ lines \in [Lines -> Nat]
  /\ \A i \in 1..Len(writes) : writes[i] \notin WipeWrites
  /\ \A l \in Lines :
       \/ Only(writes, l, {}) /\ lines[l] = value[l]
       \/ \E i \in 1..Len(writes) - 1 :
            /\ writes[i] = Write("value", l, lines[l])
            /\ writes[i + 1] = Write("crc", l, lines[l])
            /\ Only(writes, l, {i, i + 1})
  /\ Due(writes) = OnLines(lines) - OnLines(value) + up
  /\ OneWay(writes, OnLines(value) - OnLines(lines), OnLines(lines))

LEMMA HandlerKeepsInv ==
  ASSUME Inv, Ready, NEW writes, NEW lines, NEW up \in Nat,
         Handler(writes, lines), forgiven' = forgiven + up, Plan(writes, lines, up)
  PROVE  Inv'
<1>1. Idle
  BY ReadyIsIdle
<1>2. value \in [Lines -> Nat] /\ \A l \in Lines : crc[l] = value[l]
  BY <1>1 DEF Idle, Whole, Inv, Types
<1>3. /\ todo' = writes /\ was' = value /\ want' = lines
      /\ handlers' \in Nat
      /\ UNCHANGED <<value, crc, short, long, boot, wiped, atRisk, losses>>
  BY DEF Handler, Inv, Types, framVars
<1>4. touched' = {l \in Lines : \E i \in 1..Len(writes) : writes[i].of = l}
  <2>1. DOMAIN writes = 1..Len(writes)
    BY DEF Plan
  <2>2. QED
    BY <2>1 DEF Handler
<1>5. Types'
  BY <1>2, <1>3, <1>4 DEF Inv, Types, Plan
<1>6. Hand'
  <2>1. boot' = "up" /\ (long \in [Counters -> Nat])'
    BY <1>1, <1>3 DEF Ready, Idle
  <2>2. (Len(todo) <= 8 /\ \A i \in 1..Len(todo) : todo[i] \notin WipeWrites)'
    BY <1>3 DEF Plan
  <2>3. ASSUME NEW l \in Lines
        PROVE  (IF l \in touched THEN Unwritten(l) \/ Half(l) \/ Written(l)
                ELSE want[l] = was[l] /\ Written(l))'
    <3>1. CASE Only(writes, l, {}) /\ lines[l] = value[l]
      BY <1>2, <1>3, <1>4, <3>1 DEF Only, Written
    <3>2. CASE \E i \in 1..Len(writes) - 1 :
                 /\ writes[i] = Write("value", l, lines[l])
                 /\ writes[i + 1] = Write("crc", l, lines[l])
                 /\ Only(writes, l, {i, i + 1})
      <4>1. l \in touched'
        BY <1>4, <3>2 DEF Write, Plan
      <4>2. Unwritten(l)'
        BY <1>2, <1>3, <3>2 DEF Unwritten, Only
      <4>3. QED
        BY <4>1, <4>2
    <3>3. QED
      BY <3>1, <3>2 DEF Plan
  <2>4. ASSUME ~wiped'
        PROVE  /\ Earned' + Due(todo)' - OnLines(want)' \in -atRisk'..atRisk'
               /\ OneWay(todo, Stake - OnLines(want), OnLines(want))'
    <3>1. Earned' = Earned - up /\ Earned \in Int
      <4>1. /\ long["AllCash"] \in Nat /\ long["Bank"] \in Nat /\ long["Money"] \in Nat
            /\ forgiven \in Nat /\ long' = long
        BY <1>1, <1>3 DEF Idle, Counters, Inv, Types
      <4>2. QED
        BY <4>1 DEF Earned
    <3>2. /\ lines["money"] \in Nat /\ lines["bank"] \in Nat
          /\ value["money"] \in Nat /\ value["bank"] \in Nat
      BY <1>2 DEF Plan, Lines
    <3>3. Earned - value["money"] - value["bank"] \in -atRisk..atRisk
      BY <1>1, <1>3, <2>4 DEF Idle
    <3>4. Earned' + Due(todo)' - OnLines(want)'
            = Earned - value["money"] - value["bank"]
      <4>1. Due(todo)' = lines["money"] + lines["bank"]
                           - (value["money"] + value["bank"]) + up
        <5>1. Due(todo)' = Due(writes)
          BY <1>3 DEF Due, Effect
        <5>2. Due(writes) = OnLines(lines) - OnLines(value) + up
          BY DEF Plan
        <5>3. QED
          BY <3>2, <5>1, <5>2 DEF OnLines
      <4>2. OnLines(want)' = lines["money"] + lines["bank"]
        BY <1>3 DEF OnLines
      <4>3. QED
        BY <3>1, <3>2, <4>1, <4>2
    <3>5. Stake' \in Nat /\ OnLines(value) <= Stake'
      <4>1. /\ was' = value /\ want' = lines
            /\ Stake' = Larger(value["money"], lines["money"])
                           + Larger(value["bank"], lines["bank"])
        BY <1>3 DEF Stake, AtStake
      <4>2. QED
        BY <3>2, <4>1 DEF Larger, OnLines
    <3>6. OneWay(todo, Stake - OnLines(want), OnLines(want))'
      <4>1. /\ OnLines(value) - OnLines(lines) <= Stake' - OnLines(lines)
            /\ Due(writes) \in Int
        BY <3>2, <3>5 DEF OnLines, Plan
      <4>2. (\A i \in 1..8 : Effect(writes, i) <= 0)
              /\ -Due(writes) <= OnLines(value) - OnLines(lines)
            => -Due(writes) <= Stake' - OnLines(lines)
        BY <3>2, <3>5, <4>1 DEF OnLines
      <4>3. OneWay(writes, Stake' - OnLines(lines), OnLines(lines))
        BY <4>2 DEF OneWay, Plan
      <4>4. OneWay(todo, Stake - OnLines(want), OnLines(want))'
              <=> OneWay(writes, Stake' - OnLines(lines), OnLines(lines))
        BY <1>3 DEF OneWay, OnLines
      <4>5. QED
        BY <4>3, <4>4
    <3>7. QED
      BY <1>3, <3>3, <3>4, <3>6
  <2>5. QED
    BY <2>1, <2>2, <2>3, <2>4 DEF Hand
<1>7. QED
  BY <1>5, <1>6 DEF Inv

-----------------------------------------------------------------------------
(* Every handler has a plan.                                               *)

Plain == LineWrites \cup CountWrites

LEMMA NoWipes ==
  ASSUME NEW s \in Seq(Plain)
  PROVE  s \in Seq(Writes) /\ \A i \in 1..Len(s) : s[i] \notin WipeWrites
<1>1. \A w \in Plain : w \in Writes /\ w \notin WipeWrites
  BY DEF Plain, Writes, LineWrites, CountWrites, WipeWrites
<1>2. QED
  BY <1>1

LEMMA HandlerWrites ==
  /\ \A k \in {"value", "crc"}, l \in Lines, m \in Nat :
       Write(k, l, m) \in Plain
  /\ \A k \in {"short", "long"}, c \in Counters, m \in Nat :
       Write(k, c, m) \in Plain
BY DEF Write, Plain, LineWrites, CountWrites

LEMMA TwoWrites ==
  ASSUME NEW a \in Plain, NEW b \in Plain
  PROVE  /\ <<a, b>> \in Seq(Writes) /\ Len(<<a, b>>) = 2
         /\ \A i \in 1..Len(<<a, b>>) : <<a, b>>[i] \notin WipeWrites
<1>1. <<a, b>> \in Seq(Plain) /\ Len(<<a, b>>) = 2
  OBVIOUS
<1>2. QED
  BY <1>1, NoWipes

LEMMA FourWrites ==
  ASSUME NEW a \in Plain, NEW b \in Plain, NEW c \in Plain, NEW d \in Plain,
         NEW w, w = <<a, b, c, d>>
  PROVE  /\ <<a, b>> \o <<c, d>> = w
         /\ w \in Seq(Writes) /\ Len(w) = 4
         /\ \A i \in 1..Len(w) : w[i] \notin WipeWrites
<1>1. w \in Seq(Plain) /\ Len(w) = 4
  OBVIOUS
<1>2. <<a, b>> \o <<c, d>> = w
  BY TwoAndTwo
<1>3. QED
  BY <1>1, <1>2, NoWipes

LEMMA SixWrites ==
  ASSUME NEW a \in Plain, NEW b \in Plain, NEW c \in Plain, NEW d \in Plain,
         NEW e \in Plain, NEW f \in Plain, NEW w, w = <<a, b, c, d, e, f>>
  PROVE  /\ <<a, b>> \o <<c, d>> \o <<e, f>> = w
         /\ w \in Seq(Writes) /\ Len(w) = 6
         /\ \A i \in 1..Len(w) : w[i] \notin WipeWrites
<1>1. w \in Seq(Plain) /\ Len(w) = 6
  OBVIOUS
<1>2. <<a, b>> \o <<c, d>> = <<a, b, c, d>>
  BY TwoAndTwo
<1>3. <<a, b, c, d>> \o <<e, f>> = w
  BY FourAndTwo
<1>4. QED
  BY <1>1, <1>2, <1>3, NoWipes

LEMMA EightWrites ==
  ASSUME NEW a \in Plain, NEW b \in Plain, NEW c \in Plain, NEW d \in Plain,
         NEW e \in Plain, NEW f \in Plain, NEW g \in Plain, NEW h \in Plain,
         NEW w, w = <<a, b, c, d, e, f, g, h>>
  PROVE  /\ (<<a, b>> \o <<c, d>>) \o (<<e, f>> \o <<g, h>>) = w
         /\ w \in Seq(Writes) /\ Len(w) = 8
         /\ \A i \in 1..Len(w) : w[i] \notin WipeWrites
<1>1. w \in Seq(Plain) /\ Len(w) = 8
  OBVIOUS
<1>2. <<a, b>> \o <<c, d>> = <<a, b, c, d>> /\ <<e, f>> \o <<g, h>> = <<e, f, g, h>>
  BY TwoAndTwo
<1>3. <<a, b, c, d>> \o <<e, f, g, h>> = w
  BY FourAndFour
<1>4. QED
  BY <1>1, <1>2, <1>3, NoWipes

LEMMA OnLinesIs ==
  ASSUME NEW lines \in [Lines -> Nat]
  PROVE  /\ OnLines(lines) = lines["money"] + lines["bank"]
         /\ OnLines(lines) \in Nat
BY DEF OnLines, Lines

LEMMA ReadyIsWhole ==
  ASSUME Inv, Ready
  PROVE  value \in [Lines -> Nat]
BY ReadyIsIdle DEF Idle, Whole, Inv, Types

LEMMA MoneyPlan ==
  ASSUME Inv, Ready, NEW m \in Nat, NEW n \in Nat, n = value["money"] + m
  PROVE  Plan(SetAccepted("money", n) \o IncCounter("Coin", m)
                \o IncCounter("AllCash", m),
              [value EXCEPT !["money"] = n], 0)
<1> DEFINE a == Write("value", "money", n)
           b == Write("crc", "money", n)
           c == Write("short", "Coin", m)
           d == Write("long", "Coin", m)
           e == Write("short", "AllCash", m)
           f == Write("long", "AllCash", m)
           w == <<a, b, c, d, e, f>>
           lines == [value EXCEPT !["money"] = n]
<1>1. value \in [Lines -> Nat]
  BY ReadyIsWhole
<1>2. a \in Plain /\ b \in Plain /\ c \in Plain /\ d \in Plain /\ e \in Plain /\ f \in Plain
  BY HandlerWrites DEF Lines, Counters
<1>3. SetAccepted("money", n) = <<a, b>> /\ IncCounter("Coin", m) = <<c, d>>
        /\ IncCounter("AllCash", m) = <<e, f>>
  BY DEF SetAccepted, IncCounter
<1>4. /\ SetAccepted("money", n) \o IncCounter("Coin", m) \o IncCounter("AllCash", m) = w
      /\ w \in Seq(Writes) /\ Len(w) = 6 /\ \A i \in 1..Len(w) : w[i] \notin WipeWrites
  <2>1. w = <<a, b, c, d, e, f>>
    OBVIOUS
  <2> HIDE DEF a, b, c, d, e, f, w
  <2>2. <<a, b>> \o <<c, d>> \o <<e, f>> = w
    BY <1>2, <2>1, SixWrites
  <2>3. w \in Seq(Writes) /\ Len(w) = 6 /\ \A i \in 1..Len(w) : w[i] \notin WipeWrites
    BY <1>2, <2>1, SixWrites
  <2>4. QED
    BY <1>3, <2>2, <2>3
<1>5. lines \in [Lines -> Nat]
  BY <1>1
<1>6. \A l \in Lines :
        \/ Only(w, l, {}) /\ lines[l] = value[l]
        \/ \E i \in 1..Len(w) - 1 :
             /\ w[i] = Write("value", l, lines[l])
             /\ w[i + 1] = Write("crc", l, lines[l])
             /\ Only(w, l, {i, i + 1})
  <2>1. Only(w, "money", {1, 2}) /\ \A l \in Lines \ {"money"} : Only(w, l, {})
    BY <1>4 DEF Only, Write, Lines
  <2>2. w[1] = Write("value", "money", n) /\ w[2] = Write("crc", "money", n)
    OBVIOUS
  <2>3. lines["money"] = n /\ \A l \in Lines \ {"money"} : lines[l] = value[l]
    BY <1>1 DEF Lines
  <2> HIDE DEF w, lines
  <2>4. TAKE l \in Lines
  <2>5. CASE l = "money"
    BY <1>4, <2>1, <2>2, <2>3, <2>5
  <2>6. CASE l \in Lines \ {"money"}
    BY <2>1, <2>3, <2>6
  <2>7. QED
    BY <2>5, <2>6
<1>7. \A i \in 1..8 : Effect(w, i) = IF i = 6 THEN m ELSE 0
  BY <1>4 DEF Effect, Write
<1>8. Due(w) = m
  BY <1>7 DEF Due
<1>9. OnLines(lines) = OnLines(value) + m /\ OnLines(lines) >= m
  <2>1. lines["money"] = value["money"] + m /\ lines["bank"] = value["bank"]
    BY <1>1 DEF Lines
  <2>2. value["money"] \in Nat /\ value["bank"] \in Nat
    BY <1>1 DEF Lines
  <2>3. QED
    BY <2>1, <2>2 DEF OnLines
<1>10. OneWay(w, OnLines(value) - OnLines(lines), OnLines(lines))
  BY <1>7, <1>8, <1>9 DEF OneWay
<1>11. Due(w) = OnLines(lines) - OnLines(value) + 0
  BY <1>1, <1>8, <1>9, OnLinesIs
<1> HIDE DEF w, lines
<1>12. Plan(w, lines, 0)
  BY <1>4, <1>5, <1>6, <1>10, <1>11 DEF Plan
<1>13. QED
  BY <1>4, <1>12 DEF lines

LEMMA BankPlan ==
  ASSUME Inv, Ready, NEW m \in Nat, NEW n \in Nat, n = value["bank"] + m
  PROVE  Plan(SetAccepted("bank", n) \o IncCounter("Bank", m),
              [value EXCEPT !["bank"] = n], 0)
<1> DEFINE a == Write("value", "bank", n)
           b == Write("crc", "bank", n)
           c == Write("short", "Bank", m)
           d == Write("long", "Bank", m)
           w == <<a, b, c, d>>
           lines == [value EXCEPT !["bank"] = n]
<1>1. value \in [Lines -> Nat]
  BY ReadyIsWhole
<1>2. a \in Plain /\ b \in Plain /\ c \in Plain /\ d \in Plain
  BY HandlerWrites DEF Lines, Counters
<1>3. /\ SetAccepted("bank", n) = <<a, b>>
      /\ IncCounter("Bank", m) = <<c, d>>
  BY DEF SetAccepted, IncCounter
<1>4. /\ SetAccepted("bank", n) \o IncCounter("Bank", m) = w
      /\ w \in Seq(Writes) /\ Len(w) = 4 /\ \A i \in 1..Len(w) : w[i] \notin WipeWrites
  <2>1. w = <<a, b, c, d>>
    OBVIOUS
  <2> HIDE DEF a, b, c, d, w
  <2>2. <<a, b>> \o <<c, d>> = w
    BY <1>2, <2>1, FourWrites
  <2>3. w \in Seq(Writes) /\ Len(w) = 4 /\ \A i \in 1..Len(w) : w[i] \notin WipeWrites
    BY <1>2, <2>1, FourWrites
  <2>4. QED
    BY <1>3, <2>2, <2>3
<1>5. lines \in [Lines -> Nat]
  BY <1>1
<1>6. \A l \in Lines :
        \/ Only(w, l, {}) /\ lines[l] = value[l]
        \/ \E i \in 1..Len(w) - 1 :
             /\ w[i] = Write("value", l, lines[l])
             /\ w[i + 1] = Write("crc", l, lines[l])
             /\ Only(w, l, {i, i + 1})
  <2>1. /\ Only(w, "bank", {1, 2})
        /\ \A l \in Lines \ {"bank"} : Only(w, l, {})
    BY <1>4 DEF Only, Write, Lines
  <2>2. /\ w[1] = Write("value", "bank", n) /\ w[2] = Write("crc", "bank", n)
    OBVIOUS
  <2>3. /\ lines["bank"] = n
        /\ \A l \in Lines \ {"bank"} : lines[l] = value[l]
    BY <1>1 DEF Lines
  <2> HIDE DEF w, lines
  <2>4. TAKE l \in Lines
  <2>5. CASE l = "bank"
    BY <1>4, <2>1, <2>2, <2>3, <2>5
  <2>6. CASE l \in Lines \ {"bank"}
    BY <2>1, <2>3, <2>6
  <2>7. QED
    BY <2>5, <2>6
<1>7. \A i \in 1..8 : Effect(w, i) = IF i = 4 THEN m ELSE 0
  BY <1>4 DEF Effect, Write
<1>8. Due(w) = m
  BY <1>7 DEF Due
<1>9. OnLines(lines) = OnLines(value) + m /\ OnLines(lines) >= m
  <2>1. lines["bank"] = value["bank"] + m /\ lines["money"] = value["money"]
    BY <1>1 DEF Lines
  <2>2. value["money"] \in Nat /\ value["bank"] \in Nat
    BY <1>1 DEF Lines
  <2>3. QED
    BY <2>1, <2>2 DEF OnLines
<1>10. OneWay(w, OnLines(value) - OnLines(lines), OnLines(lines))
  BY <1>1, <1>5, <1>7, <1>8, <1>9, OnLinesIs DEF OneWay
<1>11. Due(w) = OnLines(lines) - OnLines(value) + 0
  BY <1>1, <1>5, <1>8, <1>9, OnLinesIs
<1> HIDE DEF w, lines
<1>12. Plan(w, lines, 0)
  BY <1>4, <1>5, <1>6, <1>10, <1>11 DEF Plan
<1>13. QED
  BY <1>4, <1>12 DEF lines

LEMMA TokensPlan ==
  ASSUME Inv, Ready, NEW n \in Nat
  PROVE  Plan(SetAccepted("coin", n),
              [value EXCEPT !["coin"] = n], 0)
<1> DEFINE a == Write("value", "coin", n)
           b == Write("crc", "coin", n)
           w == <<a, b>>
           lines == [value EXCEPT !["coin"] = n]
<1>1. value \in [Lines -> Nat]
  BY ReadyIsWhole
<1>2. a \in Plain /\ b \in Plain
  BY HandlerWrites DEF Lines, Counters
<1>3. /\ SetAccepted("coin", n) = <<a, b>>
  BY DEF SetAccepted, IncCounter
<1>4. /\ SetAccepted("coin", n) = w
      /\ w \in Seq(Writes) /\ Len(w) = 2 /\ \A i \in 1..Len(w) : w[i] \notin WipeWrites
  <2>1. w = <<a, b>>
    OBVIOUS
  <2> HIDE DEF a, b, w
  <2>2. SetAccepted("coin", n) = w
    BY <1>3, <2>1
  <2>3. w \in Seq(Writes) /\ Len(w) = 2 /\ \A i \in 1..Len(w) : w[i] \notin WipeWrites
    BY <1>2, <2>1, TwoWrites
  <2>4. QED
    BY <1>3, <2>2, <2>3
<1>5. lines \in [Lines -> Nat]
  BY <1>1
<1>6. \A l \in Lines :
        \/ Only(w, l, {}) /\ lines[l] = value[l]
        \/ \E i \in 1..Len(w) - 1 :
             /\ w[i] = Write("value", l, lines[l])
             /\ w[i + 1] = Write("crc", l, lines[l])
             /\ Only(w, l, {i, i + 1})
  <2>1. /\ Only(w, "coin", {1, 2})
        /\ \A l \in Lines \ {"coin"} : Only(w, l, {})
    BY <1>4 DEF Only, Write, Lines
  <2>2. /\ w[1] = Write("value", "coin", n) /\ w[2] = Write("crc", "coin", n)
    OBVIOUS
  <2>3. /\ lines["coin"] = n
        /\ \A l \in Lines \ {"coin"} : lines[l] = value[l]
    BY <1>1 DEF Lines
  <2> HIDE DEF w, lines
  <2>4. TAKE l \in Lines
  <2>5. CASE l = "coin"
    BY <1>4, <2>1, <2>2, <2>3, <2>5
  <2>6. CASE l \in Lines \ {"coin"}
    BY <2>1, <2>3, <2>6
  <2>7. QED
    BY <2>5, <2>6
<1>7. \A i \in 1..8 : Effect(w, i) = 0
  BY <1>4 DEF Effect, Write
<1>8. Due(w) = 0
  BY <1>7 DEF Due
<1>9. OnLines(lines) = OnLines(value)
  <2>1. lines["bank"] = value["bank"] /\ lines["money"] = value["money"]
    BY <1>1 DEF Lines
  <2>2. QED
    BY <2>1 DEF OnLines
<1>10. OneWay(w, OnLines(value) - OnLines(lines), OnLines(lines))
  BY <1>1, <1>5, <1>7, <1>8, <1>9, OnLinesIs DEF OneWay
<1>11. Due(w) = OnLines(lines) - OnLines(value) + 0
  BY <1>1, <1>5, <1>8, <1>9, OnLinesIs
<1> HIDE DEF w, lines
<1>12. Plan(w, lines, 0)
  BY <1>4, <1>5, <1>6, <1>10, <1>11 DEF Plan
<1>13. QED
  BY <1>4, <1>12 DEF lines

LEMMA PayoutPlan ==
  ASSUME Inv, Ready, NEW n \in Nat, NEW r \in Nat
  PROVE  Plan(IncCounter("CoinOut", n) \o SetAccepted("coin", 0) \o SetAccepted("rest", r),
              [value EXCEPT !["coin"] = 0, !["rest"] = r], 0)
<1> DEFINE a == Write("short", "CoinOut", n)
           b == Write("long", "CoinOut", n)
           c == Write("value", "coin", 0)
           d == Write("crc", "coin", 0)
           e == Write("value", "rest", r)
           f == Write("crc", "rest", r)
           w == <<a, b, c, d, e, f>>
           lines == [value EXCEPT !["coin"] = 0, !["rest"] = r]
<1>1. value \in [Lines -> Nat]
  BY ReadyIsWhole
<1>2. a \in Plain /\ b \in Plain /\ c \in Plain /\ d \in Plain /\ e \in Plain
        /\ f \in Plain
  BY HandlerWrites DEF Lines, Counters
<1>3. /\ IncCounter("CoinOut", n) = <<a, b>>
      /\ SetAccepted("coin", 0) = <<c, d>>
      /\ SetAccepted("rest", r) = <<e, f>>
  BY DEF SetAccepted, IncCounter
<1>4. /\ IncCounter("CoinOut", n) \o SetAccepted("coin", 0) \o SetAccepted("rest", r) = w
      /\ w \in Seq(Writes) /\ Len(w) = 6 /\ \A i \in 1..Len(w) : w[i] \notin WipeWrites
  <2>1. w = <<a, b, c, d, e, f>>
    OBVIOUS
  <2> HIDE DEF a, b, c, d, e, f, w
  <2>2. <<a, b>> \o <<c, d>> \o <<e, f>> = w
    BY <1>2, <2>1, SixWrites
  <2>3. w \in Seq(Writes) /\ Len(w) = 6 /\ \A i \in 1..Len(w) : w[i] \notin WipeWrites
    BY <1>2, <2>1, SixWrites
  <2>4. QED
    BY <1>3, <2>2, <2>3
<1>5. lines \in [Lines -> Nat]
  BY <1>1
<1>6. \A l \in Lines :
        \/ Only(w, l, {}) /\ lines[l] = value[l]
        \/ \E i \in 1..Len(w) - 1 :
             /\ w[i] = Write("value", l, lines[l])
             /\ w[i + 1] = Write("crc", l, lines[l])
             /\ Only(w, l, {i, i + 1})
  <2>1. /\ Only(w, "coin", {3, 4})
        /\ Only(w, "rest", {5, 6})
        /\ \A l \in Lines \ {"coin", "rest"} : Only(w, l, {})
    BY <1>4 DEF Only, Write, Lines
  <2>2. /\ w[3] = Write("value", "coin", 0) /\ w[4] = Write("crc", "coin", 0)
        /\ w[5] = Write("value", "rest", r) /\ w[6] = Write("crc", "rest", r)
    OBVIOUS
  <2>3. /\ lines["coin"] = 0
        /\ lines["rest"] = r
        /\ \A l \in Lines \ {"coin", "rest"} : lines[l] = value[l]
    BY <1>1 DEF Lines
  <2> HIDE DEF w, lines
  <2>4. TAKE l \in Lines
  <2>5. CASE l = "coin"
    BY <1>4, <2>1, <2>2, <2>3, <2>5
  <2>6. CASE l = "rest"
    BY <1>4, <2>1, <2>2, <2>3, <2>6
  <2>7. CASE l \in Lines \ {"coin", "rest"}
    BY <2>1, <2>3, <2>7
  <2>8. QED
    BY <2>5, <2>6, <2>7
<1>7. \A i \in 1..8 : Effect(w, i) = 0
  BY <1>4 DEF Effect, Write
<1>8. Due(w) = 0
  BY <1>7 DEF Due
<1>9. OnLines(lines) = OnLines(value)
  <2>1. lines["bank"] = value["bank"] /\ lines["money"] = value["money"]
    BY <1>1 DEF Lines
  <2>2. QED
    BY <2>1 DEF OnLines
<1>10. OneWay(w, OnLines(value) - OnLines(lines), OnLines(lines))
  BY <1>1, <1>5, <1>7, <1>8, <1>9, OnLinesIs DEF OneWay
<1>11. Due(w) = OnLines(lines) - OnLines(value) + 0
  BY <1>1, <1>5, <1>8, <1>9, OnLinesIs
<1> HIDE DEF w, lines
<1>12. Plan(w, lines, 0)
  BY <1>4, <1>5, <1>6, <1>10, <1>11 DEF Plan
<1>13. QED
  BY <1>4, <1>12 DEF lines

LEMMA CreditTimeoutPlan ==
  ASSUME Inv, Ready
  PROVE  Plan(SetAccepted("rest", 0) \o SetAccepted("bank", 0) \o SetAccepted("money", 0),
              [value EXCEPT !["money"] = 0, !["bank"] = 0, !["rest"] = 0], OnLines(value))
<1> DEFINE a == Write("value", "rest", 0)
           b == Write("crc", "rest", 0)
           c == Write("value", "bank", 0)
           d == Write("crc", "bank", 0)
           e == Write("value", "money", 0)
           f == Write("crc", "money", 0)
           w == <<a, b, c, d, e, f>>
           lines == [value EXCEPT !["money"] = 0, !["bank"] = 0, !["rest"] = 0]
<1>1. value \in [Lines -> Nat]
  BY ReadyIsWhole
<1>2. a \in Plain /\ b \in Plain /\ c \in Plain /\ d \in Plain /\ e \in Plain
        /\ f \in Plain
  BY HandlerWrites DEF Lines, Counters
<1>3. /\ SetAccepted("rest", 0) = <<a, b>>
      /\ SetAccepted("bank", 0) = <<c, d>>
      /\ SetAccepted("money", 0) = <<e, f>>
  BY DEF SetAccepted, IncCounter
<1>4. /\ SetAccepted("rest", 0) \o SetAccepted("bank", 0) \o SetAccepted("money", 0) = w
      /\ w \in Seq(Writes) /\ Len(w) = 6 /\ \A i \in 1..Len(w) : w[i] \notin WipeWrites
  <2>1. w = <<a, b, c, d, e, f>>
    OBVIOUS
  <2> HIDE DEF a, b, c, d, e, f, w
  <2>2. <<a, b>> \o <<c, d>> \o <<e, f>> = w
    BY <1>2, <2>1, SixWrites
  <2>3. w \in Seq(Writes) /\ Len(w) = 6 /\ \A i \in 1..Len(w) : w[i] \notin WipeWrites
    BY <1>2, <2>1, SixWrites
  <2>4. QED
    BY <1>3, <2>2, <2>3
<1>5. lines \in [Lines -> Nat]
  BY <1>1
<1>6. \A l \in Lines :
        \/ Only(w, l, {}) /\ lines[l] = value[l]
        \/ \E i \in 1..Len(w) - 1 :
             /\ w[i] = Write("value", l, lines[l])
             /\ w[i + 1] = Write("crc", l, lines[l])
             /\ Only(w, l, {i, i + 1})
  <2>1. /\ Only(w, "rest", {1, 2})
        /\ Only(w, "bank", {3, 4})
        /\ Only(w, "money", {5, 6})
        /\ \A l \in Lines \ {"rest", "bank", "money"} : Only(w, l, {})
    BY <1>4 DEF Only, Write, Lines
  <2>2. /\ w[1] = Write("value", "rest", 0) /\ w[2] = Write("crc", "rest", 0)
        /\ w[3] = Write("value", "bank", 0) /\ w[4] = Write("crc", "bank", 0)
        /\ w[5] = Write("value", "money", 0) /\ w[6] = Write("crc", "money", 0)
    OBVIOUS
  <2>3. /\ lines["rest"] = 0
        /\ lines["bank"] = 0
        /\ lines["money"] = 0
        /\ \A l \in Lines \ {"rest", "bank", "money"} : lines[l] = value[l]
    BY <1>1 DEF Lines
  <2> HIDE DEF w, lines
  <2>4. TAKE l \in Lines
  <2>5. CASE l = "rest"
    BY <1>4, <2>1, <2>2, <2>3, <2>5
  <2>6. CASE l = "bank"
    BY <1>4, <2>1, <2>2, <2>3, <2>6
  <2>7. CASE l = "money"
    BY <1>4, <2>1, <2>2, <2>3, <2>7
  <2>8. CASE l \in Lines \ {"rest", "bank", "money"}
    BY <2>1, <2>3, <2>8
  <2>9. QED
    BY <2>5, <2>6, <2>7, <2>8
<1>7. \A i \in 1..8 : Effect(w, i) = 0
  BY <1>4 DEF Effect, Write
<1>8. Due(w) = 0
  BY <1>7 DEF Due
<1>9. OnLines(lines) = 0
  <2>1. lines["bank"] = 0 /\ lines["money"] = 0
    BY <1>1 DEF Lines
  <2>2. QED
    BY <2>1 DEF OnLines
<1>10. OneWay(w, OnLines(value) - OnLines(lines), OnLines(lines))
  BY <1>1, <1>5, <1>7, <1>8, <1>9, OnLinesIs DEF OneWay
<1>11. Due(w) = OnLines(lines) - OnLines(value) + OnLines(value)
  BY <1>1, <1>5, <1>8, <1>9, OnLinesIs
<1> HIDE DEF w, lines
<1>12. Plan(w, lines, OnLines(value))
  BY <1>4, <1>5, <1>6, <1>10, <1>11 DEF Plan
<1>13. QED
  BY <1>4, <1>12 DEF lines

LEMMA MotorTimeoutPlan ==
  ASSUME Inv, Ready
  PROVE  Plan(SetAccepted("money", 0) \o SetAccepted("bank", 0),
              [value EXCEPT !["money"] = 0, !["bank"] = 0], OnLines(value))
<1> DEFINE a == Write("value", "money", 0)
           b == Write("crc", "money", 0)
           c == Write("value", "bank", 0)
           d == Write("crc", "bank", 0)
           w == <<a, b, c, d>>
           lines == [value EXCEPT !["money"] = 0, !["bank"] = 0]
<1>1. value \in [Lines -> Nat]
  BY ReadyIsWhole
<1>2. a \in Plain /\ b \in Plain /\ c \in Plain /\ d \in Plain
  BY HandlerWrites DEF Lines, Counters
<1>3. /\ SetAccepted("money", 0) = <<a, b>>
      /\ SetAccepted("bank", 0) = <<c, d>>
  BY DEF SetAccepted, IncCounter
<1>4. /\ SetAccepted("money", 0) \o SetAccepted("bank", 0) = w
      /\ w \in Seq(Writes) /\ Len(w) = 4 /\ \A i \in 1..Len(w) : w[i] \notin WipeWrites
  <2>1. w = <<a, b, c, d>>
    OBVIOUS
  <2> HIDE DEF a, b, c, d, w
  <2>2. <<a, b>> \o <<c, d>> = w
    BY <1>2, <2>1, FourWrites
  <2>3. w \in Seq(Writes) /\ Len(w) = 4 /\ \A i \in 1..Len(w) : w[i] \notin WipeWrites
    BY <1>2, <2>1, FourWrites
  <2>4. QED
    BY <1>3, <2>2, <2>3
<1>5. lines \in [Lines -> Nat]
  BY <1>1
<1>6. \A l \in Lines :
        \/ Only(w, l, {}) /\ lines[l] = value[l]
        \/ \E i \in 1..Len(w) - 1 :
             /\ w[i] = Write("value", l, lines[l])
             /\ w[i + 1] = Write("crc", l, lines[l])
             /\ Only(w, l, {i, i + 1})
  <2>1. /\ Only(w, "money", {1, 2})
        /\ Only(w, "bank", {3, 4})
        /\ \A l \in Lines \ {"money", "bank"} : Only(w, l, {})
    BY <1>4 DEF Only, Write, Lines
  <2>2. /\ w[1] = Write("value", "money", 0) /\ w[2] = Write("crc", "money", 0)
        /\ w[3] = Write("value", "bank", 0) /\ w[4] = Write("crc", "bank", 0)
    OBVIOUS
  <2>3. /\ lines["money"] = 0
        /\ lines["bank"] = 0
        /\ \A l \in Lines \ {"money", "bank"} : lines[l] = value[l]
    BY <1>1 DEF Lines
  <2> HIDE DEF w, lines
  <2>4. TAKE l \in Lines
  <2>5. CASE l = "money"
    BY <1>4, <2>1, <2>2, <2>3, <2>5
  <2>6. CASE l = "bank"
    BY <1>4, <2>1, <2>2, <2>3, <2>6
  <2>7. CASE l \in Lines \ {"money", "bank"}
    BY <2>1, <2>3, <2>7
  <2>8. QED
    BY <2>5, <2>6, <2>7
<1>7. \A i \in 1..8 : Effect(w, i) = 0
  BY <1>4 DEF Effect, Write
<1>8. Due(w) = 0
  BY <1>7 DEF Due
<1>9. OnLines(lines) = 0
  <2>1. lines["bank"] = 0 /\ lines["money"] = 0
    BY <1>1 DEF Lines
  <2>2. QED
    BY <2>1 DEF OnLines
<1>10. OneWay(w, OnLines(value) - OnLines(lines), OnLines(lines))
  BY <1>1, <1>5, <1>7, <1>8, <1>9, OnLinesIs DEF OneWay
<1>11. Due(w) = OnLines(lines) - OnLines(value) + OnLines(value)
  BY <1>1, <1>5, <1>8, <1>9, OnLinesIs
<1> HIDE DEF w, lines
<1>12. Plan(w, lines, OnLines(value))
  BY <1>4, <1>5, <1>6, <1>10, <1>11 DEF Plan
<1>13. QED
  BY <1>4, <1>12 DEF lines

LEMMA CheckPlanBoth ==
  ASSUME Inv, Ready, NEW n \in Nat, NEW k \in Nat,
         n = value["money"], k = value["bank"], n > 0, k > 0
  PROVE  Plan(Paid("money") \o Paid("bank"),
              [value EXCEPT !["money"] = 0, !["bank"] = 0], 0)
<1> DEFINE a == Write("short", "Money", n)
           b == Write("long", "Money", n)
           c == Write("value", "money", 0)
           d == Write("crc", "money", 0)
           e == Write("short", "Money", k)
           f == Write("long", "Money", k)
           g == Write("value", "bank", 0)
           h == Write("crc", "bank", 0)
           w == <<a, b, c, d, e, f, g, h>>
           lines == [value EXCEPT !["money"] = 0, !["bank"] = 0]
<1>1. value \in [Lines -> Nat]
  BY ReadyIsWhole
<1>2. a \in Plain /\ b \in Plain /\ c \in Plain /\ d \in Plain /\ e \in Plain
        /\ f \in Plain /\ g \in Plain /\ h \in Plain
  BY HandlerWrites DEF Lines, Counters
<1>3. /\ Paid("money") = <<a, b>> \o <<c, d>>
      /\ Paid("bank") = <<e, f>> \o <<g, h>>
  BY DEF Paid, SetAccepted, IncCounter
<1>4. /\ Paid("money") \o Paid("bank") = w
      /\ w \in Seq(Writes) /\ Len(w) = 8 /\ \A i \in 1..Len(w) : w[i] \notin WipeWrites
  <2>1. w = <<a, b, c, d, e, f, g, h>>
    OBVIOUS
  <2> HIDE DEF a, b, c, d, e, f, g, h, w
  <2>2. (<<a, b>> \o <<c, d>>) \o (<<e, f>> \o <<g, h>>) = w
    BY <1>2, <2>1, EightWrites
  <2>3. w \in Seq(Writes) /\ Len(w) = 8 /\ \A i \in 1..Len(w) : w[i] \notin WipeWrites
    BY <1>2, <2>1, EightWrites
  <2>4. QED
    BY <1>3, <2>2, <2>3
<1>5. lines \in [Lines -> Nat]
  BY <1>1
<1>6. \A l \in Lines :
        \/ Only(w, l, {}) /\ lines[l] = value[l]
        \/ \E i \in 1..Len(w) - 1 :
             /\ w[i] = Write("value", l, lines[l])
             /\ w[i + 1] = Write("crc", l, lines[l])
             /\ Only(w, l, {i, i + 1})
  <2>1. /\ Only(w, "money", {3, 4})
        /\ Only(w, "bank", {7, 8})
        /\ \A l \in Lines \ {"money", "bank"} : Only(w, l, {})
    BY <1>4 DEF Only, Write, Lines
  <2>2. /\ w[3] = Write("value", "money", 0) /\ w[4] = Write("crc", "money", 0)
        /\ w[7] = Write("value", "bank", 0) /\ w[8] = Write("crc", "bank", 0)
    OBVIOUS
  <2>3. /\ lines["money"] = 0
        /\ lines["bank"] = 0
        /\ \A l \in Lines \ {"money", "bank"} : lines[l] = value[l]
    BY <1>1 DEF Lines
  <2> HIDE DEF w, lines
  <2>4. TAKE l \in Lines
  <2>5. CASE l = "money"
    BY <1>4, <2>1, <2>2, <2>3, <2>5
  <2>6. CASE l = "bank"
    BY <1>4, <2>1, <2>2, <2>3, <2>6
  <2>7. CASE l \in Lines \ {"money", "bank"}
    BY <2>1, <2>3, <2>7
  <2>8. QED
    BY <2>5, <2>6, <2>7
<1>7. \A i \in 1..8 : Effect(w, i) = IF i = 2 THEN -n ELSE IF i = 6 THEN -k ELSE 0
  BY <1>4 DEF Effect, Write
<1>8. Due(w) = -n - k
  BY <1>7 DEF Due
<1>9. OnLines(lines) = 0 /\ OnLines(value) = n + k
  <2>1. lines["bank"] = 0 /\ lines["money"] = 0
    BY <1>1 DEF Lines
  <2>2. QED
    BY <1>1, <2>1 DEF OnLines
<1>10. OneWay(w, OnLines(value) - OnLines(lines), OnLines(lines))
  BY <1>1, <1>5, <1>7, <1>8, <1>9, OnLinesIs DEF OneWay
<1>11. Due(w) = OnLines(lines) - OnLines(value) + 0
  BY <1>1, <1>5, <1>8, <1>9, OnLinesIs
<1> HIDE DEF w, lines
<1>12. Plan(w, lines, 0)
  BY <1>4, <1>5, <1>6, <1>10, <1>11 DEF Plan
<1>13. QED
  BY <1>4, <1>12 DEF lines

LEMMA CheckPlanOne ==
  ASSUME Inv, Ready, NEW l \in {"money", "bank"}, NEW n \in Nat, n = value[l],
         \A m \in {"money", "bank"} \ {l} : value[m] = 0
  PROVE  Plan(IncCounter("Money", n) \o SetAccepted(l, 0),
              [value EXCEPT !["money"] = 0, !["bank"] = 0], 0)
<1> DEFINE a == Write("short", "Money", n)
           b == Write("long", "Money", n)
           c == Write("value", l, 0)
           d == Write("crc", l, 0)
           w == <<a, b, c, d>>
           lines == [value EXCEPT !["money"] = 0, !["bank"] = 0]
<1>1. value \in [Lines -> Nat]
  BY ReadyIsWhole
<1>2. a \in Plain /\ b \in Plain /\ c \in Plain /\ d \in Plain
  BY HandlerWrites DEF Lines, Counters
<1>3. /\ IncCounter("Money", n) = <<a, b>>
      /\ SetAccepted(l, 0) = <<c, d>>
  BY DEF SetAccepted, IncCounter
<1>4. /\ IncCounter("Money", n) \o SetAccepted(l, 0) = w
      /\ w \in Seq(Writes) /\ Len(w) = 4 /\ \A i \in 1..Len(w) : w[i] \notin WipeWrites
  <2>1. w = <<a, b, c, d>>
    OBVIOUS
  <2> HIDE DEF a, b, c, d, w
  <2>2. <<a, b>> \o <<c, d>> = w
    BY <1>2, <2>1, FourWrites
  <2>3. w \in Seq(Writes) /\ Len(w) = 4 /\ \A i \in 1..Len(w) : w[i] \notin WipeWrites
    BY <1>2, <2>1, FourWrites
  <2>4. QED
    BY <1>3, <2>2, <2>3
<1>5. lines \in [Lines -> Nat]
  BY <1>1
<1>6. \A x \in Lines :
        \/ Only(w, x, {}) /\ lines[x] = value[x]
        \/ \E i \in 1..Len(w) - 1 :
             /\ w[i] = Write("value", x, lines[x])
             /\ w[i + 1] = Write("crc", x, lines[x])
             /\ Only(w, x, {i, i + 1})
  <2>1. /\ Only(w, l, {3, 4})
        /\ \A x \in Lines \ {l} : Only(w, x, {})
    BY <1>4 DEF Only, Write, Lines
  <2>2. /\ w[3] = Write("value", l, 0) /\ w[4] = Write("crc", l, 0)
    OBVIOUS
  <2>3. /\ lines[l] = 0
        /\ \A x \in Lines \ {l} : lines[x] = value[x]
    BY <1>1 DEF Lines
  <2> HIDE DEF w, lines
  <2>4. TAKE x \in Lines
  <2>5. CASE x = l
    BY <1>4, <2>1, <2>2, <2>3, <2>5
  <2>6. CASE x # l
    BY <2>1, <2>3, <2>6
  <2>7. QED
    BY <2>5, <2>6
<1>7. \A i \in 1..8 : Effect(w, i) = IF i = 2 THEN -n ELSE 0
  BY <1>4 DEF Effect, Write
<1>8. Due(w) = -n
  BY <1>7 DEF Due
<1>9. OnLines(lines) = 0 /\ OnLines(value) = n
  <2>1. lines["bank"] = 0 /\ lines["money"] = 0
    BY <1>1 DEF Lines
  <2>2. QED
    BY <1>1, <2>1 DEF OnLines
<1>10. OneWay(w, OnLines(value) - OnLines(lines), OnLines(lines))
  BY <1>1, <1>5, <1>7, <1>8, <1>9, OnLinesIs DEF OneWay
<1>11. Due(w) = OnLines(lines) - OnLines(value) + 0
  BY <1>1, <1>5, <1>8, <1>9, OnLinesIs
<1> HIDE DEF w, lines
<1>12. Plan(w, lines, 0)
  BY <1>4, <1>5, <1>6, <1>10, <1>11 DEF Plan
<1>13. QED
  BY <1>4, <1>12 DEF lines

LEMMA CheckPlan ==
  ASSUME Inv, Ready
  PROVE  Plan(Paid("money") \o Paid("bank"),
              [value EXCEPT !["money"] = 0, !["bank"] = 0], 0)
<1>1. value \in [Lines -> Nat] /\ value["money"] \in Nat /\ value["bank"] \in Nat
  BY ReadyIsWhole DEF Lines
<1>2. ASSUME NEW l \in {"money", "bank"}
      PROVE  IncCounter("Money", value[l]) \o SetAccepted(l, 0) \in Seq(Writes)
  <2>1. /\ Write("short", "Money", value[l]) \in Writes
        /\ Write("long", "Money", value[l]) \in Writes
        /\ Write("value", l, 0) \in Writes /\ Write("crc", l, 0) \in Writes
    BY <1>1, <1>2, WritesAre DEF Lines, Counters
  <2>2. IncCounter("Money", value[l]) \in Seq(Writes) /\ SetAccepted(l, 0) \in Seq(Writes)
    BY <2>1 DEF IncCounter, SetAccepted
  <2>3. QED
    BY <2>2, ConcatProperties
<1>3. CASE value["money"] > 0 /\ value["bank"] > 0
  BY <1>1, <1>3, CheckPlanBoth
<1>4. CASE value["money"] > 0 /\ value["bank"] = 0
  <2>1. Paid("money") \o Paid("bank")
          = IncCounter("Money", value["money"]) \o SetAccepted("money", 0)
    BY <1>1, <1>2, <1>4, ConcatEmptySeq DEF Paid
  <2>2. QED
    BY <1>1, <1>4, <2>1, CheckPlanOne
<1>5. CASE value["money"] = 0 /\ value["bank"] > 0
  <2>1. Paid("money") \o Paid("bank")
          = IncCounter("Money", value["bank"]) \o SetAccepted("bank", 0)
    BY <1>1, <1>2, <1>5, ConcatEmptySeq DEF Paid
  <2>2. QED
    BY <1>1, <1>5, <2>1, CheckPlanOne
<1>6. CASE value["money"] = 0 /\ value["bank"] = 0
  <2> DEFINE lines == [value EXCEPT !["money"] = 0, !["bank"] = 0]
  <2>1. Paid("money") \o Paid("bank") = <<>>
    <3>1. Paid("money") = <<>> /\ Paid("bank") = <<>>
      BY <1>6 DEF Paid
    <3>2. <<>> \in Seq(Writes)
      OBVIOUS
    <3>3. QED
      BY <3>1, <3>2, ConcatEmptySeq
  <2>2. lines = value /\ lines \in [Lines -> Nat]
    BY <1>1, <1>6 DEF Lines
  <2> HIDE DEF lines
  <2>3. <<>> \in Seq(Writes) /\ Len(<<>>) = 0 /\ \A l : Only(<<>>, l, {})
    BY DEF Only
  <2>4. \A i \in 1..8 : Effect(<<>>, i) = 0
    BY DEF Effect
  <2>5. Due(<<>>) = 0
    BY <2>4 DEF Due
  <2>6. OnLines(lines) \in Nat /\ OnLines(lines) = OnLines(value)
    BY <2>2, OnLinesIs
  <2>7. /\ Due(<<>>) = OnLines(lines) - OnLines(value) + 0
        /\ OneWay(<<>>, OnLines(value) - OnLines(lines), OnLines(lines))
    BY <2>4, <2>5, <2>6 DEF OneWay
  <2>8. Plan(<<>>, lines, 0)
    BY <2>2, <2>3, <2>7 DEF Plan
  <2>9. QED
    BY <2>1, <2>8 DEF lines
<1>7. QED
  BY <1>1, <1>3, <1>4, <1>5, <1>6

-----------------------------------------------------------------------------
(* A write of the chip.                                                    *)

LEMMA HeadIsWrite ==
  ASSUME Types, todo # <<>>
  PROVE  /\ Head(todo) = todo[1] /\ todo[1] \in Writes
         /\ Len(todo) \in Nat /\ Len(todo) >= 1
         /\ Tail(todo) \in Seq(Writes) /\ Len(Tail(todo)) = Len(todo) - 1
         /\ \A i \in 1..Len(Tail(todo)) : Tail(todo)[i] = todo[i + 1]
<1>1. todo \in Seq(Writes)
  BY DEF Types
<1>2. QED
  BY <1>1, HeadTailProperties, EmptySeq

LEMMA KindsOfWrites ==
  ASSUME NEW w \in Writes
  PROVE  /\ w.to \in Nat
         /\ w.kind \in {"value", "crc"} <=> w \in LineWrites
         /\ w.kind \in {"short", "long"} <=> w \in CountWrites
         /\ w.kind \in {"wipe", "clear"} <=> w \in WipeWrites
         /\ w.kind \in {"value", "crc", "short", "long", "wipe", "clear"}
         /\ w \in LineWrites => w.of \in Lines
         /\ w \in CountWrites => w.of \in Counters
         /\ w.of \in Lines => w \in LineWrites
BY DEF Writes, LineWrites, CountWrites, WipeWrites, Lines, Counters

LEMMA WriteKeepsTypes ==
  ASSUME Types, WriteArrayFram, long = Torn => todo[1].kind # "long"
  PROVE  Types'
<1> DEFINE w == todo[1]
<1>1. todo # <<>> /\ Performed(w) /\ todo' = Tail(todo)
      /\ UNCHANGED <<boot, was, want, touched, wiped, forgiven, atRisk, handlers, losses>>
  BY HeadIsWrite DEF WriteArrayFram, lastVars
<1>2. w \in Writes /\ Tail(todo) \in Seq(Writes)
  BY <1>1, HeadIsWrite
<1> HIDE DEF w
<1>3. value' \in [Lines -> Nat \cup {Torn}] /\ crc' \in [Lines -> Nat \cup {Torn}]
  BY <1>1, <1>2, KindsOfWrites DEF Performed, Types
<1>4. short' \in [Counters -> Nat \cup {Torn}]
  <2>1. CASE w.kind = "short"
    <3>1. w.of \in Counters /\ w.to \in Nat
      BY <1>2, <2>1, KindsOfWrites
    <3>2. Plus(short[w.of], w.to) \in Nat \cup {Torn}
      BY <3>1 DEF Plus, Types
    <3>3. short' = [short EXCEPT ![w.of] = Plus(short[w.of], w.to)]
      BY <1>1, <2>1 DEF Performed
    <3>4. QED
      BY <3>2, <3>3 DEF Types
  <2>2. CASE w.kind = "clear"
    BY <1>1, <2>2 DEF Performed, Types
  <2>3. CASE w.kind \notin {"short", "clear"}
    BY <1>1, <2>3 DEF Performed, Types
  <2>4. QED
    BY <2>1, <2>2, <2>3
<1>5. long' \in [Counters -> Nat] \cup {Torn}
  <2>1. CASE w.kind = "long"
    <3>1. w.of \in Counters /\ w.to \in Nat /\ long \in [Counters -> Nat]
      BY <1>2, <2>1, KindsOfWrites DEF Types, w
    <3>2. long' = [long EXCEPT ![w.of] = long[w.of] + w.to]
      BY <1>1, <2>1 DEF Performed
    <3>3. long[w.of] + w.to \in Nat
      BY <3>1
    <3>4. QED
      BY <3>1, <3>2, <3>3
  <2>2. CASE w.kind = "wipe"
    BY <1>1, <2>2 DEF Performed, NoCounts
  <2>3. CASE w.kind \notin {"long", "wipe"}
    BY <1>1, <2>3 DEF Performed, Types
  <2>4. QED
    BY <2>1, <2>2, <2>3
<1>6. QED
  BY <1>1, <1>2, <1>3, <1>4, <1>5 DEF Types

(* The money of the long counters rises by what the write adds to it.       *)
LEMMA WriteEarns ==
  ASSUME Types, WriteArrayFram, long \in [Counters -> Nat],
         todo[1] \notin WipeWrites
  PROVE  /\ long' \in [Counters -> Nat]
         /\ Earned' = Earned + Effect(todo, 1)
<1> DEFINE w == todo[1]
<1>1. /\ todo # <<>> /\ Performed(w) /\ forgiven' = forgiven
      /\ w \in Writes /\ Len(todo) \in Nat /\ Len(todo) >= 1
  BY HeadIsWrite DEF WriteArrayFram
<1>2. /\ long["AllCash"] \in Nat /\ long["Bank"] \in Nat /\ long["Money"] \in Nat
      /\ forgiven \in Nat /\ w.to \in Nat
  BY <1>1, KindsOfWrites DEF Counters, Types
<1>3. CASE w.kind # "long"
  <2>1. long' = long
    BY <1>1, <1>3, KindsOfWrites DEF Performed
  <2>2. Effect(todo, 1) = 0
    BY <1>3 DEF Effect
  <2>3. Earned' = Earned /\ Earned \in Int
    BY <1>1, <1>2, <2>1 DEF Earned
  <2>4. QED
    BY <2>1, <2>2, <2>3
<1>4. CASE w.kind = "long"
  <2>1. w.of \in Counters
    BY <1>1, <1>4, KindsOfWrites
  <2>2. long' = [long EXCEPT ![w.of] = long[w.of] + w.to]
    BY <1>1, <1>4 DEF Performed
  <2>3. long' \in [Counters -> Nat]
    <3>1. long[w.of] + w.to \in Nat
      BY <1>2, <2>1
    <3>2. QED
      BY <2>1, <2>2, <3>1
  <2>4. Effect(todo, 1) = IF w.of \in {"AllCash", "Bank"} THEN w.to
                           ELSE IF w.of = "Money" THEN -w.to ELSE 0
    BY <1>1, <1>4 DEF Effect
  <2>5. CASE w.of = "AllCash"
    <3>1. /\ long'["AllCash"] = long["AllCash"] + w.to
          /\ long'["Bank"] = long["Bank"] /\ long'["Money"] = long["Money"]
      BY <2>2, <2>5 DEF Counters
    <3>2. Effect(todo, 1) = w.to
      BY <2>4, <2>5
    <3>3. Earned' = (long["AllCash"] + w.to) + long["Bank"] - long["Money"] - forgiven
      BY <1>1, <3>1 DEF Earned
    <3>4. (long["AllCash"] + w.to) + long["Bank"] - long["Money"] - forgiven
            = Earned + w.to
      BY <1>2 DEF Earned
    <3>5. Earned' = Earned + Effect(todo, 1)
      BY <1>2, <3>2, <3>3, <3>4 DEF Earned
    <3>6. QED
      BY <2>3, <3>5
  <2>6. CASE w.of = "Bank"
    <3>1. /\ long'["Bank"] = long["Bank"] + w.to
          /\ long'["AllCash"] = long["AllCash"] /\ long'["Money"] = long["Money"]
      BY <2>2, <2>6 DEF Counters
    <3>2. Effect(todo, 1) = w.to
      BY <2>4, <2>6
    <3>3. Earned' = long["AllCash"] + (long["Bank"] + w.to) - long["Money"] - forgiven
      BY <1>1, <3>1 DEF Earned
    <3>4. long["AllCash"] + (long["Bank"] + w.to) - long["Money"] - forgiven
            = Earned + w.to
      BY <1>2 DEF Earned
    <3>5. Earned' = Earned + Effect(todo, 1)
      BY <1>2, <3>2, <3>3, <3>4 DEF Earned
    <3>6. QED
      BY <2>3, <3>5
  <2>7. CASE w.of = "Money"
    <3>1. /\ long'["Money"] = long["Money"] + w.to
          /\ long'["AllCash"] = long["AllCash"] /\ long'["Bank"] = long["Bank"]
      BY <2>2, <2>7 DEF Counters
    <3>2. Effect(todo, 1) = -w.to
      BY <2>4, <2>7
    <3>3. Earned' = long["AllCash"] + long["Bank"] - (long["Money"] + w.to) - forgiven
      BY <1>1, <3>1 DEF Earned
    <3>4. long["AllCash"] + long["Bank"] - (long["Money"] + w.to) - forgiven
            = Earned + -w.to
      BY <1>2 DEF Earned
    <3>5. QED
      BY <2>3, <3>2, <3>3, <3>4
  <2>8. CASE w.of \notin {"AllCash", "Bank", "Money"}
    <3>1. /\ long'["AllCash"] = long["AllCash"] /\ long'["Bank"] = long["Bank"]
          /\ long'["Money"] = long["Money"]
      BY <2>2, <2>8 DEF Counters
    <3>2. Effect(todo, 1) = 0
      BY <2>4, <2>8
    <3>3. Earned' = long["AllCash"] + long["Bank"] - long["Money"] - forgiven
      BY <1>1, <3>1 DEF Earned
    <3>4. long["AllCash"] + long["Bank"] - long["Money"] - forgiven
            = Earned + 0
      BY <1>2 DEF Earned
    <3>5. Earned' = Earned + Effect(todo, 1)
      BY <1>2, <3>2, <3>3, <3>4 DEF Earned
    <3>6. QED
      BY <2>3, <3>5
  <2>9. QED
    BY <2>5, <2>6, <2>7, <2>8
<1>5. QED
  BY <1>3, <1>4

(* Each line goes from unwritten to half written to written.               *)
LEMMA WriteMovesLine ==
  ASSUME Types, Hand, WriteArrayFram, NEW l \in Lines
  PROVE  (IF l \in touched THEN Unwritten(l) \/ Half(l) \/ Written(l)
          ELSE want[l] = was[l] /\ Written(l))'
<1> DEFINE w == todo[1]
<1>1. /\ todo # <<>> /\ Performed(w) /\ todo' = Tail(todo)
      /\ was' = was /\ want' = want /\ touched' = touched
      /\ w \in Writes /\ Len(todo) \in Nat /\ Len(todo) >= 1
      /\ Len(todo') = Len(todo) - 1
      /\ \A i \in 1..Len(todo') : todo'[i] = todo[i + 1]
  BY HeadIsWrite DEF WriteArrayFram, lastVars
<1>2. CASE w.of # l
  <2>1. value'[l] = value[l] /\ crc'[l] = crc[l]
    BY <1>1, <1>2 DEF Performed, Types
  <2>2. ASSUME Written(l) PROVE Written(l)'
    <3>1. Only(todo', l, {})
      BY <1>1, <2>2 DEF Written, Only
    <3>2. QED
      BY <1>1, <2>1, <2>2, <3>1 DEF Written, Only
  <2>3. ~Half(l)
    BY <1>2 DEF Half, Write
  <2>4. ASSUME Unwritten(l) PROVE Unwritten(l)'
    <3>1. PICK i \in 1..Len(todo) - 1 :
            /\ todo[i] = Write("value", l, want[l])
            /\ todo[i + 1] = Write("crc", l, want[l])
            /\ Only(todo, l, {i, i + 1})
      BY <2>4 DEF Unwritten
    <3>2. i # 1
      BY <1>2, <3>1 DEF Write
    <3>3. /\ i - 1 \in 1..Len(todo') - 1
          /\ todo'[i - 1] = Write("value", l, want[l])
          /\ todo'[(i - 1) + 1] = Write("crc", l, want[l])
      <4>1. i - 1 \in 1..Len(todo') - 1 /\ i \in 1..Len(todo') /\ (i - 1) + 1 = i
        BY <1>1, <3>1, <3>2
      <4>2. todo'[i - 1] = todo[i] /\ todo'[i] = todo[i + 1]
        BY <1>1, <4>1
      <4>3. QED
        BY <3>1, <4>1, <4>2
    <3>4. Only(todo', l, {i - 1, (i - 1) + 1})
      BY <1>1, <3>1 DEF Only
    <3>5. Only(todo, l, {i - 1, (i - 1) + 1})'
      BY <3>4 DEF Only
    <3>6. QED
      BY <1>1, <2>1, <2>4, <3>3, <3>5 DEF Unwritten
  <2>5. QED
    BY <1>1, <2>2, <2>3, <2>4 DEF Hand
<1>3. CASE w.of = l
  <2>1. ~Written(l) /\ l \in touched
    <3>1. ~Written(l)
      BY <1>1, <1>3 DEF Written, Only
    <3>2. QED
      BY <3>1 DEF Hand
  <2>2. CASE Unwritten(l)
    <3>1. PICK i \in 1..Len(todo) - 1 :
            /\ todo[i] = Write("value", l, want[l])
            /\ todo[i + 1] = Write("crc", l, want[l])
            /\ Only(todo, l, {i, i + 1})
      BY <2>2 DEF Unwritten
    <3>2. i = 1
      BY <1>1, <1>3, <3>1 DEF Only
    <3>3. w.kind = "value" /\ w.to = want[l]
      BY <3>1, <3>2 DEF Write
    <3>4. value'[l] = want[l] /\ crc'[l] = was[l]
      BY <1>1, <1>3, <2>2, <3>3 DEF Performed, Types, Unwritten
    <3>5. Len(todo') >= 1 /\ todo'[1] = Write("crc", l, want[l]) /\ todo' # <<>>
      <4>1. Len(todo) >= 2 /\ todo[2] = Write("crc", l, want[l])
        BY <1>1, <3>1, <3>2
      <4>2. Len(todo') >= 1 /\ todo'[1] = todo[2]
        BY <1>1, <4>1
      <4>3. QED
        BY <4>1, <4>2, Len(<<>>) = 0
    <3>6. Only(todo, l, {1})'
      BY <1>1, <3>1, <3>2 DEF Only
    <3>7. Half(l)'
      BY <1>1, <3>4, <3>5, <3>6 DEF Half
    <3>8. QED
      BY <1>1, <2>1, <3>7
  <2>3. CASE Half(l)
    <3>1. w.kind = "crc" /\ w.to = want[l]
      BY <2>3 DEF Half, Write
    <3>2. value'[l] = want[l] /\ crc'[l] = want[l]
      BY <1>1, <1>3, <2>3, <3>1 DEF Performed, Types, Half
    <3>3. Only(todo, l, {})'
      BY <1>1, <2>3 DEF Half, Only
    <3>4. Written(l)'
      BY <1>1, <3>2, <3>3 DEF Written
    <3>5. QED
      BY <1>1, <2>1, <3>4
  <2>4. QED
    BY <2>1, <2>2, <2>3 DEF Hand
<1>4. QED
  BY <1>2, <1>3

LEMMA WriteKeepsHand ==
  ASSUME Types, Hand, WriteArrayFram
  PROVE  Types' /\ Hand'
<1>1. /\ todo # <<>> /\ todo' = Tail(todo)
      /\ UNCHANGED <<boot, was, want, touched, wiped, forgiven, atRisk>>
      /\ todo[1] \in Writes /\ Len(todo) \in Nat /\ Len(todo) >= 1
      /\ Len(todo') = Len(todo) - 1
      /\ \A i \in 1..Len(todo') : todo'[i] = todo[i + 1]
      /\ todo[1] \notin WipeWrites /\ long # Torn
  BY HeadIsWrite, BooksAssumption DEF WriteArrayFram, lastVars, Hand
<1>2. Types'
  BY <1>1, WriteKeepsTypes
<1>3. /\ (boot = "up")' /\ (Len(todo) <= 8)'
      /\ (\A i \in 1..Len(todo) : todo[i] \notin WipeWrites)'
  BY <1>1 DEF Hand
<1>4. (long \in [Counters -> Nat])' /\ Earned' = Earned + Effect(todo, 1)
  BY <1>1, WriteEarns DEF Hand
<1>5. ASSUME ~wiped'
      PROVE  /\ Earned' + Due(todo)' - OnLines(want)' \in -atRisk'..atRisk'
             /\ OneWay(todo, Stake - OnLines(want), OnLines(want))'
  <2>1. /\ \A i \in 1..8 : Effect(todo, i) \in Int
        /\ \A i \in 1..7 : Effect(Tail(todo), i) = Effect(todo, i + 1)
        /\ Effect(Tail(todo), 8) = 0
        /\ Due(Tail(todo)) = Due(todo) - Effect(todo, 1)
    BY <1>1, DueOfTail DEF Hand
  <2>2. Earned \in Int /\ OnLines(want) \in Nat /\ Stake \in Nat
    BY EarnedIsInt, StakeIsNat DEF Hand
  <2>3. Due(todo) \in Int
    BY <1>1, DueOfTail DEF Hand
  <2>4. Due(todo)' = Due(todo) - Effect(todo, 1)
    <3>1. Due(todo)' = Due(Tail(todo))
      BY <1>1 DEF Due, Effect
    <3>2. QED
      BY <2>1, <3>1
  <2>5. OnLines(want)' = OnLines(want) /\ Stake' = Stake /\ atRisk' = atRisk
    BY <1>1 DEF OnLines, Stake, AtStake
  <2>6. Earned' + Due(todo)' = Earned + Due(todo)
    <3>1. Effect(todo, 1) \in Int
      BY <2>1
    <3>2. QED
      BY <1>4, <2>2, <2>3, <2>4, <3>1
  <2>7. Earned' + Due(todo)' - OnLines(want)' \in -atRisk'..atRisk'
    <3>1. Earned + Due(todo) - OnLines(want) \in -atRisk..atRisk
      BY <1>1, <1>5 DEF Hand
    <3>2. /\ Earned' \in Int /\ Due(todo)' \in Int
      BY <1>4, <2>1, <2>2, <2>3, <2>4
    <3>3. Earned' + Due(todo)' - OnLines(want) = Earned + Due(todo) - OnLines(want)
      BY <2>2, <2>3, <2>6, <3>2
    <3>4. QED
      BY <2>5, <3>1, <3>3
  <2>8. \A i \in 1..8 : Effect(Tail(todo), i) = IF i = 8 THEN 0 ELSE Effect(todo, i + 1)
    BY <2>1
  <2>9. OneWay(Tail(todo), Stake - OnLines(want), OnLines(want))
    <3>1. CASE (\A i \in 1..8 : Effect(todo, i) >= 0) /\ Due(todo) <= OnLines(want)
      <4>1. \A i \in 1..8 : Effect(Tail(todo), i) >= 0
        BY <2>1, <2>8, <3>1
      <4>2. Effect(todo, 1) \in Int /\ Effect(todo, 1) >= 0
        BY <2>1, <3>1
      <4>3. Due(Tail(todo)) <= OnLines(want)
        BY <2>1, <2>2, <2>3, <3>1, <4>2
      <4>4. QED
        BY <4>1, <4>3 DEF OneWay
    <3>2. CASE (\A i \in 1..8 : Effect(todo, i) <= 0) /\ -Due(todo) <= Stake - OnLines(want)
      <4>1. \A i \in 1..8 : Effect(Tail(todo), i) <= 0
        BY <2>1, <2>8, <3>2
      <4>2. Effect(todo, 1) \in Int /\ Effect(todo, 1) <= 0
        BY <2>1, <3>2
      <4>3. -Due(Tail(todo)) <= Stake - OnLines(want)
        BY <2>1, <2>2, <2>3, <3>2, <4>2
      <4>4. QED
        BY <4>1, <4>3 DEF OneWay
    <3>3. QED
      BY <1>1, <1>5, <3>1, <3>2 DEF Hand, OneWay
  <2>10. OneWay(todo, Stake - OnLines(want), OnLines(want))'
    <3>1. OneWay(todo, Stake - OnLines(want), OnLines(want))'
            <=> OneWay(Tail(todo), Stake - OnLines(want), OnLines(want))
      BY <1>1, <2>5 DEF OneWay, Due, Effect
    <3>2. QED
      BY <2>9, <3>1
  <2>11. QED
    BY <2>7, <2>10
<1>6. Hand'
  BY <1>3, <1>4, <1>5, WriteMovesLine DEF Hand
<1>7. QED
  BY <1>2, <1>6

(* The repair goes on: the counters are wiped, or a line is set to nothing. *)
LEMMA WriteKeepsRepair ==
  ASSUME Types, Repair, WriteArrayFram
  PROVE  Types' /\ Repair'
<1> DEFINE w == todo[1]
<1>1. /\ todo # <<>> /\ Performed(w) /\ todo' = Tail(todo)
      /\ UNCHANGED <<boot, was, want, touched, wiped, forgiven, atRisk>>
      /\ w \in Writes /\ Len(todo) \in Nat /\ Len(todo) >= 1
      /\ Len(todo') = Len(todo) - 1
      /\ \A i \in 1..Len(todo') : todo'[i] = todo[i + 1]
      /\ Head(todo) = w
  BY HeadIsWrite DEF WriteArrayFram, lastVars
<1>2. \/ boot = "money" /\ wiped /\ \A i \in 1..Len(todo) : todo[i] \in WipeWrites
      \/ \E l \in Lines : Repairs(l)
  BY <1>1 DEF Repair
<1>3. CASE boot = "money" /\ wiped /\ \A i \in 1..Len(todo) : todo[i] \in WipeWrites
  <2>1. w \in WipeWrites
    BY <1>1, <1>3
  <2>2. w.kind \in {"wipe", "clear"}
    BY <1>1, <2>1, KindsOfWrites
  <2>3. value' = value /\ crc' = crc
    BY <1>1, <2>2 DEF Performed
  <2>4. long' \in [Counters -> Nat]
    <3>1. CASE w.kind = "wipe"
      BY <1>1, <3>1 DEF Performed, NoCounts
    <3>2. CASE w.kind = "clear"
      BY <1>1, <1>3, <3>2 DEF Performed, Repair
    <3>3. QED
      BY <2>2, <3>1, <3>2
  <2>5. Types'
    BY <2>2, WriteKeepsTypes
  <2>6. \A l \in Lines : Loose(l)'
    BY <1>1, <2>3 DEF Repair, Loose
  <2>7. \A i \in 1..Len(todo') : todo'[i] \in WipeWrites
    BY <1>1, <1>3
  <2>8. boot' = "money" /\ wiped' /\ Ahead["money"] = Lines
    BY <1>1, <1>3 DEF Ahead
  <2>9. Repair'
    BY <2>4, <2>6, <2>7, <2>8 DEF Repair
  <2>10. QED
    BY <2>5, <2>9
<1>4. CASE \E l \in Lines : Repairs(l)
  <2>1. PICK l \in Lines : Repairs(l)
    BY <1>4
  <2>2. w.kind \in {"value", "crc"} /\ w.of = l /\ w.to = 0
    BY <2>1 DEF Repairs, SetAccepted, Write
  <2>3. Types'
    BY <2>2, WriteKeepsTypes
  <2>4. long' = long /\ short' = short
    BY <1>1, <2>2 DEF Performed
  <2>5. /\ value'[l] = IF w.kind = "value" THEN 0 ELSE value[l]
        /\ crc'[l] = IF w.kind = "crc" THEN 0 ELSE crc[l]
        /\ \A x \in Lines \ {l} : value'[x] = value[x] /\ crc'[x] = crc[x]
    BY <1>1, <2>2 DEF Performed, Types
  <2>6. \A x \in Lines : Loose(x)'
    <3>1. l \in touched
      BY <2>1 DEF Repairs
    <3>2. QED
      BY <1>1, <2>5, <3>1 DEF Repair, Loose
  <2>7. \A x \in Lines \ {l} : ~Repairs(x)
    BY <2>1 DEF Repairs, After, Lines
  <2>8. boot # "long"
    BY <2>1 DEF Repairs, After, Lines
  <2>9. ~(todo # <<>> /\ Head(todo).kind = "wipe")
    BY <1>1, <2>2
  <2>10. long' \in [Counters -> Nat]
    BY <2>4, <2>8, <2>9 DEF Repair
  <2>11. ~wiped' /\ long' # Torn => Earned' \in -(atRisk' - Stake')..atRisk'
    BY <1>1, <2>4 DEF Repair, Earned, Stake, AtStake
  <2>12. \A x \in (Lines \ Ahead[boot]) \ {l} : Whole(x)'
    <3>1. \A x \in (Lines \ Ahead[boot]) \ {l} : Whole(x)
      BY <2>7 DEF Repair
    <3>2. QED
      BY <1>1, <2>5, <3>1 DEF Whole, Allowed
  <2>13. CASE todo = SetAccepted(l, 0)
    <3>1. /\ value'[l] = 0
          /\ Len(todo) = 2 /\ todo[2] = Write("crc", l, 0)
      BY <2>5, <2>13 DEF SetAccepted, Write
    <3>2. todo' = <<Write("crc", l, 0)>>
      BY <1>1, <2>13 DEF SetAccepted
    <3>3. Repairs(l)'
      BY <1>1, <2>1, <3>1, <3>2 DEF Repairs
    <3>4. QED
      BY <1>1, <2>3, <2>6, <2>10, <2>11, <2>12, <3>3 DEF Repair
  <2>14. CASE todo = <<Write("crc", l, 0)>> /\ value[l] = 0
    <3>1. todo' = <<>>
      BY <1>1, <2>14
    <3>2. Whole(l)'
      <4>1. value'[l] = 0 /\ crc'[l] = 0
        BY <2>5, <2>14 DEF Write
      <4>2. l \in touched'
        BY <1>1, <2>1 DEF Repairs
      <4>3. QED
        BY <4>1, <4>2 DEF Whole, Allowed
    <3>3. QED
      BY <1>1, <2>3, <2>6, <2>10, <2>11, <2>12, <3>1, <3>2 DEF Repair
  <2>15. QED
    BY <2>1, <2>13, <2>14 DEF Repairs
<1>5. QED
  BY <1>2, <1>3, <1>4

-----------------------------------------------------------------------------
(* Power is lost, and comes back.                                          *)

LEMMA PowerLossKeepsTypes ==
  ASSUME Types, PowerLoss
  PROVE  Types'
<1>1. /\ todo' = <<>> /\ boot' = "long" /\ losses' \in Nat
      /\ UNCHANGED <<was, want, touched, wiped, forgiven, handlers>>
  BY DEF PowerLoss, Types, lastVars
<1>2. /\ value' \in [Lines -> Nat \cup {Torn}] /\ crc' \in [Lines -> Nat \cup {Torn}]
      /\ short' \in [Counters -> Nat \cup {Torn}]
      /\ long' \in [Counters -> Nat] \cup {Torn}
  <2>1. CASE UNCHANGED framVars
    BY <2>1 DEF framVars, Types
  <2>2. CASE todo # <<>> /\ CutShort(Head(todo))
    BY <2>2 DEF CutShort, Types
  <2>3. QED
    BY <2>1, <2>2 DEF PowerLoss
<1>3. atRisk' \in Nat
  <2>1. AtStake("money") \in Nat /\ AtStake("bank") \in Nat
    BY DEF AtStake, Larger, Lines, Types
  <2>2. QED
    BY <2>1 DEF PowerLoss, Types
<1>4. todo' \in Seq(Writes) /\ boot' \in Stages
  BY <1>1 DEF Stages
<1>5. QED
  BY <1>1, <1>2, <1>3, <1>4 DEF Types

(* What PowerLoss makes of the memory, whatever is being written.          *)
LEMMA PowerLossIs ==
  ASSUME Types, PowerLoss
  PROVE  /\ todo' = <<>> /\ boot' = "long"
         /\ UNCHANGED <<was, want, touched, wiped, forgiven>>
         /\ todo = <<>> => UNCHANGED <<value, crc, long, atRisk>>
         /\ \A l \in Lines : value'[l] \in {value[l], Torn}
         /\ \A l \in Lines : (todo # <<>> => todo[1].of # l)
                               => value'[l] = value[l] /\ crc'[l] = crc[l]
         /\ long' \in {long, Torn}
         /\ Stake' = Stake
         /\ long' # Torn => Earned' = Earned
<1>1. /\ todo' = <<>> /\ boot' = "long"
      /\ UNCHANGED <<was, want, touched, wiped, forgiven>>
      /\ todo = <<>> => UNCHANGED <<value, crc, long, atRisk>>
  BY DEF PowerLoss, lastVars, framVars
<1>2. /\ \A l \in Lines : value'[l] \in {value[l], Torn}
      /\ \A l \in Lines : (todo # <<>> => todo[1].of # l)
                            => value'[l] = value[l] /\ crc'[l] = crc[l]
      /\ long' \in {long, Torn}
  <2>1. CASE UNCHANGED framVars
    BY <2>1 DEF framVars
  <2>2. CASE todo # <<>> /\ CutShort(Head(todo))
    BY <2>2, HeadIsWrite DEF CutShort, Types
  <2>3. QED
    BY <2>1, <2>2 DEF PowerLoss
<1>3. Stake' = Stake
  BY <1>1 DEF Stake, AtStake
<1>4. long' # Torn => Earned' = Earned
  BY <1>1, <1>2 DEF Earned
<1>5. QED
  BY <1>1, <1>2, <1>3, <1>4

LEMMA DueOfSome ==
  ASSUME Types, todo # <<>>, Len(todo) <= 8
  PROVE  /\ (\A i \in 1..8 : Effect(todo, i) >= 0) => Due(todo) >= 0
         /\ (\A i \in 1..8 : Effect(todo, i) <= 0) => Due(todo) <= 0
<1>1. PICK a \in Int, b \in Int, c \in Int, d \in Int :
      /\ a = Effect(todo, 1) /\ b = Effect(todo, 2)
      /\ c = Effect(todo, 3) /\ d = Effect(todo, 4)
  BY DueOfTail
<1>2. PICK e \in Int, f \in Int, g \in Int, h \in Int :
      /\ e = Effect(todo, 5) /\ f = Effect(todo, 6)
      /\ g = Effect(todo, 7) /\ h = Effect(todo, 8)
  BY DueOfTail
<1>3. Due(todo) = a + (b + (c + (d + (e + (f + (g + h))))))
  BY <1>1, <1>2 DEF Due
<1>4. /\ (\A i \in 1..8 : Effect(todo, i) >= 0)
           => a >= 0 /\ b >= 0 /\ c >= 0 /\ d >= 0 /\ e >= 0 /\ f >= 0 /\ g >= 0 /\ h >= 0
      /\ (\A i \in 1..8 : Effect(todo, i) <= 0)
           => a <= 0 /\ b <= 0 /\ c <= 0 /\ d <= 0 /\ e <= 0 /\ f <= 0 /\ g <= 0 /\ h <= 0
  BY <1>1, <1>2
<1>5. QED
  BY <1>3, <1>4

LEMMA PowerLossInHand ==
  ASSUME Types, Hand, todo # <<>>, PowerLoss
  PROVE  Repair'
<1>1. atRisk' = atRisk + Stake
  <2>1. AtStake("money") \in Nat /\ AtStake("bank") \in Nat /\ atRisk \in Nat
    BY DEF AtStake, Larger, Lines, Types
  <2>2. atRisk' = atRisk + AtStake("money") + AtStake("bank")
    BY DEF PowerLoss, Hand
  <2>3. QED
    BY <2>1, <2>2 DEF Stake
<1>2. \A l \in Lines : Loose(l)'
  <2>1. TAKE l \in Lines
  <2>2. CASE l \in touched
    <3>1. value[l] \in {was[l], want[l]}
      BY <2>2 DEF Hand, Unwritten, Half, Written
    <3>2. QED
      BY <2>2, <3>1, PowerLossIs DEF Loose
  <2>3. CASE l \notin touched
    <3>1. value[l] = was[l] /\ crc[l] = was[l] /\ Only(todo, l, {})
      BY <2>3 DEF Hand, Written
    <3>2. todo[1].of # l
      BY <3>1, HeadIsWrite DEF Only
    <3>3. QED
      BY <2>3, <3>1, <3>2, PowerLossIs DEF Loose
  <2>4. QED
    BY <2>2, <2>3
<1>3. ~wiped' /\ long' # Torn => Earned' \in -(atRisk' - Stake')..atRisk'
  <2> SUFFICES ASSUME ~wiped', long' # Torn
               PROVE  Earned' \in -(atRisk' - Stake')..atRisk'
    OBVIOUS
  <2>1. Earned' = Earned /\ Stake' = Stake /\ wiped' = wiped
    BY PowerLossIs
  <2>2. /\ Earned \in Int /\ Stake \in Nat /\ OnLines(want) \in Nat
        /\ OnLines(want) <= Stake /\ atRisk \in Nat /\ Due(todo) \in Int
    BY EarnedIsInt, StakeIsNat, DueOfTail DEF Hand, Types
  <2>3. /\ Earned + Due(todo) - OnLines(want) \in -atRisk..atRisk
        /\ OneWay(todo, Stake - OnLines(want), OnLines(want))
    BY <2>1 DEF Hand
  <2>4. Due(todo) <= OnLines(want) /\ -Due(todo) <= Stake - OnLines(want)
    <3>1. CASE (\A i \in 1..8 : Effect(todo, i) >= 0) /\ Due(todo) <= OnLines(want)
      <4>1. Due(todo) >= 0
        BY <3>1, DueOfSome DEF Hand
      <4>2. QED
        BY <2>2, <3>1, <4>1
    <3>2. CASE (\A i \in 1..8 : Effect(todo, i) <= 0) /\ -Due(todo) <= Stake - OnLines(want)
      <4>1. Due(todo) <= 0
        BY <3>2, DueOfSome DEF Hand
      <4>2. QED
        BY <2>2, <3>2, <4>1
    <3>3. QED
      BY <2>3, <3>1, <3>2 DEF OneWay
  <2>5. Earned \in -((atRisk + Stake) - Stake)..(atRisk + Stake)
    BY <2>2, <2>3, <2>4
  <2>6. QED
    BY <1>1, <2>1, <2>5
<1>4. QED
  BY <1>2, <1>3, PowerLossIs DEF Repair, Ahead

LEMMA WiderRange ==
  ASSUME NEW e \in Int, NEW m \in Nat, NEW n \in Nat, NEW s \in Nat,
         e \in -(m - s)..m, m <= n
  PROVE  e \in -(n - s)..n
OBVIOUS

LEMMA PowerLossInRepair ==
  ASSUME Types, Repair, PowerLoss
  PROVE  Repair'
<1>1. \A l \in Lines : Loose(l)'
  <2>1. TAKE l \in Lines
  <2>2. CASE l \in touched
    BY <2>2, PowerLossIs DEF Repair, Loose
  <2>3. CASE l \notin touched
    <3>1. todo # <<>> => todo[1].of # l
      <4>1. SUFFICES ASSUME todo # <<>> PROVE todo[1].of # l
        OBVIOUS
      <4>2. CASE \A i \in 1..Len(todo) : todo[i] \in WipeWrites
        <5>1. todo[1] \in WipeWrites
          BY <4>1, <4>2, HeadIsWrite
        <5>2. QED
          BY <5>1 DEF WipeWrites, Lines
      <4>3. CASE \E x \in Lines : Repairs(x)
        BY <2>3, <4>3 DEF Repairs, SetAccepted, Write
      <4>4. QED
        BY <4>1, <4>2, <4>3 DEF Repair
    <3>2. QED
      BY <2>3, <3>1, PowerLossIs DEF Repair, Loose
  <2>4. QED
    BY <2>2, <2>3
<1>2. ~wiped' /\ long' # Torn => Earned' \in -(atRisk' - Stake')..atRisk'
  <2> SUFFICES ASSUME ~wiped', long' # Torn
               PROVE  Earned' \in -(atRisk' - Stake')..atRisk'
    OBVIOUS
  <2>1. Earned' = Earned /\ Stake' = Stake /\ wiped' = wiped /\ long = long'
    BY PowerLossIs
  <2>2. long \in [Counters -> Nat] /\ Earned \in Int
    BY <2>1, EarnedIsInt DEF Types
  <2>3. Earned \in -(atRisk - Stake)..atRisk
    BY <2>1 DEF Repair
  <2>4. /\ AtStake("money") \in Nat /\ AtStake("bank") \in Nat /\ atRisk \in Nat
        /\ Stake \in Nat
    BY DEF AtStake, Larger, Lines, Types, Stake
  <2>5. atRisk' \in Nat /\ atRisk <= atRisk'
    BY <2>4 DEF PowerLoss
  <2>6. Earned \in -(atRisk' - Stake)..atRisk'
    BY <2>2, <2>3, <2>4, <2>5, WiderRange
  <2>7. QED
    BY <2>1, <2>6
<1>3. QED
  BY <1>1, <1>2, PowerLossIs DEF Repair, Ahead

LEMMA PowerLossKeepsInv == Inv /\ PowerLoss => Inv'
<1> SUFFICES ASSUME Inv, PowerLoss PROVE Inv'
  OBVIOUS
<1>1. Types /\ Types'
  BY PowerLossKeepsTypes DEF Inv
<1>2. ASSUME Idle PROVE Idle'
  <2>1. UNCHANGED <<value, crc, long, atRisk, was, want, touched, wiped, forgiven>> /\ todo' = <<>>
    BY <1>1, <1>2, PowerLossIs DEF Idle
  <2>2. QED
    BY <1>2, <2>1 DEF Idle, Whole, Allowed, Earned
<1>3. CASE Hand /\ todo = <<>>
  <2>1. Ready
    BY <1>3 DEF Hand, Ready
  <2>2. QED
    BY <1>1, <1>2, <2>1, ReadyIsIdle DEF Inv
<1>4. CASE Hand /\ todo # <<>>
  BY <1>1, <1>4, PowerLossInHand DEF Inv
<1>5. CASE Repair
  BY <1>1, <1>5, PowerLossInRepair DEF Inv
<1>6. QED
  BY <1>1, <1>2, <1>3, <1>4, <1>5 DEF Inv

LEMMA CheckKeepsInv == Inv /\ CheckLongCounters => Inv'
<1> SUFFICES ASSUME Inv, CheckLongCounters PROVE Inv'
  OBVIOUS
<1>1. /\ boot = "long" /\ todo = <<>> /\ boot' = "money"
      /\ todo' = IF long = Torn THEN WipeCounters ELSE <<>>
      /\ wiped' = (wiped \/ long = Torn)
      /\ UNCHANGED <<value, crc, short, long, was, want, touched, forgiven, atRisk,
                     handlers, losses>>
  BY DEF CheckLongCounters, After, framVars, lastVars
<1>2. /\ WipeCounters \in Seq(WipeWrites) /\ WipeCounters # <<>>
      /\ Head(WipeCounters).kind = "wipe"
      /\ \A i \in 1..Len(WipeCounters) : WipeCounters[i] \in WipeWrites
  BY DEF WipeCounters, WipeWrites, Write
<1>3. Types'
  <2>1. todo' \in Seq(Writes)
    BY <1>1, <1>2 DEF Writes
  <2>2. wiped' \in BOOLEAN /\ boot' \in Stages
    BY <1>1 DEF Stages, Inv, Types
  <2>3. QED
    BY <1>1, <2>1, <2>2 DEF Inv, Types
<1>4. CASE Idle
  <2>1. long # Torn
    BY <1>4, BooksAssumption DEF Idle
  <2>2. Idle'
    BY <1>1, <1>4, <2>1, Zenon DEF Idle, Whole, Allowed, Earned
  <2>3. QED
    BY <1>3, <2>2 DEF Inv
<1>5. CASE Repair
  <2>1. \A l \in Lines : Loose(l)'
    BY <1>1, <1>5 DEF Repair, Loose
  <2>2. ~wiped' /\ long' # Torn => Earned' \in -(atRisk' - Stake')..atRisk'
    BY <1>1, <1>5 DEF Repair, Earned, Stake, AtStake
  <2>3. Lines \ Ahead[boot'] = {}
    BY <1>1 DEF Ahead
  <2>4. CASE long = Torn
    <3>1. wiped' /\ todo' = WipeCounters
      BY <1>1, <2>4 DEF Inv, Types
    <3>2. Repair'
      BY <1>1, <1>2, <2>1, <2>2, <2>3, <3>1 DEF Repair
    <3>3. QED
      BY <1>3, <3>2 DEF Inv
  <2>5. CASE long # Torn
    <3>1. long \in [Counters -> Nat] /\ todo' = <<>>
      BY <1>1, <2>5 DEF Inv, Types
    <3>2. Repair'
      BY <1>1, <2>1, <2>2, <2>3, <3>1 DEF Repair
    <3>3. QED
      BY <1>3, <3>2 DEF Inv
  <2>6. QED
    BY <2>4, <2>5
<1>6. QED
  BY <1>1, <1>4, <1>5 DEF Inv, Hand

LEMMA LoadKeepsInv == Inv /\ LoadAcceptedMoney => Inv'
<1> SUFFICES ASSUME Inv, LoadAcceptedMoney PROVE Inv'
  OBVIOUS
<1>1. /\ boot \in Lines /\ todo = <<>> /\ boot' = After[boot]
      /\ todo' = IF Sealed(boot) THEN <<>> ELSE SetAccepted(boot, 0)
      /\ UNCHANGED <<value, crc, short, long, was, want, touched, wiped, forgiven, atRisk,
                     handlers, losses>>
  BY DEF LoadAcceptedMoney, framVars, lastVars
<1>2. SetAccepted(boot, 0) \in Seq(Writes)
  <2>1. Write("value", boot, 0) \in Writes /\ Write("crc", boot, 0) \in Writes
    BY <1>1, WritesAre
  <2>2. QED
    BY <2>1 DEF SetAccepted
<1>3. Types'
  <2>1. todo' \in Seq(Writes) /\ boot' \in Stages
    BY <1>1, <1>2 DEF After, Stages, Lines
  <2>2. QED
    BY <1>1, <2>1 DEF Inv, Types
<1>4. CASE Idle
  <2>1. Sealed(boot)
    BY <1>1, <1>4, BooksAssumption DEF Idle, Whole, Sealed
  <2>2. Idle'
    BY <1>1, <1>4, <2>1, Zenon DEF Idle, Whole, Allowed, Earned
  <2>3. QED
    BY <1>3, <2>2 DEF Inv
<1>5. CASE Repair
  <2>1. /\ \A l \in Lines : Loose(l)'
        /\ long' \in [Counters -> Nat]
    BY <1>1, <1>5 DEF Repair, Loose, Lines
  <2>2. ~wiped' /\ long' # Torn => Earned' \in -(atRisk' - Stake')..atRisk'
    BY <1>1, <1>5 DEF Repair, Earned, Stake, AtStake
  <2>3. /\ Lines \ Ahead[boot'] = (Lines \ Ahead[boot]) \cup {boot}
        /\ boot \notin Lines \ Ahead[boot]
    BY <1>1 DEF Ahead, After, Lines
  <2>4. \A l \in Lines \ Ahead[boot] : Whole(l)'
    <3>1. \A l \in Lines : ~Repairs(l)
      BY <1>1 DEF Repairs, SetAccepted
    <3>2. \A l \in Lines \ Ahead[boot] : Whole(l)
      BY <1>5, <3>1 DEF Repair
    <3>3. QED
      BY <1>1, <3>2 DEF Whole, Allowed
  <2>5. CASE Sealed(boot)
    <3>1. Whole(boot)
      BY <1>1, <1>5, <2>5 DEF Sealed, Whole, Allowed, Repair, Loose, Inv, Types
    <3>2. \A l \in Lines \ Ahead[boot'] : Whole(l)'
      BY <1>1, <2>3, <2>4, <3>1 DEF Whole, Allowed
    <3>3. todo' = <<>>
      BY <1>1, <2>5
    <3>4. Repair'
      BY <2>1, <2>2, <3>2, <3>3 DEF Repair
    <3>5. QED
      BY <1>3, <3>4 DEF Inv
  <2>6. CASE ~Sealed(boot)
    <3>1. boot \in touched
      BY <1>1, <1>5, <2>6, BooksAssumption DEF Sealed, Repair, Loose, Inv, Types
    <3>2. todo' = SetAccepted(boot, 0)
      BY <1>1, <2>6
    <3>3. PICK x \in Lines : x = boot
      BY <1>1
    <3>4. Repairs(x)'
      BY <1>1, <3>1, <3>2, <3>3 DEF Repairs
    <3>5. \A l \in Lines \ Ahead[boot'] : Repairs(l)' \/ Whole(l)'
      BY <2>3, <2>4, <3>3, <3>4
    <3>6. Repair'
      BY <2>1, <2>2, <3>3, <3>4, <3>5 DEF Repair
    <3>7. QED
      BY <1>3, <3>6 DEF Inv
  <2>7. QED
    BY <2>5, <2>6
<1>6. QED
  BY <1>1, <1>4, <1>5 DEF Inv, Hand, Lines

-----------------------------------------------------------------------------
(* Every step keeps the invariant.                                         *)

LEMMA HandlersKeepInv ==
  ASSUME Inv,
         MoneyInserted \/ BankInserted \/ TokensCounted \/ PayoutEnded \/ PrintCheck
           \/ CreditTimeout \/ MotorTimeout
  PROVE  Inv'
<1>1. Ready
  BY DEF MoneyInserted, BankInserted, TokensCounted, PayoutEnded, PrintCheck,
         CreditTimeout, MotorTimeout
<1>2. /\ value \in [Lines -> Nat] /\ value["money"] \in Nat /\ value["bank"] \in Nat
      /\ value["rest"] \in Nat /\ forgiven \in Nat
  BY <1>1, ReadyIsWhole DEF Lines, Inv, Types
<1>3. ASSUME NEW writes, NEW lines, Earns(writes, lines), Plan(writes, lines, 0)
      PROVE  Inv'
  <2>1. Handler(writes, lines) /\ forgiven' = forgiven + 0
    BY <1>2, <1>3 DEF Earns
  <2>2. 0 \in Nat
    OBVIOUS
  <2>3. QED
    BY <1>1, <1>3, <2>1, <2>2, HandlerKeepsInv
<1>4. ASSUME NEW writes, NEW lines, Forgives(writes, lines),
             Plan(writes, lines, OnLines(value))
      PROVE  Inv'
  <2>1. OnLines(value) \in Nat /\ OnLines(value) = value["money"] + value["bank"]
    BY <1>2, OnLinesIs
  <2>2. Handler(writes, lines) /\ forgiven' = forgiven + OnLines(value)
    BY <1>2, <1>4, <2>1 DEF Forgives
  <2>3. QED
    BY <1>1, <1>4, <2>1, <2>2, HandlerKeepsInv
<1>5. CASE MoneyInserted
  <2>1. PICK m \in 1..MaxCredit :
          Earns(SetAccepted("money", value["money"] + m) \o IncCounter("Coin", m)
                  \o IncCounter("AllCash", m),
                [value EXCEPT !["money"] = value["money"] + m])
    BY <1>5 DEF MoneyInserted
  <2>2. m \in Nat /\ value["money"] + m \in Nat
    BY <1>2, BooksAssumption
  <2>3. QED
    BY <1>1, <1>3, <2>1, <2>2, MoneyPlan
<1>6. CASE BankInserted
  <2>1. PICK m \in 1..MaxCredit :
          Earns(SetAccepted("bank", value["bank"] + m) \o IncCounter("Bank", m),
                [value EXCEPT !["bank"] = value["bank"] + m])
    BY <1>6 DEF BankInserted
  <2>2. m \in Nat /\ value["bank"] + m \in Nat
    BY <1>2, BooksAssumption
  <2>3. QED
    BY <1>1, <1>3, <2>1, <2>2, BankPlan
<1>7. Accepted \in Nat
  BY <1>2 DEF Accepted
<1>8. CASE TokensCounted
  <2>1. PICK n \in 0..(Accepted \div HopperCost) - 1 :
          Earns(SetAccepted("coin", n), [value EXCEPT !["coin"] = n])
    BY <1>8 DEF TokensCounted
  <2>2. n \in Nat
    BY <1>7, BooksAssumption
  <2>3. QED
    BY <1>1, <1>3, <2>1, <2>2, TokensPlan
<1>9. CASE PayoutEnded
  <2> DEFINE n == Accepted \div HopperCost
             r == Accepted % HopperCost
  <2>1. n \in Nat /\ r \in Nat
    BY <1>7, BooksAssumption
  <2>2. Earns(IncCounter("CoinOut", n) \o SetAccepted("coin", 0) \o SetAccepted("rest", r),
              [value EXCEPT !["coin"] = 0, !["rest"] = r])
    BY <1>9 DEF PayoutEnded
  <2> HIDE DEF n, r
  <2>3. QED
    BY <1>1, <1>3, <2>1, <2>2, PayoutPlan
<1>10. CASE PrintCheck
  BY <1>1, <1>3, <1>10, CheckPlan DEF PrintCheck
<1>11. CASE CreditTimeout
  BY <1>1, <1>4, <1>11, CreditTimeoutPlan DEF CreditTimeout
<1>12. CASE MotorTimeout
  BY <1>1, <1>4, <1>12, MotorTimeoutPlan DEF MotorTimeout
<1>13. QED
  BY <1>5, <1>6, <1>8, <1>9, <1>10, <1>11, <1>12

LEMMA WriteKeepsInv == Inv /\ WriteArrayFram => Inv'
<1> SUFFICES ASSUME Inv, WriteArrayFram PROVE Inv'
  OBVIOUS
<1>1. ~Idle
  BY DEF Idle, WriteArrayFram
<1>2. CASE Hand
  BY <1>2, WriteKeepsHand DEF Inv
<1>3. CASE Repair
  BY <1>3, WriteKeepsRepair DEF Inv
<1>4. QED
  BY <1>1, <1>2, <1>3 DEF Inv

LEMMA StepKeepsInv == Inv /\ [Next]_vars => Inv'
<1> SUFFICES ASSUME Inv, [Next]_vars PROVE Inv'
  OBVIOUS
<1>1. CASE UNCHANGED vars
  <2>1. UNCHANGED <<value, crc, short, long, todo, boot, was, want, touched, wiped,
                    forgiven, atRisk, handlers, losses>>
    BY <1>1 DEF vars, framVars, lastVars
  <2>2. UNCHANGED <<Types, Idle, Hand, Repair>>
    BY <2>1 DEF Types, Idle, Hand, Repair, Whole, Allowed, Earned, Unwritten, Half,
                Written, Only, OneWay, Due, Effect, OnLines, Stake, AtStake, Loose, Repairs
  <2>3. QED
    BY <2>2 DEF Inv
<1>2. CASE WriteArrayFram
  BY <1>2, WriteKeepsInv
<1>3. CASE PowerLoss
  BY <1>3, PowerLossKeepsInv
<1>4. CASE CheckLongCounters
  BY <1>4, CheckKeepsInv
<1>5. CASE LoadAcceptedMoney
  BY <1>5, LoadKeepsInv
<1>6. QED
  BY <1>1, <1>2, <1>3, <1>4, <1>5, HandlersKeepInv DEF Next

THEOREM Invariance == Spec => []Inv
<1>1. QED
  BY InitInv, StepKeepsInv, PTL DEF Spec

(* The types of the books, and that no handler starts while the content of  *)
(* a cell is torn: SetAcceptedMoney, IncCounter*, and the checks of         *)
(* LoadAcceptedMoney and CheckLongCounters at the start-up.                 *)
THEOREM TypeCorrect == Spec => []TypeOK
<1>1. Inv => TypeOK
  <2> SUFFICES ASSUME Inv PROVE TypeOK
    OBVIOUS
  <2>1. Ready => value \in [Lines -> Nat] /\ long \in [Counters -> Nat]
    BY ReadyIsWhole, ReadyIsIdle DEF Idle
  <2>2. QED
    BY <2>1 DEF TypeOK, Inv, Types
<1>2. QED
  BY <1>1, Invariance, PTL

(* After any number of losses of power, also in the middle of the repair,   *)
(* every line of accepted money is the old value, the new one, or nothing:  *)
(* SetAcceptedMoney (the CRC is written last) and LoadAcceptedMoney.        *)
THEOREM LinesAreSafe == Spec => []LinesSurvive
<1>1. Inv => LinesSurvive
  BY ReadyIsIdle DEF LinesSurvive, Idle, Whole, Allowed
<1>2. QED
  BY <1>1, Invariance, PTL

(* The long counters and the lines of accepted money never drift apart by   *)
(* more than was on the lines of the handlers that power losses interrupted: *)
(* the order of the writes in UserAppTask and PrintCheck.                   *)
THEOREM DriftIsBounded == Spec => []BooksDrift
<1>1. Inv => BooksDrift
  <2> SUFFICES ASSUME Inv, Ready, ~wiped
               PROVE  long["AllCash"] + long["Bank"] - long["Money"]
                        - value["money"] - value["bank"] - forgiven \in -atRisk..atRisk
    BY DEF BooksDrift
  <2>1. Idle
    BY ReadyIsIdle
  <2>2. Earned - value["money"] - value["bank"] \in -atRisk..atRisk
    BY <2>1 DEF Idle
  <2>3. /\ long["AllCash"] \in Nat /\ long["Bank"] \in Nat /\ long["Money"] \in Nat
        /\ forgiven \in Nat /\ value["money"] \in Nat /\ value["bank"] \in Nat
    BY <2>1, ReadyIsWhole DEF Idle, Counters, Lines, Inv, Types
  <2>4. long["AllCash"] + long["Bank"] - long["Money"]
          - value["money"] - value["bank"] - forgiven
          = Earned - value["money"] - value["bank"]
    BY <2>3 DEF Earned
  <2>5. QED
    BY <2>2, <2>4
<1>2. QED
  BY <1>1, Invariance, PTL

=============================================================================
